------------------------- MODULE ColumnDriverProofs -------------------------
(***************************************************************************)
(* Theorems about ColumnDriver, for every number of threads and jobs, any  *)
(* size of the buffer and any session, from the inductive invariant IInv.  *)
(***************************************************************************)
EXTENDS ColumnDriverInvariant, JobRangesProofs, FiniteSetTheorems, SequenceTheorems, TLAPS

(* Nothing of a worker changes in this step.                               *)
Same(v) ==
    /\ pc'[v] = pc[v] /\ job'[v] = job[v] /\ prefix'[v] = prefix[v]
    /\ leaf'[v] = leaf[v] /\ claim'[v] = claim[v]

(* Worker w gets the next number of its class for what it has found.       *)
TakesNumber(w) ==
    /\ pc[w] \in {"countOnly", "enqueue"} /\ pc'[w] \in {"recorded", "flush"}
    /\ \A v \in Workers \ {w} : pc'[v] = pc[v]
    /\ TakeNumber(Found(w))
    /\ UNCHANGED <<session, jobOrder, nextJob, jobsDone, limitClaims, flags, workerVars,
                   reportVars, searched>>

(* A worker in a job goes on at its prefix, *)
Proceeds(w) ==
    /\ pc[w] \in InJob /\ job'[w] = job[w] /\ prefix'[w] = prefix[w]
    /\ pc'[w] = "enterPrefix" => pc[w] = "enterPrefix"
    /\ pc'[w] \in Working => pc[w] \in Working
    /\ pc'[w] \in Searching => pc[w] \in Searching
    /\ \/ leaf'[w] = leaf[w] /\ (pc'[w] \in Unnumbered => pc[w] \in Unnumbered)
       \/ pc[w] = "search" /\ pc'[w] \in Unnumbered /\ leaf'[w] = leaf[w] + 1

(* begins to search it, *)
Enters(w) ==
    /\ pc[w] = "enterPrefix" /\ pc'[w] = "search" /\ leaf'[w] = 0
    /\ job'[w] = job[w] /\ prefix'[w] = prefix[w]

(* or goes to the next one; *)
Continues(w) ==
    /\ pc[w] = "prefixDone" /\ pc'[w] = "enterPrefix" /\ ~stop
    /\ job'[w] = job[w] /\ prefix'[w] = prefix[w] + JobCount

(* and one that draws a job draws the next. *)
Draws(w) ==
    /\ pc[w] \notin InJob /\ pc'[w] = "enterPrefix" /\ nextJob < JobCount
    /\ job'[w] = jobOrder[nextJob] /\ prefix'[w] = job'[w] /\ nextJob' = nextJob + 1

Moves(w) == pc'[w] \in InJob => Proceeds(w) \/ Enters(w) \/ Continues(w) \/ Draws(w)

-----------------------------------------------------------------------------
LEMMA CountsTyped ==
    /\ PrefixCount \in Nat \ {0} /\ JobCount \in Nat \ {0} /\ JobCount <= PrefixCount
    /\ WorkerCount \in Nat \ {0} /\ WorkerCount <= JobCount
    /\ Jobs \subseteq Prefixes /\ \A j \in Jobs : j \in Nat
    /\ \A p \in Prefixes : p \in Nat
<1>1. /\ PrefixCount \in Nat \ {0} /\ JobCount \in Nat \ {0} /\ JobCount <= PrefixCount
      /\ WorkerCount \in Nat \ {0} /\ WorkerCount <= JobCount
  BY ColumnAssumption DEF JobCount, WorkerCount
<1> QED BY <1>1 DEF Jobs, Prefixes

LEMMA SessionTyped ==
    ASSUME session \in Sessions
    PROVE  /\ \A p \in Prefixes : Leaves[p] \in Seq(Encodings) /\ Len(Leaves[p]) \in Nat
           /\ Limit \in Nat /\ PrintLimit \in Nat
           /\ Threshold \in Nat \ {0} /\ Capacity \in Nat /\ Threshold <= Capacity
           /\ {RandomOrder, ToFile, CheckMayFail} \subseteq BOOLEAN
  BY ColumnAssumption DEF IsSession, Leaves, Limit, PrintLimit, Threshold, Capacity,
      RandomOrder, ToFile, CheckMayFail

(* A configuration is a leaf of one prefix, and there at one place.        *)
LEMMA LeavesDistinct ==
    ASSUME session \in Sessions, NEW p \in Prefixes, NEW q \in Prefixes,
           NEW i \in 1 .. Len(Leaves[p]), NEW j \in 1 .. Len(Leaves[q]),
           Leaves[p][i] = Leaves[q][j]
    PROVE  p = q /\ i = j
  BY ColumnAssumption DEF IsSession, Leaves

LEMMA WorkersFinite == IsFiniteSet(Workers) /\ Cardinality(Workers) = WorkerCount
  BY CountsTyped, FS_Interval DEF Workers

LEMMA JobsFinite == IsFiniteSet(Jobs) /\ Cardinality(Jobs) = JobCount
<1>1. JobCount \in Nat \ {0}
  BY CountsTyped
<1>2. IsFiniteSet(0 .. JobCount - 1) /\ Cardinality(0 .. JobCount - 1) = JobCount
  BY <1>1, FS_Interval
<1> QED BY <1>2 DEF Jobs

(* A session stays what it is, and with it all that is read from it.       *)
LEMMA SessionStays ==
    ASSUME [Next]_vars
    PROVE  /\ session' = session /\ jobOrder' = jobOrder
           /\ Leaves' = Leaves /\ Limit' = Limit /\ PrintLimit' = PrintLimit
           /\ Capacity' = Capacity /\ Threshold' = Threshold /\ ToFile' = ToFile
           /\ CheckMayFail' = CheckMayFail /\ RandomOrder' = RandomOrder
<1>1. session' = session /\ jobOrder' = jobOrder
  BY DEF Next, vars, atomics, MainThread, WorkerStep, CheckStop, ClaimJob, EnterPrefix,
      LeavePrefix, CountJob, Retire, VisitLeaf, PollStop, FinishPrefix, ClaimLimit, ReachLimit,
      LoadTotal, CountOnly, TakeNumber, Enqueue, AwaitRoom, SignalFlush, CheckFails,
      CreateWorker, WorkerCreated, CreateFails, LockCompletion, TestBatch, StartWait,
      WaitExpires, WakeUp, PollInterrupt, SwapBuffers, AppendBatch, PrintNext, JoinWorkers,
      Assess, Report, Exit, Interrupt
<1> QED BY <1>1 DEF Leaves, Limit, PrintLimit, Capacity, Threshold, ToFile, CheckMayFail,
      RandomOrder

(* The steps of main that choose among more than two ways.                 *)
LEMMA AfterDrainCases ==
    /\ drainFor = "watch" => AfterDrain = IF seen = 0 THEN "join" ELSE "lock"
    /\ drainFor = "report" => AfterDrain = "assess"
    /\ drainFor = "cleanup" => AfterDrain = "done"
  BY Zenon DEF AfterDrain

LEMMA ReportStep ==
    Report =>
        /\ mainPc = "report" /\ mainPc' = "exit"
        /\ interrupted => status' = "interrupted"
        /\ ~interrupted /\ exitStatus = "failure" => status' = "failed"
        /\ ~interrupted /\ exitStatus # "failure" /\ HitLimit => status' = "solutionLimit"
        /\ ~interrupted /\ exitStatus # "failure" /\ ~HitLimit => status' = "complete"
        /\ UNCHANGED <<session, atomics, flags, queueVars, owner, running, pc, workerVars,
                       watchVars, outputVars, interrupted, exitStatus, history>>
  BY Zenon DEF Report

LEMMA ExitStep ==
    Exit =>
        /\ mainPc = "exit" /\ mainPc' = "swap" /\ drainFor' = "cleanup"
        /\ internalError => exitStatus' = "failure"
        /\ ~internalError /\ interrupted /\ exitStatus = "success" => exitStatus' = "sigint"
        /\ ~internalError /\ ~(interrupted /\ exitStatus = "success") =>
               exitStatus' = exitStatus
        /\ UNCHANGED <<session, atomics, flags, queueVars, owner, running, pc, workerVars,
                       created, seen, taken, shown, outputVars, interrupted, status, history>>
  BY Zenon DEF Exit

(* What only ever grows.                                                   *)
LEMMA Monotone ==
    ASSUME TypeOK, [Next]_vars
    PROVE  /\ limitClaims' >= limitClaims /\ nextJob' >= nextJob
           /\ numbering \subseteq numbering'
           /\ stop => stop'
           /\ interrupted => interrupted'
           /\ internalError => internalError'
           /\ fileFailed => fileFailed'
<1>0. limitClaims \in Nat /\ nextJob \in Nat
  BY DEF TypeOK
<1>1. ASSUME NEW w \in Workers, WorkerStep(w) \/ CheckFails(w)
      PROVE  /\ limitClaims' >= limitClaims /\ nextJob' >= nextJob
             /\ numbering \subseteq numbering'
             /\ stop => stop'
             /\ interrupted => interrupted'
             /\ internalError => internalError'
             /\ fileFailed => fileFailed'
  <2>1. CASE CheckStop(w)
    BY <2>1, <1>0
    DEF atomics, CheckStop, Goto, flags, queueVars, workerVars, watchVars, outputVars,
        reportVars, history
  <2>2. CASE ClaimJob(w)
    <3>1. stop => stop'
      BY <2>2, Zenon DEF ClaimJob
    <3>2. /\ limitClaims' >= limitClaims /\ nextJob' >= nextJob /\ numbering \subseteq numbering'
          /\ (interrupted => interrupted') /\ (internalError => internalError')
          /\ (fileFailed => fileFailed')
      BY <2>2, <1>0 DEF ClaimJob, Goto, atomics, flags, reportVars, outputVars, history
    <3> QED BY <3>1, <3>2
  <2>3. CASE EnterPrefix(w) \/ LeavePrefix(w)
    BY <2>3, <1>0
    DEF atomics, EnterPrefix, Goto, LeavePrefix, flags, queueVars, workerVars,
        watchVars, outputVars, reportVars, history
  <2>4. CASE CountJob(w) \/ Retire(w)
    BY <2>4, <1>0
    DEF atomics, CountJob, Goto, Retire, WakeMain, flags, queueVars, workerVars,
        watchVars, outputVars, reportVars, history
  <2>5. CASE VisitLeaf(w) \/ PollStop(w)
    BY <2>5, <1>0
    DEF atomics, VisitLeaf, Goto, PollStop, flags, queueVars, workerVars, watchVars,
        outputVars, reportVars, history
  <2>6. CASE FinishPrefix(w) \/ ClaimLimit(w)
    BY <2>6, <1>0
    DEF atomics, FinishPrefix, Goto, ClaimLimit, flags, queueVars, workerVars,
        watchVars, outputVars, reportVars, history
  <2>7. CASE ReachLimit(w)
    <3>1. stop => stop'
      BY <2>7, Zenon DEF ReachLimit
    <3>2. /\ limitClaims' >= limitClaims /\ nextJob' >= nextJob /\ numbering \subseteq numbering'
          /\ (interrupted => interrupted') /\ (internalError => internalError')
          /\ (fileFailed => fileFailed')
      BY <2>7, <1>0 DEF ReachLimit, Goto, atomics, flags, reportVars, outputVars, history
    <3> QED BY <3>1, <3>2
  <2>8. CASE LoadTotal(w) \/ CountOnly(w)
    BY <2>8, <1>0
    DEF atomics, LoadTotal, Goto, CountOnly, TakeNumber, flags, queueVars, workerVars,
        watchVars, outputVars, reportVars, history
  <2>9. CASE Enqueue(w) \/ AwaitRoom(w)
    BY <2>9, <1>0
    DEF atomics, Enqueue, Goto, TakeNumber, AwaitRoom, flags, queueVars, workerVars,
        watchVars, outputVars, reportVars, history
  <2>10. CASE SignalFlush(w) \/ CheckFails(w)
    BY <2>10, <1>0
    DEF atomics, SignalFlush, Goto, WakeMain, CheckFails, flags, queueVars, workerVars,
        watchVars, outputVars, reportVars, history
  <2> QED BY <1>1, <2>1, <2>2, <2>3, <2>4, <2>5, <2>6, <2>7, <2>8, <2>9, <2>10 DEF
      WorkerStep
<1>2. CASE MainThread
  <2>1. CASE CreateWorker \/ WorkerCreated
    BY <2>1, <1>0
    DEF atomics, CreateWorker, Activate, WorkerCreated, Goto, flags, queueVars,
        workerVars, watchVars, outputVars, reportVars, history
  <2>2. CASE CreateFails \/ LockCompletion
    BY <2>2, <1>0
    DEF atomics, CreateFails, LockCompletion, flags, queueVars, workerVars, watchVars,
        outputVars, reportVars, history
  <2>3. CASE TestBatch \/ StartWait
    BY <2>3, <1>0
    DEF atomics, TestBatch, StartWait, flags, queueVars, workerVars, watchVars,
        outputVars, reportVars, history
  <2>4. CASE WaitExpires \/ WakeUp
    BY <2>4, <1>0
    DEF atomics, WaitExpires, WakeUp, flags, queueVars, workerVars, watchVars,
        outputVars, reportVars, history
  <2>5. CASE PollInterrupt
    <3>1. stop => stop'
      BY <2>5, Zenon DEF PollInterrupt, NoticeInterrupt
    <3>2. /\ limitClaims' >= limitClaims /\ nextJob' >= nextJob /\ numbering \subseteq numbering'
          /\ (interrupted => interrupted') /\ (internalError => internalError')
          /\ (fileFailed => fileFailed')
      BY <2>5, <1>0 DEF PollInterrupt, Goto, atomics, flags, reportVars, outputVars, history
    <3> QED BY <3>1, <3>2
  <2>6. CASE SwapBuffers \/ AppendBatch
    BY <2>6, <1>0, AfterDrainCases
    DEF atomics, SwapBuffers, WakeWaiters, AppendBatch, flags, queueVars, workerVars,
        watchVars, outputVars, reportVars, history
  <2>7. CASE PrintNext \/ JoinWorkers
    BY <2>7, <1>0, AfterDrainCases
    DEF atomics, PrintNext, JoinWorkers, flags, queueVars, workerVars, watchVars,
        outputVars, reportVars, history
  <2>8. CASE Assess \/ Report
    BY <2>8, <1>0, ReportStep
    DEF atomics, Assess, flags, queueVars, workerVars, watchVars, outputVars,
        reportVars, history
  <2>9. CASE Exit
    BY <2>9, <1>0, ExitStep
    DEF atomics, flags, queueVars, workerVars, watchVars, outputVars, reportVars,
        history
  <2> QED BY <1>2, <2>1, <2>2, <2>3, <2>4, <2>5, <2>6, <2>7, <2>8, <2>9 DEF MainThread
<1>3. CASE Interrupt \/ UNCHANGED vars
  BY <1>3, <1>0
  DEF atomics, Interrupt, vars, flags, queueVars, workerVars, watchVars, outputVars,
      reportVars, history
<1> QED BY <1>1, <1>2, <1>3 DEF Next

LEMMA TotalsGrow ==
    ASSUME TypeOK, [Next]_vars, NEW kind \in Kinds
    PROVE  total'[kind] >= total[kind]
<1>0. total \in [Kinds -> Nat] /\ total[kind] \in Nat
  BY DEF TypeOK
<1>1. ASSUME NEW w \in Workers, WorkerStep(w) \/ CheckFails(w)
      PROVE  total'[kind] >= total[kind]
  <2>1. CASE CheckStop(w) \/ ClaimJob(w) \/ EnterPrefix(w) \/ LeavePrefix(w) \/
      CountJob(w) \/ Retire(w)
    BY <2>1, <1>0
    DEF atomics, CheckStop, Goto, ClaimJob, EnterPrefix, LeavePrefix, CountJob, Retire,
        WakeMain
  <2>2. CASE VisitLeaf(w) \/ PollStop(w) \/ FinishPrefix(w) \/ ClaimLimit(w) \/
      ReachLimit(w) \/ LoadTotal(w)
    BY <2>2, <1>0
    DEF atomics, VisitLeaf, Goto, PollStop, FinishPrefix, ClaimLimit, ReachLimit,
        LoadTotal
  <2>3. CASE CountOnly(w) \/ Enqueue(w) \/ AwaitRoom(w) \/ SignalFlush(w) \/
      CheckFails(w)
    BY <2>3, <1>0
    DEF atomics, CountOnly, Goto, TakeNumber, Enqueue, AwaitRoom, SignalFlush, WakeMain,
        CheckFails
  <2> QED BY <1>1, <2>1, <2>2, <2>3 DEF WorkerStep
<1>2. CASE MainThread
  <2>1. CASE CreateWorker \/ WorkerCreated \/ CreateFails \/ LockCompletion \/ TestBatch
      \/ StartWait
    BY <2>1, <1>0
    DEF atomics, CreateWorker, Activate, WorkerCreated, Goto, CreateFails,
        LockCompletion, TestBatch, StartWait
  <2>2. CASE WaitExpires \/ WakeUp \/ PollInterrupt \/ SwapBuffers \/ AppendBatch \/
      PrintNext
    BY <2>2, <1>0, AfterDrainCases
    DEF atomics, WaitExpires, WakeUp, PollInterrupt, NoticeInterrupt, SwapBuffers,
        WakeWaiters, AppendBatch, PrintNext
  <2>3. CASE JoinWorkers \/ Assess \/ Report \/ Exit
    BY <2>3, <1>0, ReportStep, ExitStep
    DEF atomics, JoinWorkers, Assess
  <2> QED BY <1>2, <2>1, <2>2, <2>3 DEF MainThread
<1>3. CASE Interrupt \/ UNCHANGED vars
  BY <1>3, <1>0
  DEF atomics, Interrupt, vars
<1> QED BY <1>1, <1>2, <1>3 DEF Next

(* A step of one worker leaves the others alone, and of the main thread    *)
(* everything but its sleep.                                               *)
LEMMA OthersStay ==
    ASSUME TypeOK, NEW w \in Workers, WorkerStep(w) \/ CheckFails(w)
    PROVE  /\ \A v \in Workers \ {w} : Same(v)
           /\ UNCHANGED <<session, jobOrder, front, owner, created, seen, taken, shown,
                          drainFor, fileFailed, mirrored, file, printed, interrupted,
                          exitStatus, status>>
           /\ mainPc' = mainPc \/ (mainPc = "sleep" /\ mainPc' = "wake")
<1>1. CASE CheckStop(w) \/ ClaimJob(w) \/ EnterPrefix(w) \/ LeavePrefix(w)
  BY <1>1
  DEF TypeOK, Same, CheckStop, Goto, ClaimJob, EnterPrefix, LeavePrefix, atomics, flags,
      queueVars, workerVars, watchVars, outputVars, reportVars, history
<1>2. CASE CountJob(w) \/ Retire(w) \/ VisitLeaf(w) \/ PollStop(w)
  BY <1>2
  DEF TypeOK, Same, CountJob, Goto, Retire, WakeMain, VisitLeaf, PollStop, atomics,
      flags, queueVars, workerVars, watchVars, outputVars, reportVars, history
<1>3. CASE FinishPrefix(w) \/ ClaimLimit(w) \/ ReachLimit(w) \/ LoadTotal(w)
  BY <1>3
  DEF TypeOK, Same, FinishPrefix, Goto, ClaimLimit, ReachLimit, LoadTotal, atomics,
      flags, queueVars, workerVars, watchVars, outputVars, reportVars, history
<1>4. CASE CountOnly(w) \/ Enqueue(w) \/ AwaitRoom(w) \/ SignalFlush(w)
  BY <1>4
  DEF TypeOK, Same, CountOnly, Goto, TakeNumber, Enqueue, AwaitRoom, SignalFlush,
      WakeMain, atomics, flags, queueVars, workerVars, watchVars, outputVars,
      reportVars, history
<1>5. CASE CheckFails(w)
  BY <1>5
  DEF TypeOK, Same, CheckFails, atomics, flags, queueVars, workerVars, watchVars,
      outputVars, reportVars, history
<1> QED BY <1>1, <1>2, <1>3, <1>4, <1>5 DEF WorkerStep

(* A step of the main thread, the user or nobody leaves the workers where  *)
(* they are, but for one that it creates or those it wakes.                *)
LEMMA MainKeeps ==
    ASSUME TypeOK, CreationInv, MainThread \/ Interrupt \/ UNCHANGED vars
    PROVE  /\ UNCHANGED <<session, atomics, buffer, workerVars, history>>
           /\ \A v \in Workers : \/ pc'[v] = pc[v]
                                 \/ pc[v] = "waiting" /\ pc'[v] = "enqueue"
                                 \/ /\ pc[v] = "absent" /\ pc'[v] = "checkStop"
                                    /\ WorkerCreated /\ v = created + 1
<1>1. CASE MainThread
  <2>1. CASE CreateWorker \/ CreateFails
    BY <2>1
    DEF TypeOK, CreateWorker, Activate, CreateFails, atomics, flags, queueVars,
        workerVars, history
  <2>2. CASE WorkerCreated
    BY <2>2, CountsTyped
    DEF TypeOK, CreationInv, Creating, Workers, WorkerCreated, Goto, atomics, flags,
        queueVars, workerVars, history
  <2>3. CASE LockCompletion \/ TestBatch \/ StartWait \/ WaitExpires \/ WakeUp \/
      PollInterrupt
    BY <2>3
    DEF TypeOK, LockCompletion, TestBatch, StartWait, WaitExpires, WakeUp,
        PollInterrupt, NoticeInterrupt, atomics, flags, queueVars, workerVars, history
  <2>4. CASE SwapBuffers
    BY <2>4, AfterDrainCases
    DEF TypeOK, SwapBuffers, WakeWaiters, atomics, flags, queueVars, workerVars, history
  <2>5. CASE AppendBatch \/ PrintNext
    BY <2>5, AfterDrainCases
    DEF TypeOK, AppendBatch, PrintNext, atomics, flags, queueVars, workerVars, history
  <2>6. CASE JoinWorkers \/ Assess \/ Report \/ Exit
    BY <2>6, ReportStep, ExitStep
    DEF TypeOK, JoinWorkers, Assess, atomics, flags, queueVars, workerVars, history
  <2> QED BY <1>1, <2>1, <2>2, <2>3, <2>4, <2>5, <2>6 DEF MainThread
<1>2. CASE Interrupt \/ UNCHANGED vars
  BY <1>2
  DEF TypeOK, Interrupt, vars, atomics, flags, queueVars, workerVars, watchVars,
      outputVars, reportVars, history
<1> QED BY <1>1, <1>2

(* Workers come and go in four steps.                                      *)
LEMMA RunningFrame ==
    ASSUME TypeOK, [Next]_vars
    PROVE  \/ \E u \in Workers : Retire(u)
           \/ CreateWorker \/ WorkerCreated \/ CreateFails
           \/ /\ \A u \in Workers : Active(u)' = Active(u)
              /\ running' = running
              /\ mainPc' = "created" <=> mainPc = "created"
<1>1. ASSUME NEW w \in Workers, WorkerStep(w) \/ CheckFails(w)
      PROVE  \/ \E u \in Workers : Retire(u)
             \/ CreateWorker \/ WorkerCreated \/ CreateFails
             \/ /\ \A u \in Workers : Active(u)' = Active(u)
                /\ running' = running
                /\ mainPc' = "created" <=> mainPc = "created"
  <2>1. CASE CheckStop(w) \/ ClaimJob(w) \/ EnterPrefix(w) \/ LeavePrefix(w)
    BY <2>1
    DEF TypeOK, Active, CheckStop, Goto, ClaimJob, EnterPrefix, LeavePrefix, atomics,
        flags, queueVars, workerVars, watchVars, outputVars, reportVars, history
  <2>2. CASE CountJob(w)
    BY <2>2
    DEF TypeOK, Active, CountJob, Goto, atomics, flags, queueVars, workerVars,
        watchVars, outputVars, reportVars, history
  <2>3. CASE Retire(w)
    BY <2>3
  <2>4. CASE VisitLeaf(w) \/ PollStop(w) \/ FinishPrefix(w) \/ ClaimLimit(w)
    BY <2>4
    DEF TypeOK, Active, VisitLeaf, Goto, PollStop, FinishPrefix, ClaimLimit, atomics,
        flags, queueVars, workerVars, watchVars, outputVars, reportVars, history
  <2>5. CASE ReachLimit(w) \/ LoadTotal(w) \/ CountOnly(w) \/ Enqueue(w)
    BY <2>5
    DEF TypeOK, Active, ReachLimit, Goto, LoadTotal, CountOnly, TakeNumber, Enqueue,
        atomics, flags, queueVars, workerVars, watchVars, outputVars, reportVars,
        history
  <2>6. CASE AwaitRoom(w) \/ SignalFlush(w) \/ CheckFails(w)
    BY <2>6
    DEF TypeOK, Active, AwaitRoom, Goto, SignalFlush, WakeMain, CheckFails, atomics,
        flags, queueVars, workerVars, watchVars, outputVars, reportVars, history
  <2> QED BY <1>1, <2>1, <2>2, <2>3, <2>4, <2>5, <2>6 DEF WorkerStep
<1>2. CASE MainThread
  <2>1. CASE CreateWorker
    BY <2>1
  <2>2. CASE WorkerCreated
    BY <2>2
  <2>3. CASE CreateFails
    BY <2>3
  <2>4. CASE LockCompletion \/ TestBatch \/ StartWait \/ WaitExpires
    BY <2>4
    DEF TypeOK, Active, LockCompletion, TestBatch, StartWait, WaitExpires, atomics,
        flags, queueVars, workerVars, watchVars, outputVars, reportVars, history
  <2>5. CASE WakeUp \/ PollInterrupt \/ SwapBuffers \/ AppendBatch
    BY <2>5, AfterDrainCases
    DEF TypeOK, Active, WakeUp, PollInterrupt, NoticeInterrupt, SwapBuffers,
        WakeWaiters, AppendBatch, atomics, flags, queueVars, workerVars, watchVars,
        outputVars, reportVars, history
  <2>6. CASE PrintNext \/ JoinWorkers \/ Assess \/ Report
    BY <2>6, AfterDrainCases, ReportStep
    DEF TypeOK, Active, PrintNext, JoinWorkers, Assess, atomics, flags, queueVars,
        workerVars, watchVars, outputVars, reportVars, history
  <2>7. CASE Exit
    BY <2>7, ExitStep
    DEF TypeOK, Active, atomics, flags, queueVars, workerVars, watchVars, outputVars,
        reportVars, history
  <2> QED BY <1>2, <2>1, <2>2, <2>3, <2>4, <2>5, <2>6, <2>7 DEF MainThread
<1>3. CASE Interrupt \/ UNCHANGED vars
  BY <1>3
  DEF TypeOK, Active, Interrupt, vars, atomics, flags, queueVars, workerVars, watchVars,
      outputVars, reportVars, history
<1> QED BY <1>1, <1>2, <1>3 DEF Next

LEMMA RunningStep ==
    ASSUME TypeOK, CreationInv, RunningInv, [Next]_vars
    PROVE  RunningInv'
<1> DEFINE R == ActiveWorkers
<1>1. IsFiniteSet(R) /\ Cardinality(R) \in Nat
  BY WorkersFinite, FS_Subset, FS_CardinalityType DEF ActiveWorkers
<1>2. running = Cardinality(R) + (IF mainPc = "created" THEN 1 ELSE 0)
  BY DEF RunningInv
<1>3. SUFFICES running' = Cardinality(R') + (IF mainPc' = "created" THEN 1 ELSE 0)
  BY DEF RunningInv
<1>4. ASSUME NEW w \in Workers, Retire(w)
      PROVE  running' = Cardinality(R') + (IF mainPc' = "created" THEN 1 ELSE 0)
  <2>1. R' = R \ {w} /\ w \in R
    BY <1>4 DEF TypeOK, Retire, Goto, ActiveWorkers, Active
  <2>2. running' = running - 1 /\ (mainPc' = "created" <=> mainPc = "created")
    BY <1>4 DEF Retire, WakeMain
  <2> HIDE DEF R
  <2>3. Cardinality(R') = Cardinality(R) - 1
    BY <1>1, <2>1, FS_RemoveElement
  <2> QED BY <1>1, <1>2, <2>2, <2>3
<1>5. CASE WorkerCreated
  <2>1. created + 1 \in Workers /\ pc[created + 1] = "absent"
    BY <1>5, CountsTyped DEF WorkerCreated, TypeOK, CreationInv, Creating, Workers
  <2>2. R' = R \union {created + 1} /\ created + 1 \notin R
    BY <1>5, <2>1 DEF WorkerCreated, Goto, TypeOK, ActiveWorkers, Active
  <2>3. running' = running /\ mainPc = "created" /\ mainPc' # "created"
    BY <1>5 DEF WorkerCreated
  <2> HIDE DEF R
  <2>4. Cardinality(R') = Cardinality(R) + 1
    BY <1>1, <2>2, FS_AddElement
  <2> QED BY <1>1, <1>2, <2>3, <2>4
<1>6. CASE CreateWorker \/ CreateFails
  <2>1. R' = R
    BY <1>6 DEF CreateWorker, CreateFails, ActiveWorkers, Active
  <2> HIDE DEF R
  <2> QED
    BY <1>1, <1>2, <1>6, <2>1 DEF CreateWorker, CreateFails, Activate
<1>7. ASSUME \A w \in Workers : Active(w)' = Active(w), running' = running,
             mainPc' = "created" <=> mainPc = "created"
      PROVE  running' = Cardinality(R') + (IF mainPc' = "created" THEN 1 ELSE 0)
  <2>1. R' = R
    BY <1>7 DEF ActiveWorkers, Workers
  <2> HIDE DEF R
  <2> QED BY <1>2, <1>7, <2>1
<1> QED BY <1>4, <1>5, <1>6, <1>7, RunningFrame

LEMMA CreationStep ==
    ASSUME TypeOK, CreationInv, [Next]_vars
    PROVE  CreationInv'
<1>0. pc \in [Workers -> WorkerSteps] /\ created \in 0 .. WorkerCount
      /\ drainFor \in {"watch", "report", "cleanup"}
  BY DEF TypeOK
<1>1. ASSUME NEW w \in Workers, WorkerStep(w) \/ CheckFails(w)
      PROVE  CreationInv'
  <2>1. CASE CheckStop(w)
    BY <2>1, CountsTyped, <1>0
    DEF CreationInv, Creating, Workers, CheckStop, Goto, atomics, flags, reportVars,
        watchVars
  <2>2. CASE ClaimJob(w)
    BY <2>2, CountsTyped, <1>0
    DEF CreationInv, Creating, Workers, ClaimJob, Goto, atomics, flags, reportVars,
        watchVars
  <2>3. CASE EnterPrefix(w)
    BY <2>3, CountsTyped, <1>0
    DEF CreationInv, Creating, Workers, EnterPrefix, Goto, atomics, flags, reportVars,
        watchVars
  <2>4. CASE LeavePrefix(w)
    BY <2>4, CountsTyped, <1>0
    DEF CreationInv, Creating, Workers, LeavePrefix, Goto, atomics, flags, reportVars,
        watchVars
  <2>5. CASE CountJob(w)
    BY <2>5, CountsTyped, <1>0
    DEF CreationInv, Creating, Workers, CountJob, Goto, atomics, flags, reportVars,
        watchVars
  <2>6. CASE Retire(w)
    BY <2>6, CountsTyped, <1>0
    DEF CreationInv, Creating, Workers, Retire, Goto, WakeMain, atomics, flags,
        reportVars, watchVars
  <2>7. CASE VisitLeaf(w)
    BY <2>7, CountsTyped, <1>0
    DEF CreationInv, Creating, Workers, VisitLeaf, Goto, atomics, flags, reportVars,
        watchVars
  <2>8. CASE PollStop(w)
    BY <2>8, CountsTyped, <1>0
    DEF CreationInv, Creating, Workers, PollStop, Goto, atomics, flags, reportVars,
        watchVars
  <2>9. CASE FinishPrefix(w)
    BY <2>9, CountsTyped, <1>0
    DEF CreationInv, Creating, Workers, FinishPrefix, Goto, atomics, flags, reportVars,
        watchVars
  <2>10. CASE ClaimLimit(w)
    BY <2>10, CountsTyped, <1>0
    DEF CreationInv, Creating, Workers, ClaimLimit, Goto, atomics, flags, reportVars,
        watchVars
  <2>11. CASE ReachLimit(w)
    BY <2>11, CountsTyped, <1>0
    DEF CreationInv, Creating, Workers, ReachLimit, Goto, atomics, flags, reportVars,
        watchVars
  <2>12. CASE LoadTotal(w)
    BY <2>12, CountsTyped, <1>0
    DEF CreationInv, Creating, Workers, LoadTotal, Goto, atomics, flags, reportVars,
        watchVars
  <2>13. CASE CountOnly(w)
    BY <2>13, CountsTyped, <1>0
    DEF CreationInv, Creating, Workers, CountOnly, Goto, TakeNumber, atomics, flags,
        reportVars, watchVars
  <2>14. CASE Enqueue(w)
    BY <2>14, CountsTyped, <1>0
    DEF CreationInv, Creating, Workers, Enqueue, Goto, TakeNumber, atomics, flags,
        reportVars, watchVars
  <2>15. CASE AwaitRoom(w)
    BY <2>15, CountsTyped, <1>0
    DEF CreationInv, Creating, Workers, AwaitRoom, Goto, atomics, flags, reportVars,
        watchVars
  <2>16. CASE SignalFlush(w)
    BY <2>16, CountsTyped, <1>0
    DEF CreationInv, Creating, Workers, SignalFlush, Goto, WakeMain, atomics, flags,
        reportVars, watchVars
  <2>17. CASE CheckFails(w)
    BY <2>17, CountsTyped, <1>0
    DEF CreationInv, Creating, Workers, CheckFails, atomics, flags, reportVars,
        watchVars
  <2> QED BY <1>1, <2>1, <2>2, <2>3, <2>4, <2>5, <2>6, <2>7, <2>8, <2>9, <2>10, <2>11,
      <2>12, <2>13, <2>14, <2>15, <2>16, <2>17 DEF WorkerStep
<1>2. CASE MainThread
  <2>1. CASE CreateWorker
    BY <2>1, CountsTyped, <1>0
    DEF CreationInv, Creating, Workers, CreateWorker, Activate, atomics, flags,
        reportVars, watchVars
  <2>2. CASE WorkerCreated
    BY <2>2, CountsTyped, <1>0
    DEF CreationInv, Creating, Workers, WorkerCreated, Goto, atomics, flags, reportVars,
        watchVars
  <2>3. CASE CreateFails
    BY <2>3, CountsTyped, <1>0
    DEF CreationInv, Creating, Workers, CreateFails, atomics, flags, reportVars,
        watchVars
  <2>4. CASE LockCompletion
    BY <2>4, CountsTyped, <1>0
    DEF CreationInv, Creating, Workers, LockCompletion, atomics, flags, reportVars,
        watchVars
  <2>5. CASE TestBatch
    BY <2>5, CountsTyped, <1>0
    DEF CreationInv, Creating, Workers, TestBatch, atomics, flags, reportVars, watchVars
  <2>6. CASE StartWait
    BY <2>6, CountsTyped, <1>0
    DEF CreationInv, Creating, Workers, StartWait, atomics, flags, reportVars, watchVars
  <2>7. CASE WaitExpires
    BY <2>7, CountsTyped, <1>0
    DEF CreationInv, Creating, Workers, WaitExpires, atomics, flags, reportVars,
        watchVars
  <2>8. CASE WakeUp
    BY <2>8, CountsTyped, <1>0
    DEF CreationInv, Creating, Workers, WakeUp, atomics, flags, reportVars, watchVars
  <2>9. CASE PollInterrupt
    BY <2>9, CountsTyped, <1>0
    DEF CreationInv, Creating, Workers, PollInterrupt, NoticeInterrupt, atomics, flags,
        reportVars, watchVars
  <2>10. CASE SwapBuffers
    BY <2>10, CountsTyped, <1>0, AfterDrainCases
    DEF CreationInv, Creating, Workers, SwapBuffers, WakeWaiters, atomics, flags,
        reportVars, watchVars
  <2>11. CASE AppendBatch
    BY <2>11, CountsTyped, <1>0
    DEF CreationInv, Creating, Workers, AppendBatch, atomics, flags, reportVars,
        watchVars
  <2>12. CASE PrintNext
    BY <2>12, CountsTyped, <1>0, AfterDrainCases
    DEF CreationInv, Creating, Workers, PrintNext, atomics, flags, reportVars, watchVars
  <2>13. CASE JoinWorkers
    BY <2>13, CountsTyped, <1>0
    DEF CreationInv, Creating, Workers, JoinWorkers, atomics, flags, reportVars,
        watchVars
  <2>14. CASE Assess
    BY <2>14, CountsTyped, <1>0
    DEF CreationInv, Creating, Workers, Assess, atomics, flags, reportVars, watchVars
  <2>15. CASE Report
    BY <2>15, CountsTyped, <1>0, ReportStep
    DEF CreationInv, Creating, Workers, atomics, flags, reportVars, watchVars
  <2>16. CASE Exit
    BY <2>16, CountsTyped, <1>0, ExitStep
    DEF CreationInv, Creating, Workers, atomics, flags, reportVars, watchVars
  <2> QED BY <1>2, <2>1, <2>2, <2>3, <2>4, <2>5, <2>6, <2>7, <2>8, <2>9, <2>10, <2>11,
      <2>12, <2>13, <2>14, <2>15, <2>16 DEF MainThread
<1>3. CASE Interrupt \/ UNCHANGED vars
  BY <1>3, CountsTyped, <1>0
  DEF CreationInv, Creating, Workers, Interrupt, vars, atomics, flags, reportVars,
      watchVars
<1> QED BY <1>1, <1>2, <1>3 DEF Next

(* The configuration at hand is a leaf of the worker's prefix.             *)
LEMMA FoundTyped ==
    ASSUME TypeOK, PlaceInv, NEW w \in Workers, pc[w] \in Finding
    PROVE  /\ prefix[w] \in Prefixes /\ leaf[w] \in 1 .. Len(Leaves[prefix[w]])
           /\ Found(w) \in Encodings /\ Found(w) \in AllLeaves
           /\ Kind(Found(w)) \in Kinds
<1>1. prefix[w] \in Prefixes /\ Leaves[prefix[w]] \in Seq(Encodings) /\ leaf[w] \in Nat
  <2>1. prefix[w] \in Prefixes /\ leaf[w] \in Nat
    BY DEF TypeOK
  <2>2. session \in Sessions
    BY DEF TypeOK
  <2> QED BY <2>1, <2>2, SessionTyped
<1>2. leaf[w] \in 1 .. Len(Leaves[prefix[w]])
  BY <1>1 DEF PlaceInv, Place, Searching
<1>3. Found(w) \in Items(Leaves[prefix[w]])
  BY <1>2 DEF Found, Items
<1>4. Kind(Found(w)) \in Kinds
  BY DEF Kind, Kinds
<1> QED BY <1>1, <1>2, <1>3, <1>4 DEF Found, AllLeaves

LEMMA NumberingTyped ==
    ASSUME TypeOK, PlaceInv, NEW w \in Workers, pc[w] \in Finding
    PROVE  /\ Numbering(Found(w)) \in Announcement
           /\ Numbering(Found(w)).kind = Kind(Found(w))
           /\ Numbering(Found(w)).encoding = Found(w)
           /\ Numbering(Found(w)).number = total[Kind(Found(w))] + 1
           /\ total[Kind(Found(w))] \in Nat
<1>1. Found(w) \in Encodings /\ Kind(Found(w)) \in Kinds
  BY FoundTyped
<1>2. total[Kind(Found(w))] \in Nat
  BY <1>1 DEF TypeOK
<1>3. total[Kind(Found(w))] + 1 \in Nat \ {0}
  BY <1>2
<1> QED BY <1>1, <1>2, <1>3 DEF Numbering, Announcement

LEMMA BoundedSubset ==
    ASSUME NEW n \in Nat, NEW A, A \subseteq 1 .. n
    PROVE  Cardinality(A) \in Nat /\ Cardinality(A) <= n
<1>1. IsFiniteSet(1 .. n) /\ Cardinality(1 .. n) = n
  BY FS_Interval
<1> QED BY <1>1, FS_Subset, FS_CardinalityType

-----------------------------------------------------------------------------
(* The buffers.                                                            *)

LEMMA PutInPlace ==
    ASSUME NEW S, NEW q \in Seq(S), NEW n \in Nat, n <= Len(q), NEW x \in S
    PROVE  /\ Put(q, n + 1, x) \in Seq(S) /\ n + 1 <= Len(Put(q, n + 1, x))
           /\ SubSeq(Put(q, n + 1, x), 1, n + 1) = Append(SubSeq(q, 1, n), x)
<1> DEFINE r == Put(q, n + 1, x)
<1>0. Len(q) \in Nat
  OBVIOUS
<1>1. /\ r \in Seq(S) /\ n + 1 <= Len(r) /\ Len(r) \in Nat
      /\ r[n + 1] = x /\ \A i \in 1 .. n : r[i] = q[i]
  <2>1. CASE n + 1 <= Len(q)
    BY <1>0, <2>1, ExceptSeq DEF Put
  <2>2. CASE n + 1 > Len(q)
    <3>1. r = Append(q, x) /\ n = Len(q)
      BY <1>0, <2>2 DEF Put
    <3> QED BY <1>0, <3>1, AppendProperties
  <2> QED BY <1>0, <2>1, <2>2
<1> HIDE DEF r
<1>2. \A i \in 1 .. n + 1 : r[i] \in S
  BY <1>1, ElementOfSeq
<1>3. /\ SubSeq(r, 1, n + 1) \in Seq(S) /\ Len(SubSeq(r, 1, n + 1)) = n + 1
      /\ \A i \in 1 .. n + 1 : SubSeq(r, 1, n + 1)[i] = r[i]
  BY <1>2, SubSeqProperties
<1>4. \A i \in 1 .. n : q[i] \in S
  BY <1>0, ElementOfSeq
<1>5. /\ SubSeq(q, 1, n) \in Seq(S) /\ Len(SubSeq(q, 1, n)) = n
      /\ \A i \in 1 .. n : SubSeq(q, 1, n)[i] = q[i]
  BY <1>4, SubSeqProperties
<1>6. /\ Append(SubSeq(q, 1, n), x) \in Seq(S)
      /\ Len(Append(SubSeq(q, 1, n), x)) = n + 1
      /\ \A i \in 1 .. n : Append(SubSeq(q, 1, n), x)[i] = q[i]
      /\ Append(SubSeq(q, 1, n), x)[n + 1] = x
  BY <1>5, AppendProperties
<1>7. \A i \in 1 .. n + 1 : SubSeq(r, 1, n + 1)[i] = Append(SubSeq(q, 1, n), x)[i]
  BY <1>1, <1>3, <1>6
<1>8. SubSeq(r, 1, n + 1) = Append(SubSeq(q, 1, n), x)
  BY <1>3, <1>6, <1>7, SeqEqual
<1> QED BY <1>1, <1>8 DEF r

LEMMA PartTyped ==
    ASSUME NEW S, NEW q \in Seq(S), NEW m \in Nat, NEW n \in Nat, n <= Len(q)
    PROVE  /\ SubSeq(q, m + 1, n) \in Seq(S)
           /\ Len(SubSeq(q, m + 1, n)) = IF m < n THEN n - m ELSE 0
           /\ \A i \in 1 .. n - m : SubSeq(q, m + 1, n)[i] = q[m + i]
<1>1. \A i \in m + 1 .. n : q[i] \in S
  BY ElementOfSeq
<1>2. \A i \in 1 .. n - m : m + 1 + i - 1 = m + i
  OBVIOUS
<1>3. m + 1 \in Int /\ n \in Int /\ n - (m + 1) + 1 = n - m /\ (m + 1 <= n <=> m < n)
  OBVIOUS
<1>4. /\ SubSeq(q, m + 1, n) \in Seq(S)
      /\ Len(SubSeq(q, m + 1, n)) = IF m + 1 <= n THEN n - (m + 1) + 1 ELSE 0
      /\ \A i \in 1 .. n - (m + 1) + 1 : SubSeq(q, m + 1, n)[i] = q[m + 1 + i - 1]
  BY <1>1, <1>3, SubSeqProperties
<1> QED BY <1>2, <1>3, <1>4

LEMMA AppendToSecond ==
    ASSUME NEW S, NEW p \in Seq(S), NEW q \in Seq(S), NEW x \in S
    PROVE  p \o Append(q, x) = Append(p \o q, x)
  OBVIOUS

LEMMA BufferTyped ==
    ASSUME TypeOK, BufferInv
    PROVE  /\ front \in {0, 1} /\ 1 - front \in {0, 1} /\ front # 1 - front
           /\ buffer[front] \in Seq(Announcement) /\ buffer[1 - front] \in Seq(Announcement)
           /\ count \in Nat /\ taken \in Nat /\ shown \in Nat
           /\ count <= Len(buffer[front]) /\ taken <= Len(buffer[1 - front])
           /\ Pending \in Seq(Announcement) /\ Len(Pending) = count
           /\ Batch \in Seq(Announcement) /\ Len(Batch) = taken
           /\ \A i \in 1 .. taken : Batch[i] = buffer[1 - front][i]
           /\ SubSeq(buffer[1 - front], shown + 1, taken) \in Seq(Announcement)
<1>1. front \in {0, 1} /\ 1 - front \in {0, 1} /\ front # 1 - front
  BY DEF TypeOK
<1>2. buffer[front] \in Seq(Announcement) /\ buffer[1 - front] \in Seq(Announcement)
  BY <1>1 DEF TypeOK
<1>3. count \in Nat /\ taken \in Nat /\ shown \in Nat
  BY SessionTyped DEF TypeOK
<1>4. count <= Len(buffer[front]) /\ taken <= Len(buffer[1 - front])
  BY DEF BufferInv
<1>5. 0 \in Nat /\ 0 + 1 = 1 /\ (\A n \in Nat : n - 0 = n) /\ (\A n \in Nat : 0 < n \/ n = 0)
      /\ \A i \in Nat : 0 + i = i
  OBVIOUS
<1>6. /\ SubSeq(buffer[front], 0 + 1, count) \in Seq(Announcement)
      /\ Len(SubSeq(buffer[front], 0 + 1, count)) = IF 0 < count THEN count - 0 ELSE 0
  BY <1>2, <1>3, <1>4, PartTyped
<1>7. /\ SubSeq(buffer[1 - front], 0 + 1, taken) \in Seq(Announcement)
      /\ Len(SubSeq(buffer[1 - front], 0 + 1, taken)) = IF 0 < taken THEN taken - 0 ELSE 0
      /\ \A i \in 1 .. taken - 0 :
             SubSeq(buffer[1 - front], 0 + 1, taken)[i] = buffer[1 - front][0 + i]
  BY <1>2, <1>3, <1>4, PartTyped
<1>8. SubSeq(buffer[1 - front], shown + 1, taken) \in Seq(Announcement)
  BY <1>2, <1>3, <1>4, PartTyped
<1>9. Pending \in Seq(Announcement) /\ Len(Pending) = count
  BY <1>3, <1>5, <1>6 DEF Pending
<1>10. /\ Batch \in Seq(Announcement) /\ Len(Batch) = taken
       /\ \A i \in 1 .. taken : Batch[i] = buffer[1 - front][i]
  BY <1>3, <1>5, <1>7 DEF Batch
<1> QED BY <1>1, <1>2, <1>3, <1>4, <1>8, <1>9, <1>10

LEMMA BufferTypedNext ==
    (TypeOK /\ BufferInv
     => Pending \in Seq(Announcement) /\ Len(Pending) = count)'
<1>1. TypeOK /\ BufferInv => Pending \in Seq(Announcement) /\ Len(Pending) = count
  BY BufferTyped
<1> QED BY <1>1, PTL

LEMMA SymmetricTyped ==
    ASSUME NEW q \in Seq(Announcement)
    PROVE  SymmetricIn(q) \in Nat
<1>1. Len(q) \in Nat
  OBVIOUS
<1> QED BY <1>1, BoundedSubset DEF SymmetricIn

LEMMA TypeStep ==
    ASSUME TypeOK, PlaceInv, BufferInv, CreationInv, [Next]_vars,
           running' \in 0 .. WorkerCount, jobsDone' \in 0 .. JobCount
    PROVE  TypeOK'
<1>0. /\ session' = session /\ Capacity' = Capacity /\ Capacity \in Nat
      /\ session' \in Sessions
  BY SessionStays, SessionTyped DEF TypeOK
<1>7. /\ buffer \in [0 .. 1 -> Seq(Announcement)] /\ front \in 0 .. 1
      /\ count \in 0 .. Capacity /\ taken \in 0 .. Capacity /\ shown \in Nat
  BY DEF TypeOK
<1>8. stop \in BOOLEAN /\ interrupted \in BOOLEAN /\ internalError \in BOOLEAN
      /\ fileFailed \in BOOLEAN
  BY DEF TypeOK
<1>9. /\ pc \in [Workers -> WorkerSteps] /\ job \in [Workers -> Jobs]
      /\ prefix \in [Workers -> Prefixes] /\ nextJob \in Nat
      /\ jobOrder \in [Jobs -> Jobs] /\ total \in [Kinds -> Nat]
      /\ numbering \subseteq Announcement /\ mainPc \in MainSteps
      /\ drainFor \in {"watch", "report", "cleanup"}
  BY DEF TypeOK
<1>1. ASSUME NEW w \in Workers, WorkerStep(w) \/ CheckFails(w)
      PROVE  TypeOK'
  <2>1. CASE CheckStop(w)
    BY <2>1, <1>0
    DEF TypeOK, WorkerSteps, MainSteps, CheckStop, Goto, atomics, flags, queueVars,
        workerVars, watchVars, outputVars, reportVars, history
  <2>2. CASE ClaimJob(w)
    <3>1. pc' \in [Workers -> WorkerSteps]
      BY <2>2, <1>9 DEF WorkerSteps, ClaimJob, Goto
    <3>2. nextJob < JobCount => jobOrder[nextJob] \in Jobs
      BY SMTT(30), <1>9, CountsTyped DEF Jobs
    <3>3. nextJob < JobCount => jobOrder[nextJob] \in Prefixes
      BY <3>2, CountsTyped
    <3>4. job' \in [Workers -> Jobs] /\ prefix' \in [Workers -> Prefixes]
      BY <2>2, <1>9, <3>2, <3>3, CountsTyped DEF ClaimJob, workerVars
    <3>5. nextJob' \in Nat
      BY <2>2, <1>9 DEF ClaimJob
    <3>6. stop' \in BOOLEAN
      BY <2>2, <1>8, Zenon DEF ClaimJob
    <3> QED BY SMTT(30), <2>2, <3>1, <3>4, <3>5, <3>6, <1>0 DEF TypeOK, ClaimJob, queueVars,
        watchVars, outputVars, reportVars, history
  <2>3. CASE EnterPrefix(w)
    BY SMTT(30), <2>3, <1>0
    DEF TypeOK, WorkerSteps, MainSteps, EnterPrefix, Goto, atomics, flags, queueVars,
        workerVars, watchVars, outputVars, reportVars, history
  <2>4. CASE LeavePrefix(w)
    <3>1. pc' \in [Workers -> WorkerSteps]
      BY <2>4, <1>9 DEF WorkerSteps, LeavePrefix, Goto
    <3>2. prefix[w] \in Prefixes /\ ~LastOfStride(prefix[w]) =>
              NextInStride(prefix[w]) \in Prefixes
      BY CountsTyped DEF Prefixes, LastOfStride, NextInStride
    <3>3. prefix' \in [Workers -> Prefixes]
      BY <2>4, <1>9, <3>2 DEF LeavePrefix
    <3> QED BY SMTT(30), <2>4, <3>1, <3>3, <1>0 DEF TypeOK, LeavePrefix, atomics, flags, queueVars,
        watchVars, outputVars, reportVars, history
  <2>5. CASE CountJob(w)
    BY SMTT(30), <2>5, <1>0
    DEF TypeOK, WorkerSteps, MainSteps, CountJob, Goto, atomics, flags, queueVars,
        workerVars, watchVars, outputVars, reportVars, history
  <2>6. CASE Retire(w)
    BY SMTT(30), <2>6, <1>0
    DEF TypeOK, WorkerSteps, MainSteps, Retire, Goto, WakeMain, atomics, flags,
        queueVars, workerVars, watchVars, outputVars, reportVars, history
  <2>7. CASE VisitLeaf(w)
    BY SMTT(30), <2>7, <1>0
    DEF TypeOK, WorkerSteps, MainSteps, VisitLeaf, Goto, atomics, flags, queueVars,
        workerVars, watchVars, outputVars, reportVars, history
  <2>8. CASE PollStop(w)
    BY SMTT(30), <2>8, <1>0
    DEF TypeOK, WorkerSteps, MainSteps, PollStop, Goto, atomics, flags, queueVars,
        workerVars, watchVars, outputVars, reportVars, history
  <2>9. CASE FinishPrefix(w)
    BY SMTT(30), <2>9, <1>0
    DEF TypeOK, WorkerSteps, MainSteps, FinishPrefix, Goto, atomics, flags, queueVars,
        workerVars, watchVars, outputVars, reportVars, history
  <2>10. CASE ClaimLimit(w)
    BY SMTT(30), <2>10, <1>0
    DEF TypeOK, WorkerSteps, MainSteps, ClaimLimit, Goto, atomics, flags, queueVars,
        workerVars, watchVars, outputVars, reportVars, history
  <2>11. CASE ReachLimit(w)
    <3>1. pc' \in [Workers -> WorkerSteps] /\ mainPc' \in MainSteps
      BY <2>11, <1>9 DEF WorkerSteps, MainSteps, ReachLimit, Goto
    <3>2. stop' \in BOOLEAN
      BY <2>11, <1>8, Zenon DEF ReachLimit, NoticeInterrupt
    <3> QED BY SMTT(30), <2>11, <3>1, <3>2, <1>0 DEF TypeOK, ReachLimit, atomics, queueVars, workerVars,
        watchVars, outputVars, reportVars, history
  <2>12. CASE LoadTotal(w)
    BY SMTT(30), <2>12, <1>0
    DEF TypeOK, WorkerSteps, MainSteps, LoadTotal, Goto, atomics, flags, queueVars,
        workerVars, watchVars, outputVars, reportVars, history
  <2>13. CASE CountOnly(w)
    <3>1. pc' \in [Workers -> WorkerSteps]
      BY <2>13, <1>9 DEF WorkerSteps, CountOnly, Goto
    <3>2. /\ Numbering(Found(w)) \in Announcement /\ Kind(Found(w)) \in Kinds
          /\ total[Kind(Found(w))] + 1 \in Nat
      BY <2>13, NumberingTyped, FoundTyped DEF Finding, Unnumbered, Admitted, CountOnly
    <3>3. total' \in [Kinds -> Nat] /\ numbering' \subseteq Announcement
      BY <2>13, <1>9, <3>2 DEF CountOnly, TakeNumber
    <3> QED BY SMTT(30), <2>13, <3>1, <3>3, <1>0 DEF TypeOK, CountOnly, flags, queueVars, workerVars,
        watchVars, outputVars, reportVars
  <2>14. CASE Enqueue(w)
    <3>1. pc' \in [Workers -> WorkerSteps]
      BY <2>14, <1>9 DEF WorkerSteps, Enqueue, Goto
    <3>2. /\ Numbering(Found(w)) \in Announcement /\ Kind(Found(w)) \in Kinds
          /\ total[Kind(Found(w))] + 1 \in Nat
      BY <2>14, NumberingTyped, FoundTyped DEF Finding, Unnumbered, Admitted, Enqueue
    <3>3. total' \in [Kinds -> Nat] /\ numbering' \subseteq Announcement
      BY <2>14, <1>9, <3>2 DEF Enqueue, TakeNumber
    <3>4. buffer' \in [0 .. 1 -> Seq(Announcement)] /\ count' \in 0 .. Capacity
      <4>1. CASE Suppressed(Found(w))
        BY <2>14, <4>1, <1>7 DEF Enqueue
      <4>2. CASE ~Suppressed(Found(w))
        <5>1. Put(buffer[front], count + 1, Numbering(Found(w))) \in Seq(Announcement)
          BY <3>2, BufferTyped, PutInPlace
        <5>2. PICK q : q = Put(buffer[front], count + 1, Numbering(Found(w)))
          OBVIOUS
        <5>3. count < Capacity /\ count' = count + 1 /\ buffer' = [buffer EXCEPT ![front] = q]
          BY <2>14, <4>2, <5>2 DEF Enqueue
        <5>4. buffer' \in [0 .. 1 -> Seq(Announcement)]
          BY <5>1, <5>2, <5>3, <1>7
        <5>5. count' \in 0 .. Capacity
          BY <5>3, <1>7, <1>0
        <5> QED BY <5>4, <5>5
      <4> QED BY <4>1, <4>2
    <3> QED BY SMTT(30), <2>14, <3>1, <3>3, <3>4, <1>0 DEF TypeOK, Enqueue, flags, workerVars,
        watchVars, outputVars, reportVars
  <2>15. CASE AwaitRoom(w)
    BY <2>15, <1>0
    DEF TypeOK, WorkerSteps, MainSteps, AwaitRoom, Goto, atomics, flags, queueVars,
        workerVars, watchVars, outputVars, reportVars, history
  <2>16. CASE SignalFlush(w)
    BY <2>16, <1>0
    DEF TypeOK, WorkerSteps, MainSteps, SignalFlush, Goto, WakeMain, atomics, flags,
        queueVars, workerVars, watchVars, outputVars, reportVars, history
  <2>17. CASE CheckFails(w)
    BY <2>17, <1>0
    DEF TypeOK, WorkerSteps, MainSteps, CheckFails, atomics, flags, queueVars,
        workerVars, watchVars, outputVars, reportVars, history
  <2> QED BY <1>1, <2>1, <2>2, <2>3, <2>4, <2>5, <2>6, <2>7, <2>8, <2>9, <2>10, <2>11,
      <2>12, <2>13, <2>14, <2>15, <2>16, <2>17 DEF WorkerStep
<1>2. CASE MainThread
  <2>1. CASE CreateWorker
    BY <2>1, <1>0
    DEF TypeOK, WorkerSteps, MainSteps, CreateWorker, Activate, atomics, flags,
        queueVars, workerVars, watchVars, outputVars, reportVars, history
  <2>2. CASE WorkerCreated
    <3>1. pc' \in [Workers -> WorkerSteps]
      BY <2>2, <1>9 DEF WorkerSteps, WorkerCreated, Goto
    <3>2. created' \in 0 .. WorkerCount /\ mainPc' \in MainSteps
      BY <2>2, CountsTyped DEF TypeOK, WorkerCreated, CreationInv, Creating, MainSteps
    <3> QED BY <2>2, <3>1, <3>2, <1>0 DEF TypeOK, WorkerCreated, atomics, flags, queueVars,
        workerVars, outputVars, reportVars, history
  <2>3. CASE CreateFails
    BY <2>3, <1>0
    DEF TypeOK, WorkerSteps, MainSteps, CreateFails, atomics, flags, queueVars,
        workerVars, watchVars, outputVars, reportVars, history
  <2>4. CASE LockCompletion
    BY <2>4, <1>0
    DEF TypeOK, WorkerSteps, MainSteps, LockCompletion, atomics, flags, queueVars,
        workerVars, watchVars, outputVars, reportVars, history
  <2>5. CASE TestBatch
    <3>1. mainPc' \in MainSteps /\ owner' \in BOOLEAN
      BY <2>5, <1>9 DEF TestBatch, MainSteps, TypeOK
    <3> QED BY <2>5, <3>1, <1>0 DEF TypeOK, TestBatch, atomics, flags, queueVars,
        workerVars, watchVars, outputVars, reportVars, history
  <2>6. CASE StartWait
    <3>1. mainPc' \in MainSteps /\ owner' \in BOOLEAN
      BY <2>6 DEF StartWait, MainSteps
    <3> QED BY SMTT(30), <2>6, <3>1, <1>0 DEF TypeOK, StartWait, atomics, flags, queueVars,
        workerVars, watchVars, outputVars, reportVars, history
  <2>7. CASE WaitExpires
    BY <2>7, <1>0
    DEF TypeOK, WorkerSteps, MainSteps, WaitExpires, atomics, flags, queueVars,
        workerVars, watchVars, outputVars, reportVars, history
  <2>8. CASE WakeUp
    BY <2>8, <1>0
    DEF TypeOK, WorkerSteps, MainSteps, WakeUp, atomics, flags, queueVars, workerVars,
        watchVars, outputVars, reportVars, history
  <2>9. CASE PollInterrupt
    <3>1. pc' \in [Workers -> WorkerSteps] /\ mainPc' \in MainSteps
      BY <2>9, <1>9 DEF WorkerSteps, MainSteps, PollInterrupt, Goto
    <3>2. stop' \in BOOLEAN
      BY <2>9, <1>8, Zenon DEF PollInterrupt, NoticeInterrupt
    <3> QED BY <2>9, <3>1, <3>2, <1>0 DEF TypeOK, PollInterrupt, atomics, queueVars, workerVars,
        watchVars, outputVars, reportVars, history
  <2>10. CASE SwapBuffers
    <3>1. pc' \in [Workers -> WorkerSteps]
      BY <2>10, <1>9 DEF WorkerSteps, SwapBuffers, WakeWaiters
    <3>2. front' \in 0 .. 1 /\ count' \in 0 .. Capacity /\ taken' \in 0 .. Capacity
      BY <2>10, <1>7, <1>0 DEF SwapBuffers, OtherBuffer
    <3>3. mainPc' \in MainSteps
      BY <2>10, <1>9, AfterDrainCases DEF SwapBuffers, MainSteps
    <3> QED BY <2>10, <3>1, <3>2, <3>3, <1>0 DEF TypeOK, SwapBuffers, atomics, flags,
        workerVars, outputVars, reportVars, history
  <2>11. CASE AppendBatch
    <3>1. /\ Batch \in Seq(Announcement) /\ Len(Batch) = taken /\ taken \in Nat
          /\ file \in Seq(Announcement) /\ mirrored \in Nat
      BY BufferTyped DEF TypeOK
    <3>2. mirrored' \in Nat
      BY <2>11, <3>1, SymmetricTyped DEF AppendBatch
    <3>3. \A n \in 0 .. taken : SubSeq(Batch, 1, n) \in Seq(Announcement)
      <4> TAKE n \in 0 .. taken
      <4>1. 0 \in Nat /\ 0 + 1 = 1 /\ n \in Nat /\ n <= Len(Batch)
        BY <3>1
      <4>2. SubSeq(Batch, 0 + 1, n) \in Seq(Announcement)
        BY <3>1, <4>1, PartTyped
      <4> QED BY <4>1, <4>2
    <3>4. file' \in Seq(Announcement)
      BY <2>11, <3>1, <3>3, ConcatProperties DEF AppendBatch
    <3>5. fileFailed' \in BOOLEAN /\ internalError' \in BOOLEAN /\ stop' \in BOOLEAN
      BY <2>11, <1>8 DEF AppendBatch
    <3>6. mainPc' \in MainSteps
      BY <2>11 DEF AppendBatch, MainSteps
    <3> QED BY <2>11, <3>2, <3>4, <3>5, <3>6, <1>0 DEF TypeOK, AppendBatch, atomics,
        queueVars, workerVars, watchVars, reportVars, history
  <2>12. CASE PrintNext
    <3>1. Batch[shown + 1] \in Announcement
      <4>1. /\ Batch \in Seq(Announcement) /\ Len(Batch) = taken /\ taken \in Nat
            /\ shown \in Nat /\ shown < taken
        BY <2>12, BufferTyped DEF BufferInv, PrintNext
      <4>2. shown + 1 \in 1 .. Len(Batch)
        BY <4>1
      <4> QED BY <4>1, <4>2, ElementOfSeq
    <3>2. printed' \in Seq(Announcement)
      BY <2>12, <3>1 DEF PrintNext, TypeOK
    <3>3. shown' \in Nat /\ taken' \in 0 .. Capacity
      BY <2>12, <1>7, <1>0 DEF PrintNext
    <3>4. mainPc' \in MainSteps
      BY <2>12, <1>9, AfterDrainCases DEF PrintNext, MainSteps
    <3> QED BY SMTT(30), <2>12, <3>2, <3>3, <3>4, <1>0 DEF TypeOK, PrintNext, atomics, flags,
        queueVars, workerVars, reportVars, history
  <2>13. CASE JoinWorkers
    BY <2>13, <1>0
    DEF TypeOK, WorkerSteps, MainSteps, JoinWorkers, atomics, flags, queueVars,
        workerVars, watchVars, outputVars, reportVars, history
  <2>14. CASE Assess
    BY <2>14, <1>0
    DEF TypeOK, WorkerSteps, MainSteps, Assess, atomics, flags, queueVars, workerVars,
        watchVars, outputVars, reportVars, history
  <2>15. CASE Report
    BY SMTT(30), <2>15, <1>0, ReportStep
    DEF TypeOK, WorkerSteps, MainSteps, atomics, flags, queueVars, workerVars,
        watchVars, outputVars, reportVars, history
  <2>16. CASE Exit
    BY SMTT(30), <2>16, <1>0, ExitStep
    DEF TypeOK, WorkerSteps, MainSteps, atomics, flags, queueVars, workerVars,
        watchVars, outputVars, reportVars, history
  <2> QED BY <1>2, <2>1, <2>2, <2>3, <2>4, <2>5, <2>6, <2>7, <2>8, <2>9, <2>10, <2>11,
      <2>12, <2>13, <2>14, <2>15, <2>16 DEF MainThread
<1>3. CASE Interrupt
  BY <1>3, <1>0 DEF TypeOK, Interrupt, atomics, flags, queueVars, workerVars, watchVars,
      outputVars, history

<1>4. CASE UNCHANGED vars
  BY <1>4, <1>0
  DEF TypeOK, WorkerSteps, MainSteps, vars, atomics, flags, queueVars, workerVars,
      watchVars, outputVars, reportVars, history
<1> QED BY <1>1, <1>2, <1>3, <1>4 DEF Next

-----------------------------------------------------------------------------
(* Places. *)

(* The buffers change in four steps.                                       *)
LEMMA BufferFrame ==
    ASSUME TypeOK, [Next]_vars
    PROVE  \/ \E u \in Workers : Enqueue(u)
           \/ SwapBuffers \/ AppendBatch \/ PrintNext
           \/ /\ UNCHANGED <<buffer, front, count, taken, shown, file, printed, fileFailed,
                             mirrored>>
              /\ mainPc' = "append" <=> mainPc = "append"
              /\ mainPc' = "print" <=> mainPc = "print"
<1>1. ASSUME NEW w \in Workers, WorkerStep(w) \/ CheckFails(w)
      PROVE  \/ \E u \in Workers : Enqueue(u)
             \/ SwapBuffers \/ AppendBatch \/ PrintNext
             \/ /\ UNCHANGED <<buffer, front, count, taken, shown, file, printed, fileFailed,
                               mirrored>>
                /\ mainPc' = "append" <=> mainPc = "append"
                /\ mainPc' = "print" <=> mainPc = "print"
  <2>1. CASE CheckStop(w) \/ ClaimJob(w) \/ EnterPrefix(w) \/ LeavePrefix(w)
    BY <2>1
    DEF queueVars, CheckStop, Goto, ClaimJob, EnterPrefix, LeavePrefix, watchVars,
        outputVars
  <2>2. CASE CountJob(w) \/ Retire(w) \/ VisitLeaf(w) \/ PollStop(w)
    BY <2>2
    DEF queueVars, CountJob, Goto, Retire, WakeMain, VisitLeaf, PollStop, watchVars,
        outputVars
  <2>3. CASE FinishPrefix(w) \/ ClaimLimit(w) \/ ReachLimit(w) \/ LoadTotal(w)
    BY <2>3
    DEF queueVars, FinishPrefix, Goto, ClaimLimit, ReachLimit, LoadTotal, watchVars,
        outputVars
  <2>4. CASE CountOnly(w)
    BY <2>4
    DEF queueVars, CountOnly, Goto, TakeNumber, watchVars, outputVars
  <2>5. CASE Enqueue(w)
    BY <2>5
  <2>6. CASE AwaitRoom(w) \/ SignalFlush(w) \/ CheckFails(w)
    BY <2>6
    DEF queueVars, AwaitRoom, Goto, SignalFlush, WakeMain, CheckFails, watchVars,
        outputVars
  <2> QED BY <1>1, <2>1, <2>2, <2>3, <2>4, <2>5, <2>6 DEF WorkerStep
<1>2. CASE MainThread
  <2>1. CASE CreateWorker \/ WorkerCreated \/ CreateFails \/ LockCompletion
    BY <2>1
    DEF queueVars, CreateWorker, Activate, WorkerCreated, Goto, CreateFails,
        LockCompletion, watchVars, outputVars
  <2>2. CASE TestBatch \/ StartWait \/ WaitExpires \/ WakeUp
    BY <2>2
    DEF queueVars, TestBatch, StartWait, WaitExpires, WakeUp, watchVars, outputVars
  <2>3. CASE PollInterrupt
    BY <2>3
    DEF queueVars, PollInterrupt, NoticeInterrupt, watchVars, outputVars
  <2>4. CASE SwapBuffers
    BY <2>4
  <2>5. CASE AppendBatch
    BY <2>5
  <2>6. CASE PrintNext
    BY <2>6
  <2>7. CASE JoinWorkers \/ Assess \/ Report \/ Exit
    BY <2>7, ReportStep, ExitStep
    DEF queueVars, JoinWorkers, Assess, watchVars, outputVars
  <2> QED BY <1>2, <2>1, <2>2, <2>3, <2>4, <2>5, <2>6, <2>7 DEF MainThread
<1>3. CASE Interrupt \/ UNCHANGED vars
  BY <1>3
  DEF queueVars, Interrupt, vars, watchVars, outputVars
<1> QED BY <1>1, <1>2, <1>3 DEF Next

(* What need only be counted need only be counted ever after.              *)
LEMMA SuppressedStays ==
    ASSUME TypeOK, TypeOK', [Next]_vars, NEW e, Suppressed(e)
    PROVE  Suppressed(e)'
<1>1. Kind(e) \in Kinds
  BY DEF Kind, Kinds
<1>2. total'[Kind(e)] >= total[Kind(e)]
  BY <1>1, TotalsGrow
<1>3. total[Kind(e)] \in Nat /\ total'[Kind(e)] \in Nat
  BY <1>1 DEF TypeOK
<1>4. PrintLimit \in Nat /\ PrintLimit' = PrintLimit /\ ToFile' = ToFile
  BY SessionStays, SessionTyped DEF TypeOK
<1>5. total[Kind(e)] >= PrintLimit /\ ~ToFile
      /\ (FullMirror \/ Kind(e) = "ALL_SUBSET_PLACE_FAIR")
  BY DEF Suppressed
<1>6. total'[Kind(e)] >= PrintLimit
  BY <1>2, <1>3, <1>4, <1>5
<1> QED BY <1>4, <1>5, <1>6 DEF Suppressed

(* Who stays where it is keeps its place.                                  *)
LEMMA PlaceStays ==
    ASSUME TypeOK, TypeOK', PlaceInv, [Next]_vars, NEW v \in Workers, Same(v)
    PROVE  Place(v)'
<1>0. Leaves' = Leaves /\ Capacity' = Capacity /\ Limit' = Limit /\ Found(v)' = Found(v)
  BY SessionStays DEF Same, Found
<1>1. pc[v] = "waiting" => count' = count
  <2>1. SUFFICES ASSUME pc[v] = "waiting" PROVE count' = count
    OBVIOUS
  <2>2. count = Capacity
    BY <2>1 DEF PlaceInv, Place
  <2>3. count \in Nat /\ Capacity \in Nat /\ pc \in [Workers -> WorkerSteps]
    BY SessionTyped DEF TypeOK
  <2>4. ~\E w \in Workers : Enqueue(w)
    BY <2>2, <2>3 DEF Enqueue
  <2>5. SwapBuffers => count' = count
    BY <2>1, <2>3 DEF SwapBuffers, WakeWaiters, Same
  <2>6. AppendBatch \/ PrintNext => count' = count
    BY DEF AppendBatch, PrintNext, queueVars
  <2> QED BY <2>4, <2>5, <2>6, BufferFrame
<1>2. pc[v] = "countOnly" => Suppressed(Found(v))'
  <2>1. PICK e : e = Found(v)
    OBVIOUS
  <2>2. Suppressed(e) => Suppressed(e)'
    BY SuppressedStays
  <2>3. Suppressed(Found(v))' <=> Suppressed(e)'
    BY <1>0, <2>1 DEF Suppressed
  <2> QED BY <2>1, <2>2, <2>3 DEF PlaceInv, Place
<1>3. limitClaims' >= limitClaims
  BY Monotone
<1>4. limitClaims \in Nat /\ limitClaims' \in Nat /\ claim[v] \in Nat /\ Limit \in Nat
  BY SessionTyped DEF TypeOK
<1>5. Place(v)
  BY DEF PlaceInv
<1> QED BY <1>0, <1>1, <1>2, <1>3, <1>4, <1>5 DEF Place, Same


LEMMA PlaceOfMover ==
    ASSUME TypeOK, TypeOK', PlaceInv, [Next]_vars,
           NEW w \in Workers, WorkerStep(w) \/ CheckFails(w)
    PROVE  Place(w)'
<1>0. /\ pc \in [Workers -> WorkerSteps] /\ leaf \in [Workers -> Nat]
      /\ prefix \in [Workers -> Prefixes] /\ claim \in [Workers -> Nat]
      /\ Leaves' = Leaves /\ Limit' = Limit /\ Capacity' = Capacity
      /\ limitClaims \in Nat /\ Limit \in Nat /\ Len(Leaves[prefix[w]]) \in Nat
      /\ Place(w)
  BY SessionTyped, SessionStays DEF TypeOK, PlaceInv
<1>1. CASE CheckStop(w)
  BY <1>1, <1>0
  DEF Place, Searching, Finding, Unnumbered, Admitted, WorkerSteps, CheckStop, Goto,
      atomics, workerVars, queueVars, flags
<1>2. CASE ClaimJob(w)
  BY <1>2, <1>0
  DEF Place, Searching, Finding, Unnumbered, Admitted, WorkerSteps, ClaimJob, Goto,
      atomics, workerVars, queueVars, flags
<1>3. CASE EnterPrefix(w)
  BY <1>3, <1>0
  DEF Place, Searching, Finding, Unnumbered, Admitted, WorkerSteps, EnterPrefix, Goto,
      atomics, workerVars, queueVars, flags
<1>4. CASE LeavePrefix(w)
  BY <1>4, <1>0
  DEF Place, Searching, Finding, Unnumbered, Admitted, WorkerSteps, LeavePrefix, Goto,
      atomics, workerVars, queueVars, flags
<1>5. CASE CountJob(w)
  BY <1>5, <1>0
  DEF Place, Searching, Finding, Unnumbered, Admitted, WorkerSteps, CountJob, Goto,
      atomics, workerVars, queueVars, flags
<1>6. CASE Retire(w)
  BY <1>6, <1>0
  DEF Place, Searching, Finding, Unnumbered, Admitted, WorkerSteps, Retire, Goto,
      WakeMain, atomics, workerVars, queueVars, flags
<1>7. CASE VisitLeaf(w)
  BY <1>7, <1>0
  DEF Place, Searching, Finding, Unnumbered, Admitted, WorkerSteps, VisitLeaf, Goto,
      atomics, workerVars, queueVars, flags
<1>8. CASE PollStop(w)
  BY <1>8, <1>0
  DEF Place, Searching, Finding, Unnumbered, Admitted, WorkerSteps, PollStop, Goto,
      atomics, workerVars, queueVars, flags
<1>9. CASE FinishPrefix(w)
  BY <1>9, <1>0
  DEF Place, Searching, Finding, Unnumbered, Admitted, WorkerSteps, FinishPrefix, Goto,
      atomics, workerVars, queueVars, flags
<1>10. CASE ClaimLimit(w)
  BY <1>10, <1>0
  DEF Place, Searching, Finding, Unnumbered, Admitted, WorkerSteps, ClaimLimit, Goto,
      Exceeds, atomics, workerVars, queueVars, flags
<1>11. CASE ReachLimit(w)
  BY <1>11, <1>0
  DEF Place, Searching, Finding, Unnumbered, Admitted, WorkerSteps, ReachLimit, Goto,
      atomics, workerVars, queueVars, flags
<1>12. CASE LoadTotal(w)
  <2>1. PICK e : e = Found(w)
    OBVIOUS
  <2>2. Found(w)' = e
    BY <1>12, <1>0, <2>1 DEF LoadTotal, Found, workerVars
  <2>3. Suppressed(e) => Suppressed(e)'
    BY SuppressedStays
  <2>4. pc'[w] = IF Suppressed(e) THEN "countOnly" ELSE "enqueue"
    BY <1>12, <1>0, <2>1 DEF LoadTotal, Goto
  <2>5. pc'[w] = "countOnly" => Suppressed(Found(w))'
    BY <2>2, <2>3, <2>4 DEF Suppressed
  <2> QED BY <1>12, <1>0, <2>4, <2>5 DEF LoadTotal, Place, Searching, Finding, Unnumbered,
      Admitted, atomics, workerVars
<1>13. CASE CountOnly(w)
  BY <1>13, <1>0
  DEF Place, Searching, Finding, Unnumbered, Admitted, WorkerSteps, CountOnly, Goto,
      TakeNumber, atomics, workerVars, queueVars, flags
<1>14. CASE Enqueue(w)
  BY <1>14, <1>0
  DEF Place, Searching, Finding, Unnumbered, Admitted, WorkerSteps, Enqueue, Goto,
      TakeNumber, atomics, workerVars, queueVars, flags
<1>15. CASE AwaitRoom(w)
  BY <1>15, <1>0
  DEF Place, Searching, Finding, Unnumbered, Admitted, WorkerSteps, AwaitRoom, Goto,
      atomics, workerVars, queueVars, flags
<1>16. CASE SignalFlush(w)
  BY <1>16, <1>0
  DEF Place, Searching, Finding, Unnumbered, Admitted, WorkerSteps, SignalFlush, Goto,
      WakeMain, atomics, workerVars, queueVars, flags
<1>17. CASE CheckFails(w)
  BY <1>17, PlaceStays DEF CheckFails, Same, workerVars
<1> QED BY <1>1, <1>2, <1>3, <1>4, <1>5, <1>6, <1>7, <1>8, <1>9, <1>10, <1>11, <1>12,
    <1>13, <1>14, <1>15, <1>16, <1>17 DEF WorkerStep

LEMMA PlaceStep ==
    ASSUME TypeOK, TypeOK', CreationInv, PlaceInv, [Next]_vars
    PROVE  PlaceInv'
<1>1. ASSUME NEW w \in Workers, WorkerStep(w) \/ CheckFails(w)
      PROVE  PlaceInv'
  <2>1. Place(w)'
    BY <1>1, PlaceOfMover
  <2>2. \A v \in Workers \ {w} : Place(v)'
    <3> TAKE v \in Workers \ {w}
    <3>1. Same(v)
      BY <1>1, OthersStay
    <3> QED BY <3>1, PlaceStays
  <2>3. \A v \in Workers : Place(v)'
    BY <2>1, <2>2
  <2> QED BY <2>3 DEF PlaceInv
<1>2. ASSUME MainThread \/ Interrupt \/ UNCHANGED vars
      PROVE  PlaceInv'
  <2> SUFFICES ASSUME NEW v \in Workers PROVE Place(v)'
    BY DEF PlaceInv
  <2>1. UNCHANGED workerVars /\ UNCHANGED limitClaims
    BY <1>2, MainKeeps DEF atomics
  <2>2. Leaves' = Leaves /\ Limit' = Limit /\ Place(v)
    BY SessionStays DEF PlaceInv
  <2>3. CASE pc'[v] = pc[v]
    BY <2>1, <2>3, PlaceStays DEF Same, workerVars
  <2>4. CASE pc[v] = "waiting" /\ pc'[v] = "enqueue"
    BY <2>1, <2>2, <2>4 DEF Place, Searching, Finding, Unnumbered, Admitted, workerVars
  <2>5. CASE pc'[v] = "checkStop"
    BY <2>5 DEF Place, Searching, Finding, Unnumbered, Admitted
  <2> QED BY <1>2, <2>3, <2>4, <2>5, MainKeeps
<1> QED BY <1>1, <1>2 DEF Next

-----------------------------------------------------------------------------
(* The main thread's watch. *)

LEMMA NobodyLeft ==
    ASSUME TypeOK, RunningInv, running = 0
    PROVE  ActiveWorkers = {}
<1>1. IsFiniteSet(ActiveWorkers) /\ Cardinality(ActiveWorkers) \in Nat
  BY WorkersFinite, FS_Subset, FS_CardinalityType DEF ActiveWorkers
<1>2. running = Cardinality(ActiveWorkers) + (IF mainPc = "created" THEN 1 ELSE 0)
  BY DEF RunningInv
<1>3. Cardinality(ActiveWorkers) = 0
  BY <1>1, <1>2
<1> QED BY <1>1, <1>3, FS_EmptySet

(* A worker that takes a step has neither gone nor still to come.          *)
LEMMA MoverActive ==
    ASSUME TypeOK, NEW w \in Workers, WorkerStep(w) \/ (CheckFails(w) /\ pc[w] = "search")
    PROVE  w \in ActiveWorkers
  BY DEF ActiveWorkers, Active, WorkerStep, CheckFails, CheckStop, ClaimJob,
      EnterPrefix, LeavePrefix, CountJob, Retire, VisitLeaf, PollStop, FinishPrefix,
      ClaimLimit, ReachLimit, LoadTotal, CountOnly, Enqueue, AwaitRoom, SignalFlush

(* Only a worker that puts an entry fills the buffer.                      *)
LEMMA CountOfMover ==
    ASSUME TypeOK, NEW w \in Workers, WorkerStep(w) \/ CheckFails(w)
    PROVE  count' = count \/ (Enqueue(w) /\ count' = count + 1)
<1>1. CASE CheckStop(w) \/ ClaimJob(w) \/ EnterPrefix(w) \/ LeavePrefix(w)
  BY <1>1
  DEF queueVars, CheckStop, Goto, ClaimJob, EnterPrefix, LeavePrefix
<1>2. CASE CountJob(w) \/ Retire(w) \/ VisitLeaf(w) \/ PollStop(w)
  BY <1>2
  DEF queueVars, CountJob, Goto, Retire, WakeMain, VisitLeaf, PollStop
<1>3. CASE FinishPrefix(w) \/ ClaimLimit(w) \/ ReachLimit(w) \/ LoadTotal(w)
  BY <1>3
  DEF queueVars, FinishPrefix, Goto, ClaimLimit, ReachLimit, LoadTotal
<1>4. CASE CountOnly(w) \/ Enqueue(w) \/ AwaitRoom(w) \/ SignalFlush(w)
  BY <1>4
  DEF queueVars, CountOnly, Goto, TakeNumber, Enqueue, AwaitRoom, SignalFlush, WakeMain
<1>5. CASE CheckFails(w)
  BY <1>5
  DEF queueVars, CheckFails
<1> QED BY <1>1, <1>2, <1>3, <1>4, <1>5 DEF WorkerStep

LEMMA RunningOfMover ==
    ASSUME TypeOK, NEW w \in Workers, WorkerStep(w) \/ CheckFails(w)
    PROVE  running' = running \/ Retire(w)
<1>1. CASE CheckStop(w) \/ ClaimJob(w) \/ EnterPrefix(w) \/ LeavePrefix(w)
  BY <1>1
  DEF queueVars, CheckStop, Goto, ClaimJob, EnterPrefix, LeavePrefix
<1>2. CASE CountJob(w) \/ Retire(w) \/ VisitLeaf(w) \/ PollStop(w)
  BY <1>2
  DEF queueVars, CountJob, Goto, Retire, WakeMain, VisitLeaf, PollStop
<1>3. CASE FinishPrefix(w) \/ ClaimLimit(w) \/ ReachLimit(w) \/ LoadTotal(w)
  BY <1>3
  DEF queueVars, FinishPrefix, Goto, ClaimLimit, ReachLimit, LoadTotal
<1>4. CASE CountOnly(w) \/ Enqueue(w) \/ AwaitRoom(w) \/ SignalFlush(w)
  BY <1>4
  DEF queueVars, CountOnly, Goto, TakeNumber, Enqueue, AwaitRoom, SignalFlush, WakeMain
<1>5. CASE CheckFails(w)
  BY <1>5
  DEF queueVars, CheckFails
<1> QED BY <1>1, <1>2, <1>3, <1>4, <1>5 DEF WorkerStep

LEMMA FlushOfMover ==
    ASSUME TypeOK, NEW w \in Workers, WorkerStep(w) \/ CheckFails(w), pc[w] = "flush"
    PROVE  pc'[w] = "flush" \/ SignalFlush(w)
<1>1. CASE CheckStop(w) \/ ClaimJob(w) \/ EnterPrefix(w) \/ LeavePrefix(w)
  BY <1>1
  DEF queueVars, CheckStop, Goto, ClaimJob, EnterPrefix, LeavePrefix
<1>2. CASE CountJob(w) \/ Retire(w) \/ VisitLeaf(w) \/ PollStop(w)
  BY <1>2
  DEF queueVars, CountJob, Goto, Retire, WakeMain, VisitLeaf, PollStop
<1>3. CASE FinishPrefix(w) \/ ClaimLimit(w) \/ ReachLimit(w) \/ LoadTotal(w)
  BY <1>3
  DEF queueVars, FinishPrefix, Goto, ClaimLimit, ReachLimit, LoadTotal
<1>4. CASE CountOnly(w) \/ Enqueue(w) \/ AwaitRoom(w) \/ SignalFlush(w)
  BY <1>4
  DEF queueVars, CountOnly, Goto, TakeNumber, Enqueue, AwaitRoom, SignalFlush, WakeMain
<1>5. CASE CheckFails(w)
  BY <1>5
  DEF queueVars, CheckFails
<1> QED BY <1>1, <1>2, <1>3, <1>4, <1>5 DEF WorkerStep

(* Whoever makes a batch ready while main sleeps is there to wake it.      *)
LEMMA FlushKept ==
    ASSUME TypeOK, TypeOK', WatchInv, NEW w \in Workers, WorkerStep(w) \/ CheckFails(w),
           [Next]_vars, mainPc' \in {"wait", "sleep"}
    PROVE  /\ mainPc' = mainPc /\ running' # 0
           /\ count' >= Threshold' => \E v \in Workers : pc'[v] = "flush"
<1>0. /\ Threshold' = Threshold /\ Threshold \in Nat /\ count \in Nat
      /\ pc \in [Workers -> WorkerSteps]
  BY SessionStays, SessionTyped DEF TypeOK
<1>1. mainPc' = mainPc
  BY OthersStay
<1>2. ~Retire(w) /\ ~SignalFlush(w)
  BY <1>1 DEF WatchInv, Retire, SignalFlush, WakeMain
<1>3. running' # 0
  BY <1>1, <1>2, RunningOfMover DEF WatchInv
<1>4. ASSUME NEW v \in Workers, pc[v] = "flush"
      PROVE  pc'[v] = "flush"
  BY <1>2, <1>4, FlushOfMover, OthersStay DEF Same
<1>5. CASE count >= Threshold
  <2>1. PICK v \in Workers : pc[v] = "flush"
    BY <1>1, <1>5 DEF WatchInv
  <2>2. pc'[v] = "flush"
    BY <1>4, <2>1
  <2> QED BY <1>1, <1>3, <2>2
<1>6. CASE count' = count
  BY <1>0, <1>1, <1>3, <1>5, <1>6
<1>7. CASE count < Threshold /\ Enqueue(w) /\ count' = count + 1
  <2>1. count' >= Threshold => FlushReady(count + 1)
    BY <1>0, <1>7 DEF FlushReady
  <2>2. ~Suppressed(Found(w))
    BY <1>0, <1>7 DEF Enqueue
  <2>3. FlushReady(count + 1) => pc'[w] = "flush"
    BY <1>0, <1>7, <2>2 DEF Enqueue, Goto
  <2> QED BY <1>0, <1>1, <1>3, <2>1, <2>3
<1> QED BY <1>0, <1>1, <1>3, <1>5, <1>6, <1>7, CountOfMover

LEMMA WatchOfMover ==
    ASSUME TypeOK, TypeOK', WatchInv, NEW w \in Workers, WorkerStep(w) \/ CheckFails(w),
           [Next]_vars
    PROVE  WatchInv'
<1>1. w \in ActiveWorkers
  BY MoverActive DEF CheckFails
<1>2. /\ owner' = owner /\ seen' = seen /\ drainFor' = drainFor
      /\ mainPc' = mainPc \/ (mainPc = "sleep" /\ mainPc' = "wake")
  BY OthersStay
<1>3. drainFor = "watch" /\ mainPc # "join" /\ mainPc \notin Judging
      /\ (mainPc \in {"poll"} \union Draining => seen # 0)
  BY <1>1 DEF WatchInv
<1>4. mainPc' \in {"test", "wait"} => seen' = running'
  BY <1>2, RunningOfMover DEF WatchInv, Retire
<1>5. mainPc' \in {"wait", "sleep"} =>
          /\ running' # 0
          /\ count' >= Threshold' => \E v \in Workers : pc'[v] = "flush"
  BY FlushKept
<1> QED BY <1>2, <1>3, <1>4, <1>5 DEF WatchInv, Judging, Draining

LEMMA WatchStep ==
    ASSUME TypeOK, TypeOK', CreationInv, RunningInv, WatchInv, [Next]_vars
    PROVE  WatchInv'
<1>0. /\ Threshold' = Threshold /\ pc \in [Workers -> WorkerSteps]
      /\ drainFor \in {"watch", "report", "cleanup"}
  BY SessionStays DEF TypeOK
<1>1. ASSUME NEW w \in Workers, WorkerStep(w) \/ CheckFails(w)
      PROVE  WatchInv'
  BY <1>1, WatchOfMover
<1>2. CASE MainThread
  <2>1. CASE CreateWorker
    <3>1. ActiveWorkers' = ActiveWorkers
      BY <2>1 DEF CreateWorker, ActiveWorkers, Active
    <3> QED BY <2>1, <3>1, <1>0 DEF WatchInv, CreateWorker, Activate, Draining, Judging,
        queueVars, flags, watchVars, Creating
  <2>2. CASE WorkerCreated
    <3>1. mainPc' \notin {"test", "wait", "sleep", "poll", "join"} \union Draining \union Judging
      BY <2>2 DEF WorkerCreated, Draining, Judging
    <3>2. drainFor = "watch" /\ ~owner
      BY <2>2 DEF WatchInv, WorkerCreated, Draining, Judging
    <3> QED BY <2>2, <3>1, <3>2 DEF WatchInv, WorkerCreated, Draining, Judging, queueVars
  <2>3. CASE CreateFails
    <3>1. created = 0 => ActiveWorkers = {}
      BY CountsTyped DEF CreationInv, ActiveWorkers, Active, Workers
    <3>2. ActiveWorkers' = ActiveWorkers
      BY <2>3 DEF CreateFails, ActiveWorkers, Active
    <3> QED BY <2>3, <3>1, <3>2, <1>0 DEF WatchInv, CreateFails, Draining, Judging, queueVars,
        flags, watchVars
  <2>4. CASE LockCompletion
    <3>1. ActiveWorkers' = ActiveWorkers
      BY <2>4 DEF LockCompletion, ActiveWorkers, Active
    <3> QED BY <2>4, <3>1, <1>0 DEF WatchInv, LockCompletion, Draining, Judging,
        queueVars, flags, watchVars, Creating
  <2>5. CASE TestBatch
    <3>1. seen = 0 => ActiveWorkers = {}
      BY <2>5, NobodyLeft DEF TestBatch, WatchInv
    <3>2. ActiveWorkers' = ActiveWorkers
      BY <2>5 DEF TestBatch, ActiveWorkers, Active
    <3> QED BY <2>5, <3>1, <3>2, <1>0 DEF WatchInv, TestBatch, SolutionBatchReady, Draining,
        Judging, queueVars, flags, watchVars
  <2>6. CASE StartWait
    <3>1. ActiveWorkers' = ActiveWorkers
      BY <2>6 DEF StartWait, ActiveWorkers, Active
    <3> QED BY <2>6, <3>1, <1>0 DEF WatchInv, StartWait, Draining, Judging,
        queueVars, flags, watchVars, Creating
  <2>7. CASE WaitExpires
    <3>1. ActiveWorkers' = ActiveWorkers
      BY <2>7 DEF WaitExpires, ActiveWorkers, Active
    <3> QED BY <2>7, <3>1, <1>0 DEF WatchInv, WaitExpires, Draining, Judging,
        queueVars, flags, watchVars, Creating
  <2>8. CASE WakeUp
    <3>1. running = 0 => ActiveWorkers = {}
      BY NobodyLeft
    <3>2. ActiveWorkers' = ActiveWorkers
      BY <2>8 DEF WakeUp, ActiveWorkers, Active
    <3> QED BY <2>8, <3>1, <3>2, <1>0 DEF WatchInv, WakeUp, Draining, Judging, queueVars,
        flags, watchVars
  <2>9. CASE PollInterrupt
    <3>1. ActiveWorkers' = ActiveWorkers
      BY <2>9 DEF PollInterrupt, ActiveWorkers, Active
    <3> QED BY <2>9, <3>1, <1>0 DEF WatchInv, PollInterrupt, NoticeInterrupt, Draining, Judging,
        queueVars, flags, watchVars, Creating
  <2>10. CASE SwapBuffers
    <3>1. ActiveWorkers' = ActiveWorkers
      BY <2>10, <1>0 DEF SwapBuffers, WakeWaiters, ActiveWorkers, Active
    <3>2. CASE count = 0
      BY <2>10, <3>1, <3>2, <1>0, AfterDrainCases DEF WatchInv, SwapBuffers, Draining, Judging
    <3>3. CASE count # 0
      BY <2>10, <3>1, <3>3, <1>0 DEF WatchInv, SwapBuffers, Draining, Judging
    <3> QED BY <3>2, <3>3
  <2>11. CASE AppendBatch
    <3>1. ActiveWorkers' = ActiveWorkers
      BY <2>11 DEF AppendBatch, ActiveWorkers, Active
    <3> QED BY <2>11, <3>1, <1>0 DEF WatchInv, AppendBatch, Draining, Judging,
        queueVars, flags, watchVars, Creating
  <2>12. CASE PrintNext
    <3>1. ActiveWorkers' = ActiveWorkers
      BY <2>12, AfterDrainCases DEF PrintNext, ActiveWorkers, Active
    <3> QED BY <2>12, <3>1, <1>0, AfterDrainCases DEF WatchInv, PrintNext, Draining, Judging,
        queueVars, flags, watchVars, Creating
  <2>13. CASE JoinWorkers
    <3>1. ActiveWorkers' = ActiveWorkers
      BY <2>13 DEF JoinWorkers, ActiveWorkers, Active
    <3> QED BY <2>13, <3>1, <1>0 DEF WatchInv, JoinWorkers, Draining, Judging,
        queueVars, flags, watchVars, Creating
  <2>14. CASE Assess
    <3>1. ActiveWorkers' = ActiveWorkers
      BY <2>14 DEF Assess, ActiveWorkers, Active
    <3> QED BY <2>14, <3>1, <1>0 DEF WatchInv, Assess, Draining, Judging,
        queueVars, flags, watchVars, Creating
  <2>15. CASE Report
    <3>1. ActiveWorkers' = ActiveWorkers
      BY <2>15, ReportStep DEF ActiveWorkers, Active
    <3> QED BY <2>15, <3>1, <1>0, ReportStep DEF WatchInv, Draining, Judging,
        queueVars, flags, watchVars, Creating
  <2>16. CASE Exit
    <3>1. ActiveWorkers' = ActiveWorkers
      BY <2>16, ExitStep DEF ActiveWorkers, Active
    <3> QED BY <2>16, <3>1, <1>0, ExitStep DEF WatchInv, Draining, Judging,
        queueVars, flags, watchVars, Creating
  <2> QED BY <1>2, <2>1, <2>2, <2>3, <2>4, <2>5, <2>6, <2>7, <2>8, <2>9, <2>10, <2>11,
      <2>12, <2>13, <2>14, <2>15, <2>16 DEF MainThread
<1>3. CASE Interrupt \/ UNCHANGED vars
  <2>1. ActiveWorkers' = ActiveWorkers
    BY <1>3 DEF Interrupt, vars, ActiveWorkers, Active
  <2> QED BY <1>3, <2>1, <1>0 DEF Interrupt, vars, WatchInv, queueVars, flags, watchVars
<1> QED BY <1>1, <1>2, <1>3 DEF Next

(* Who waits, waits at a full buffer which main will empty.                *)
LEMMA WaitersWatched ==
    ASSUME TypeOK, PlaceInv, WatchInv
    PROVE  NoStrandedWaiter
<1>1. SUFFICES ASSUME NEW v \in Waiters
               PROVE  /\ count = Capacity
                      /\ drainFor = "watch" /\ mainPc # "join"
                      /\ mainPc \in {"swap", "append", "print"} => seen # 0
  BY DEF NoStrandedWaiter
<1>2. v \in ActiveWorkers /\ pc[v] = "waiting" /\ v \in Workers
  BY <1>1 DEF Waiters, ActiveWorkers, Active
<1>3. count = Capacity
  BY <1>2 DEF PlaceInv, Place
<1> QED BY <1>2, <1>3 DEF WatchInv, Draining


-----------------------------------------------------------------------------
(* Numbers and claims. *)

(* Numbers are given in one way only.                                      *)
LEMMA NumberingFrame ==
    ASSUME TypeOK, [Next]_vars
    PROVE  \/ \E u \in Workers : TakesNumber(u)
           \/ UNCHANGED <<total, numbering>>
<1>1. ASSUME NEW w \in Workers, WorkerStep(w) \/ CheckFails(w)
      PROVE  \/ \E u \in Workers : TakesNumber(u)
             \/ UNCHANGED <<total, numbering>>
  <2>1. CASE CheckStop(w) \/ ClaimJob(w) \/ EnterPrefix(w) \/ LeavePrefix(w)
    BY <2>1
    DEF atomics, CheckStop, Goto, ClaimJob, EnterPrefix, LeavePrefix, history
  <2>2. CASE CountJob(w) \/ Retire(w) \/ VisitLeaf(w) \/ PollStop(w)
    BY <2>2
    DEF atomics, CountJob, Goto, Retire, WakeMain, VisitLeaf, PollStop, history
  <2>3. CASE FinishPrefix(w) \/ ClaimLimit(w) \/ ReachLimit(w) \/ LoadTotal(w)
    BY <2>3
    DEF atomics, FinishPrefix, Goto, ClaimLimit, ReachLimit, LoadTotal, history
  <2>4. CASE CountOnly(w)
    <3>1. TakesNumber(w)
      BY <2>4 DEF TypeOK, TakesNumber, CountOnly, Goto, flags, workerVars, reportVars
    <3> QED BY <3>1
  <2>5. CASE Enqueue(w)
    <3>1. TakesNumber(w)
      BY <2>5 DEF TypeOK, TakesNumber, Enqueue, Goto, flags, workerVars, reportVars
    <3> QED BY <3>1
  <2>6. CASE AwaitRoom(w) \/ SignalFlush(w) \/ CheckFails(w)
    BY <2>6
    DEF atomics, AwaitRoom, Goto, SignalFlush, WakeMain, CheckFails, history
  <2> QED BY <1>1, <2>1, <2>2, <2>3, <2>4, <2>5, <2>6 DEF WorkerStep
<1>2. CASE MainThread
  <2>1. CASE CreateWorker \/ WorkerCreated \/ CreateFails \/ LockCompletion
    BY <2>1
    DEF atomics, CreateWorker, Activate, WorkerCreated, Goto, CreateFails,
        LockCompletion, history
  <2>2. CASE TestBatch \/ StartWait \/ WaitExpires \/ WakeUp
    BY <2>2
    DEF atomics, TestBatch, StartWait, WaitExpires, WakeUp, history
  <2>3. CASE PollInterrupt \/ SwapBuffers \/ AppendBatch \/ PrintNext
    BY <2>3, AfterDrainCases
    DEF atomics, PollInterrupt, NoticeInterrupt, SwapBuffers, WakeWaiters, AppendBatch,
        PrintNext, history
  <2>4. CASE JoinWorkers \/ Assess \/ Report \/ Exit
    BY <2>4, ReportStep, ExitStep
    DEF atomics, JoinWorkers, Assess, history
  <2> QED BY <1>2, <2>1, <2>2, <2>3, <2>4 DEF MainThread
<1>3. CASE Interrupt \/ UNCHANGED vars
  BY <1>3
  DEF atomics, Interrupt, vars, history
<1> QED BY <1>1, <1>2, <1>3 DEF Next

LEMMA NewNumber ==
    ASSUME TypeOK, PlaceInv, NumbersInv, FreshInv, NEW w \in Workers, TakesNumber(w)
    PROVE  /\ Found(w) \in AllLeaves /\ Found(w) \notin Numbered
           /\ Numbering(Found(w)) \notin numbering
           /\ Kind(Found(w)) \in Kinds
           /\ Numbering(Found(w)) \in Announcement
           /\ Numbering(Found(w)).kind = Kind(Found(w))
           /\ Numbering(Found(w)).encoding = Found(w)
           /\ Numbering(Found(w)).number = total[Kind(Found(w))] + 1
<1>1. pc[w] \in Finding /\ pc[w] \in Searching /\ pc[w] \in Unnumbered
  BY DEF TakesNumber, Admitted, Unnumbered, Finding, Searching
<1>2. leaf[w] \in 1 .. Len(Leaves[prefix[w]]) /\ Found(w) \in AllLeaves /\ Kind(Found(w)) \in Kinds
  BY <1>1, FoundTyped
<1>3. Ahead(w, leaf[w])
  BY <1>1 DEF Ahead
<1>4. Found(w) \notin Numbered
  BY <1>1, <1>2, <1>3 DEF FreshInv, Fresh, Found
<1>5. Numbering(Found(w)).encoding = Found(w)
  BY <1>1, NumberingTyped
<1>6. Numbering(Found(w)) \notin numbering
  BY <1>4, <1>5 DEF Numbered
<1> QED BY <1>1, <1>2, <1>4, <1>5, <1>6, NumberingTyped

LEMMA NumbersStep ==
    ASSUME TypeOK, TypeOK', PlaceInv, NumbersInv, FreshInv, [Next]_vars
    PROVE  NumbersInv'
<1>1. AllLeaves' = AllLeaves
  BY SessionStays DEF AllLeaves
<1>2. /\ total \in [Kinds -> Nat] /\ numbering \subseteq Announcement
      /\ total' \in [Kinds -> Nat] /\ numbering' \subseteq Announcement
  BY DEF TypeOK
<1>3. ASSUME NEW w \in Workers, TakesNumber(w)
      PROVE  NumbersInv'
  <2>1. PICK new : new = Numbering(Found(w))
    OBVIOUS
  <2>2. PICK e : e = Found(w)
    OBVIOUS
  <2>3. PICK k : k = Kind(e)
    OBVIOUS
  <2>4. /\ numbering' = numbering \union {new} /\ new \notin numbering /\ new \in Announcement
        /\ k \in Kinds /\ new.kind = k /\ new.encoding = e /\ new.number = total[k] + 1
        /\ e \in AllLeaves /\ e \notin Numbered
    BY <1>3, <2>1, <2>2, <2>3, NewNumber DEF TakesNumber, TakeNumber
  <2>5. total' = [total EXCEPT ![k] = @ + 1] /\ total[k] \in Nat
    BY <1>2, <1>3, <2>2, <2>3, <2>4 DEF TakesNumber, TakeNumber
  <2>6. /\ total'[k] = total[k] + 1
        /\ \A kind \in Kinds : total[kind] \in Nat /\ (kind # k => total'[kind] = total[kind])
    BY <1>2, <2>4, <2>5
  <2>7. \A r \in numbering : /\ r.kind \in Kinds /\ r.number \in Nat /\ r.encoding # e
                             /\ r.number <= total[r.kind] /\ r.kind = Kind(r.encoding)
    BY <1>2, <2>4 DEF NumbersInv, Numbered, Announcement
  <2>8. \A r, s \in numbering' : r.encoding = s.encoding => r = s
    BY <2>4, <2>7 DEF NumbersInv
  <2>9. \A r, s \in numbering' : r.kind = s.kind /\ r.number = s.number => r = s
    <3>1. \A r \in numbering : r.kind = k => r.number # total[k] + 1
      BY <2>5, <2>7
    <3>2. \A r, s \in numbering : r.kind = s.kind /\ r.number = s.number => r = s
      BY DEF NumbersInv
    <3> QED BY <2>4, <3>1, <3>2
  <2>10. \A r \in numbering' : r.kind = Kind(r.encoding) /\ r.number <= total'[r.kind]
    <3>1. ASSUME NEW r \in numbering PROVE r.number <= total'[r.kind]
      BY <2>5, <2>6, <2>7
    <3>2. new.kind = Kind(new.encoding) /\ new.number <= total'[new.kind]
      BY <2>3, <2>4, <2>5, <2>6
    <3> QED BY <2>4, <2>7, <3>1, <3>2
  <2>11. \A kind \in Kinds : \A n \in 1 .. total'[kind] :
             \E r \in numbering' : r.kind = kind /\ r.number = n
    <3> SUFFICES ASSUME NEW kind \in Kinds, NEW n \in 1 .. total'[kind]
                 PROVE  \E r \in numbering' : r.kind = kind /\ r.number = n
      OBVIOUS
    <3>1. CASE n \in 1 .. total[kind]
      <4>1. PICK r \in numbering : r.kind = kind /\ r.number = n
        BY <3>1 DEF NumbersInv
      <4> QED BY <2>4, <4>1
    <3>2. CASE n \notin 1 .. total[kind]
      <4>1. kind = k /\ n = total[k] + 1
        BY <2>5, <2>6, <3>2
      <4> QED BY <2>4, <4>1
    <3> QED BY <3>1, <3>2
  <2>12. Numbered' \subseteq AllLeaves'
    BY <1>1, <2>4 DEF NumbersInv, Numbered
  <2>13. IsFiniteSet(numbering) /\ IsFiniteSet(numbering')
    BY <2>4, FS_AddElement DEF NumbersInv
  <2>14. ASSUME NEW kind \in Kinds
         PROVE  Cardinality(OfKind(kind)') = total'[kind]
    <3>1. IsFiniteSet(OfKind(kind)) /\ Cardinality(OfKind(kind)) = total[kind]
      BY <2>13, FS_Subset DEF OfKind, NumbersInv
    <3>2. CASE kind = k
      <4>1. OfKind(kind)' = OfKind(kind) \union {new} /\ new \notin OfKind(kind)
        BY <2>4, <3>2 DEF OfKind
      <4>2. Cardinality(OfKind(kind)') = Cardinality(OfKind(kind)) + 1
        BY <3>1, <4>1, FS_AddElement
      <4> QED BY <2>6, <3>1, <3>2, <4>2
    <3>3. CASE kind # k
      <4>1. OfKind(kind)' = OfKind(kind)
        BY <2>4, <3>3 DEF OfKind
      <4> QED BY <2>6, <3>1, <3>3, <4>1
    <3> QED BY <3>2, <3>3
  <2>15. \A kind \in Kinds : Cardinality(OfKind(kind))' = total'[kind]
    BY <2>14
  <2> QED BY <2>8, <2>9, <2>10, <2>11, <2>12, <2>13, <2>15 DEF NumbersInv
<1>4. CASE UNCHANGED <<total, numbering>>
  BY <1>1, <1>4 DEF NumbersInv, Numbered, OfKind
<1> QED BY <1>3, <1>4, NumberingFrame

(* Claims are made and used up in two steps.                               *)
LEMMA ClaimsFrame ==
    ASSUME TypeOK, CreationInv, [Next]_vars
    PROVE  \/ \E u \in Workers : ClaimLimit(u) \/ TakesNumber(u)
           \/ Limit = 0
           \/ /\ UNCHANGED <<limitClaims, numbering>>
              /\ \A v \in Workers : pc'[v] \in Admitted <=> pc[v] \in Admitted
<1>0. pc \in [Workers -> WorkerSteps]
  BY DEF TypeOK
<1>1. ASSUME NEW w \in Workers, WorkerStep(w) \/ CheckFails(w)
      PROVE  \/ \E u \in Workers : ClaimLimit(u) \/ TakesNumber(u)
             \/ Limit = 0
             \/ /\ UNCHANGED <<limitClaims, numbering>>
                /\ \A v \in Workers : pc'[v] \in Admitted <=> pc[v] \in Admitted
  <2>1. CASE CheckStop(w) \/ ClaimJob(w) \/ EnterPrefix(w) \/ LeavePrefix(w)
    BY <2>1, <1>0
    DEF atomics, Admitted, CheckStop, Goto, ClaimJob, EnterPrefix, LeavePrefix, history
  <2>2. CASE CountJob(w) \/ Retire(w)
    BY <2>2, <1>0
    DEF atomics, Admitted, CountJob, Goto, Retire, WakeMain, history
  <2>3. CASE VisitLeaf(w)
    BY <2>3, <1>0
    DEF atomics, Admitted, VisitLeaf, Goto, history
  <2>4. CASE PollStop(w) \/ FinishPrefix(w)
    BY <2>4, <1>0
    DEF atomics, Admitted, PollStop, Goto, FinishPrefix, history
  <2>5. CASE ClaimLimit(w)
    BY <2>5
  <2>6. CASE ReachLimit(w) \/ LoadTotal(w)
    BY <2>6, <1>0
    DEF atomics, Admitted, ReachLimit, Goto, LoadTotal, history
  <2>7. CASE CountOnly(w)
    <3>1. TakesNumber(w)
      BY <2>7 DEF TypeOK, TakesNumber, CountOnly, Goto, flags, workerVars, reportVars
    <3> QED BY <3>1
  <2>8. CASE Enqueue(w)
    <3>1. TakesNumber(w)
      BY <2>8 DEF TypeOK, TakesNumber, Enqueue, Goto, flags, workerVars, reportVars
    <3> QED BY <3>1
  <2>9. CASE AwaitRoom(w) \/ SignalFlush(w) \/ CheckFails(w)
    BY <2>9, <1>0
    DEF atomics, Admitted, AwaitRoom, Goto, SignalFlush, WakeMain, CheckFails, history
  <2> QED BY <1>1, <2>1, <2>2, <2>3, <2>4, <2>5, <2>6, <2>7, <2>8, <2>9 DEF WorkerStep
<1>2. CASE MainThread
  <2>1. CASE CreateWorker
    BY <2>1, <1>0
    DEF atomics, Admitted, CreateWorker, Activate, history
  <2>2. CASE WorkerCreated
    BY <2>2, <1>0
    DEF atomics, Admitted, WorkerCreated, Goto, CreationInv, Creating, Workers, TypeOK,
        history
  <2>3. CASE CreateFails \/ LockCompletion \/ TestBatch \/ StartWait
    BY <2>3, <1>0
    DEF atomics, Admitted, CreateFails, LockCompletion, TestBatch, StartWait, history
  <2>4. CASE WaitExpires \/ WakeUp \/ PollInterrupt \/ SwapBuffers
    BY <2>4, <1>0, AfterDrainCases
    DEF atomics, Admitted, WaitExpires, WakeUp, PollInterrupt, NoticeInterrupt,
        SwapBuffers, WakeWaiters, history
  <2>5. CASE AppendBatch \/ PrintNext \/ JoinWorkers \/ Assess
    BY <2>5, <1>0, AfterDrainCases
    DEF atomics, Admitted, AppendBatch, PrintNext, JoinWorkers, Assess, history
  <2>6. CASE Report \/ Exit
    BY <2>6, <1>0, ReportStep, ExitStep
    DEF atomics, Admitted, history
  <2> QED BY <1>2, <2>1, <2>2, <2>3, <2>4, <2>5, <2>6 DEF MainThread
<1>3. CASE Interrupt \/ UNCHANGED vars
  BY <1>3, <1>0
  DEF atomics, Admitted, Interrupt, vars, history
<1> QED BY <1>1, <1>2, <1>3 DEF Next

LEMMA ClaimsStep ==
    ASSUME TypeOK, TypeOK', CreationInv, PlaceInv, NumbersInv, FreshInv, ClaimsInv, [Next]_vars
    PROVE  ClaimsInv'
<1> DEFINE R == {w \in Workers : pc[w] \in Admitted}
<1>1. /\ Limit' = Limit /\ Limit \in Nat /\ limitClaims \in Nat
      /\ pc \in [Workers -> WorkerSteps]
  BY SessionStays, SessionTyped DEF TypeOK
<1>2. R = Recording /\ R' = Recording'
  BY DEF Recording, Admitted
<1>3. IsFiniteSet(R) /\ Cardinality(R) \in Nat /\ IsFiniteSet(numbering)
      /\ Cardinality(numbering) \in Nat
  BY WorkersFinite, FS_Subset, FS_CardinalityType DEF NumbersInv
<1>4. SUFFICES ASSUME Limit # 0
               PROVE  Cardinality(numbering') + Cardinality(R') =
                          IF limitClaims' < Limit THEN limitClaims' ELSE Limit
  BY <1>1, <1>2 DEF ClaimsInv
<1>5. Cardinality(numbering) + Cardinality(R) =
          IF limitClaims < Limit THEN limitClaims ELSE Limit
  BY <1>2, <1>4 DEF ClaimsInv
<1>6. ASSUME NEW w \in Workers, ClaimLimit(w)
      PROVE  Cardinality(numbering') + Cardinality(R') =
                 IF limitClaims' < Limit THEN limitClaims' ELSE Limit
  <2>1. limitClaims' = limitClaims + 1 /\ numbering' = numbering
    BY <1>6 DEF ClaimLimit, history
  <2>2. CASE limitClaims < Limit
    <3>1. R' = R \union {w} /\ w \notin R
      BY <1>1, <1>6, <2>2 DEF ClaimLimit, Goto, Exceeds, Admitted
    <3> HIDE DEF R
    <3>2. Cardinality(R') = Cardinality(R) + 1
      BY <1>3, <3>1, FS_AddElement
    <3> QED BY <1>1, <1>3, <1>5, <2>1, <2>2, <3>2
  <2>3. CASE ~(limitClaims < Limit)
    <3>1. R' = R
      BY <1>1, <1>6, <2>3 DEF ClaimLimit, Goto, Exceeds, Admitted
    <3> HIDE DEF R
    <3> QED BY <1>1, <1>3, <1>5, <2>1, <2>3, <3>1
  <2> QED BY <2>2, <2>3
<1>7. ASSUME NEW w \in Workers, TakesNumber(w)
      PROVE  Cardinality(numbering') + Cardinality(R') =
                 IF limitClaims' < Limit THEN limitClaims' ELSE Limit
  <2>1. R' = R \ {w} /\ w \in R
    BY <1>1, <1>7 DEF TakesNumber, Admitted
  <2>2. PICK new : new = Numbering(Found(w))
    OBVIOUS
  <2>3. numbering' = numbering \union {new} /\ new \notin numbering /\ limitClaims' = limitClaims
    BY <1>7, <2>2, NewNumber DEF TakesNumber, TakeNumber
  <2> HIDE DEF R
  <2>4. Cardinality(R') = Cardinality(R) - 1
    BY <1>3, <2>1, FS_RemoveElement
  <2>5. Cardinality(numbering') = Cardinality(numbering) + 1
    BY <1>3, <2>3, FS_AddElement
  <2> QED BY <1>1, <1>3, <1>5, <2>3, <2>4, <2>5
<1>8. ASSUME UNCHANGED <<limitClaims, numbering>>,
             \A v \in Workers : pc'[v] \in Admitted <=> pc[v] \in Admitted
      PROVE  Cardinality(numbering') + Cardinality(R') =
                 IF limitClaims' < Limit THEN limitClaims' ELSE Limit
  <2>1. R' = R
    BY <1>8
  <2> HIDE DEF R
  <2> QED BY <1>5, <1>8, <2>1
<1> QED BY <1>4, <1>6, <1>7, <1>8, ClaimsFrame

-----------------------------------------------------------------------------
(* Buffers and lines. *)

LEMMA BufferStep ==
    ASSUME TypeOK, TypeOK', PlaceInv, BufferInv, [Next]_vars
    PROVE  BufferInv'
<1>1. /\ buffer \in [0 .. 1 -> Seq(Announcement)] /\ front \in {0, 1}
      /\ count \in Nat /\ taken \in Nat /\ shown \in Nat
      /\ count <= Len(buffer[front]) /\ taken <= Len(buffer[1 - front])
      /\ 1 - front \in {0, 1} /\ front # 1 - front /\ 1 - (1 - front) = front
  <2>1. buffer \in [0 .. 1 -> Seq(Announcement)]
    BY DEF TypeOK
  <2>2. 1 - (1 - front) = front
    BY BufferTyped
  <2> QED BY <2>1, <2>2, BufferTyped
<1>2. ASSUME NEW w \in Workers, Enqueue(w)
      PROVE  BufferInv'
  <2>1. UNCHANGED <<front, taken, shown, mainPc>>
    BY <1>2 DEF Enqueue, watchVars
  <2>2. CASE Suppressed(Found(w))
    BY <1>2, <2>1, <2>2 DEF Enqueue, BufferInv
  <2>3. CASE ~Suppressed(Found(w))
    <3>1. PICK q : q = Put(buffer[front], count + 1, Numbering(Found(w)))
      OBVIOUS
    <3>2. Numbering(Found(w)) \in Announcement
      BY <1>2, NumberingTyped DEF Enqueue, Finding, Unnumbered, Admitted
    <3>3. q \in Seq(Announcement) /\ count + 1 <= Len(q)
      BY <1>1, <3>1, <3>2, BufferTyped, PutInPlace
    <3>4. buffer' = [buffer EXCEPT ![front] = q] /\ count' = count + 1
      BY <1>2, <2>3, <3>1 DEF Enqueue
    <3>5. buffer'[front] = q /\ buffer'[1 - front] = buffer[1 - front]
      BY <1>1, <3>4
    <3> QED BY <1>1, <2>1, <3>3, <3>4, <3>5 DEF BufferInv
  <2> QED BY <2>2, <2>3
<1>3. CASE SwapBuffers
  <2>1. mainPc = "swap" /\ taken = 0 /\ shown = 0
    BY <1>3 DEF SwapBuffers, BufferInv
  <2>2. CASE count = 0
    <3>1. AfterDrain \notin {"append", "print"}
      BY AfterDrainCases DEF TypeOK
    <3> QED BY <1>1, <1>3, <2>1, <2>2, <3>1 DEF SwapBuffers, BufferInv
  <2>3. CASE count # 0
    <3>1. /\ taken' = count /\ front' = 1 - front /\ count' = 0 /\ mainPc' = "append"
          /\ UNCHANGED <<buffer, shown>>
      BY <1>3, <2>3 DEF SwapBuffers, OtherBuffer
    <3>2. buffer'[front'] = buffer[1 - front] /\ buffer'[1 - front'] = buffer[front]
      BY <1>1, <3>1
    <3> QED BY <1>1, <2>1, <2>3, <3>1, <3>2 DEF BufferInv
  <2> QED BY <2>2, <2>3
<1>4. CASE AppendBatch
  BY <1>4 DEF AppendBatch, BufferInv, queueVars, watchVars
<1>5. CASE PrintNext
  <2>1. AfterDrain \notin {"append", "print"}
    BY AfterDrainCases DEF TypeOK
  <2> QED BY <1>1, <1>5, <2>1 DEF PrintNext, BufferInv, queueVars
<1>6. ASSUME UNCHANGED <<buffer, front, count, taken, shown>>,
             mainPc' = "append" <=> mainPc = "append", mainPc' = "print" <=> mainPc = "print"
      PROVE  BufferInv'
  BY <1>6 DEF BufferInv
<1> QED BY <1>2, <1>3, <1>4, <1>5, <1>6, BufferFrame

(* What is taken out and not yet printed.                                  *)
Rest == SubSeq(buffer[1 - front], shown + 1, taken)

(* Worker w puts its solution at the end of the buffer, *)
Puts(w) ==
    /\ TakesNumber(w)
    /\ Pending' = Append(Pending, Numbering(Found(w)))
    /\ UNCHANGED <<Batch, Rest, mainPc, outputVars>>

(* or leaves it at having counted it. *)
CountsOnly(w) ==
    /\ TakesNumber(w) /\ Suppressed(Found(w))
    /\ UNCHANGED <<Unwritten, Unprinted, outputVars>>

(* Main appends the batch, or what it can of it, to the file; *)
Appends ==
    /\ Unwritten = Batch \o Pending /\ Unwritten' = Pending
    /\ mirrored' = mirrored + (IF FullMirror THEN 0 ELSE SymmetricIn(Batch))
    /\ \/ file' = (IF ToAppend THEN file \o Batch ELSE file) /\ fileFailed' = fileFailed
       \/ /\ ToAppend /\ fileFailed'
          /\ \E n \in 0 .. Len(Batch) : file' = file \o SubSeq(Batch, 1, n)
    /\ mainPc = "append"
    /\ UNCHANGED <<Unprinted, printed, numbering>>

(* it prints the next entry, or passes over it. *)
Prints ==
    /\ \E item \in Announcement :
           /\ Unprinted = <<item>> \o Unprinted'
           /\ printed' = IF ToPrint(item) THEN Append(printed, item) ELSE printed
    /\ UNCHANGED <<Unwritten, file, fileFailed, mirrored, numbering>>

LinesStay == UNCHANGED <<Unwritten, Unprinted, outputVars, numbering>>

LEMMA EnqueueIs ==
    ASSUME TypeOK, PlaceInv, BufferInv, NEW w \in Workers, Enqueue(w)
    PROVE  Puts(w) \/ CountsOnly(w)
<1>1. TakesNumber(w)
  BY DEF TypeOK, TakesNumber, Enqueue, Goto, flags, workerVars, reportVars
<1>2. UNCHANGED <<front, taken, shown, mainPc>> /\ UNCHANGED outputVars
  BY DEF Enqueue, watchVars
<1>3. CASE Suppressed(Found(w))
  <2>1. UNCHANGED <<buffer, count>>
    BY <1>3 DEF Enqueue
  <2> QED BY <1>1, <1>2, <1>3, <2>1 DEF CountsOnly, Unwritten, Unprinted, Pending, Batch
<1>4. CASE ~Suppressed(Found(w))
  <2>1. PICK new : new = Numbering(Found(w))
    OBVIOUS
  <2>2. PICK q : q = Put(buffer[front], count + 1, new)
    OBVIOUS
  <2>3. new \in Announcement
    BY <2>1, NumberingTyped DEF Enqueue, Finding, Unnumbered, Admitted
  <2>4. SubSeq(q, 1, count + 1) = Append(SubSeq(buffer[front], 1, count), new)
    <3>1. buffer[front] \in Seq(Announcement) /\ count \in Nat /\ count <= Len(buffer[front])
      BY BufferTyped
    <3> QED BY <2>2, <2>3, <3>1, PutInPlace
  <2>5. buffer' = [buffer EXCEPT ![front] = q] /\ count' = count + 1
    BY <1>4, <2>1, <2>2 DEF Enqueue
  <2>6. buffer'[front] = q /\ buffer'[1 - front] = buffer[1 - front]
    BY <2>5, BufferTyped DEF TypeOK
  <2>7. Pending' = Append(Pending, new)
    BY <1>2, <2>4, <2>5, <2>6 DEF Pending
  <2>8. Batch' = Batch /\ Rest' = Rest
    BY <1>2, <2>6 DEF Batch, Rest
  <2> QED BY <1>1, <1>2, <2>1, <2>7, <2>8 DEF Puts
<1> QED BY <1>3, <1>4

LEMMA SwapIs ==
    ASSUME TypeOK, TypeOK', BufferInv, BufferInv', SwapBuffers
    PROVE  LinesStay
<1>1. mainPc = "swap" /\ taken = 0 /\ shown = 0
  BY DEF SwapBuffers, BufferInv
<1>2. UNCHANGED <<buffer, shown>> /\ UNCHANGED outputVars /\ UNCHANGED numbering
  BY DEF SwapBuffers, history
<1>3. /\ front \in {0, 1} /\ count \in Nat /\ 1 - (1 - front) = front
      /\ Pending \in Seq(Announcement) /\ Len(Pending) = count
  BY BufferTyped
<1>4. Unwritten = Pending
  BY <1>1 DEF Unwritten
<1>5. Rest = <<>>
  BY <1>1, BufferTyped DEF Rest
<1>6. Unprinted = Pending
  <2>1. Unprinted = Rest \o Pending
    BY DEF Unprinted, Rest
  <2> QED BY <1>3, <1>5, <2>1
<1>7. CASE count = 0
  <2>1. UNCHANGED <<front, count, taken>> /\ mainPc' = AfterDrain
    BY <1>7 DEF SwapBuffers
  <2>2. AfterDrain # "append"
    BY AfterDrainCases DEF TypeOK
  <2>3. Pending' = Pending /\ Rest' = Rest
    BY <1>2, <2>1 DEF Pending, Rest
  <2>4. Unwritten' = Pending'
    BY <2>1, <2>2 DEF Unwritten
  <2>5. Unprinted' = Rest' \o Pending' /\ Unprinted = Rest \o Pending
    BY DEF Unprinted, Rest
  <2> QED BY <1>2, <1>4, <2>3, <2>4, <2>5 DEF LinesStay
<1>8. CASE count # 0
  <2>1. /\ taken' = count /\ front' = 1 - front /\ count' = 0 /\ mainPc' = "append"
    BY <1>8 DEF SwapBuffers, OtherBuffer
  <2>2. Batch' = Pending
    BY <1>2, <1>3, <2>1 DEF Batch, Pending
  <2>3. Pending' = <<>>
    <3>1. Pending' \in Seq(Announcement) /\ Len(Pending') = count'
      BY BufferTypedNext
    <3> QED BY <2>1, <3>1, EmptySeq
  <2>4. Rest' = Pending
    BY <1>1, <1>2, <1>3, <2>1 DEF Rest, Pending
  <2>5. Unwritten' = Batch' \o Pending'
    BY <2>1 DEF Unwritten
  <2>6. Unprinted' = Rest' \o Pending'
    BY DEF Unprinted, Rest
  <2>7. Unwritten' = Pending /\ Unprinted' = Pending
    BY <1>3, <2>2, <2>3, <2>4, <2>5, <2>6
  <2> QED BY <1>2, <1>4, <1>6, <2>7 DEF LinesStay
<1> QED BY <1>7, <1>8

LEMMA AppendIs ==
    ASSUME TypeOK, BufferInv, AppendBatch
    PROVE  Appends
<1>1. /\ mainPc = "append" /\ mainPc' = "print"
      /\ mirrored' = mirrored + (IF FullMirror THEN 0 ELSE SymmetricIn(Batch))
      /\ UNCHANGED <<buffer, front, count, taken, shown, printed, numbering>>
  BY DEF AppendBatch, queueVars, watchVars, history
<1>2. Unwritten = Batch \o Pending
  BY <1>1 DEF Unwritten
<1>3. Unwritten' = Pending /\ Unprinted' = Unprinted
  BY <1>1 DEF Unwritten, Pending, Unprinted
<1>4. Len(Batch) = taken
  BY BufferTyped
<1>5. \/ file' = (IF ToAppend THEN file \o Batch ELSE file) /\ fileFailed' = fileFailed
      \/ /\ ToAppend /\ fileFailed'
         /\ \E n \in 0 .. Len(Batch) : file' = file \o SubSeq(Batch, 1, n)
  BY <1>4, Zenon DEF AppendBatch
<1> QED BY <1>1, <1>2, <1>3, <1>5 DEF Appends

LEMMA PrintIs ==
    ASSUME TypeOK, TypeOK', BufferInv, BufferInv', PrintNext
    PROVE  Prints
<1>1. /\ mainPc = "print" /\ mainPc' # "append"
      /\ UNCHANGED <<buffer, front, count, file, fileFailed, mirrored, numbering>>
  <2>1. mainPc' = "print" \/ mainPc' = AfterDrain
    BY DEF PrintNext
  <2>2. AfterDrain # "append"
    BY AfterDrainCases DEF TypeOK
  <2> QED BY <2>1, <2>2 DEF PrintNext, queueVars, history
<1>2. /\ shown < taken /\ taken \in Nat /\ shown \in Nat /\ taken <= Len(buffer[1 - front])
      /\ buffer[1 - front] \in Seq(Announcement) /\ Pending \in Seq(Announcement)
      /\ Batch[shown + 1] = buffer[1 - front][shown + 1]
  BY SMTT(30), <1>1, BufferTyped DEF BufferInv
<1>3. PICK b : b = buffer[1 - front]
  OBVIOUS
<1>4. PICK item : item = b[shown + 1]
  OBVIOUS
<1>5. item \in Announcement
  BY <1>2, <1>3, <1>4, ElementOfSeq
<1>6. printed' = IF ToPrint(item) THEN Append(printed, item) ELSE printed
  BY <1>2, <1>3, <1>4 DEF PrintNext
<1>7. Rest = <<item>> \o SubSeq(b, shown + 2, taken)
  <2>1. shown + 1 \in 1 .. Len(b) /\ taken \in shown + 1 .. Len(b) /\ (shown + 1) + 1 = shown + 2
    BY <1>2, <1>3
  <2> QED BY <1>2, <1>3, <1>4, <2>1, SubSeqRecursiveFirst DEF Rest
<1>8. SubSeq(b, shown + 2, taken) \in Seq(Announcement)
  <2>1. SubSeq(b, (shown + 1) + 1, taken) \in Seq(Announcement) /\ (shown + 1) + 1 = shown + 2
    BY <1>2, <1>3, PartTyped
  <2> QED BY <2>1
<1>9. Rest' = SubSeq(b, shown + 2, taken)
  <2>1. CASE shown + 1 < taken
    <3>1. shown' = shown + 1 /\ taken' = taken
      BY <2>1 DEF PrintNext
    <3>2. shown' + 1 = shown + 2
      BY <1>2, <3>1
    <3> QED BY <1>1, <1>3, <3>1, <3>2 DEF Rest
  <2>2. CASE ~(shown + 1 < taken)
    <3>1. shown' = 0 /\ taken' = 0
      BY <2>2 DEF PrintNext
    <3>2. SubSeq(b, 1, 0) = <<>>
      BY <1>2, <1>3
    <3>3. SubSeq(b, shown + 2, taken) = <<>>
      BY <1>2, <1>3, <2>2
    <3>4. Rest' = SubSeq(b, 1, 0)
      BY <1>1, <1>3, <3>1 DEF Rest
    <3> QED BY <3>2, <3>3, <3>4
  <2> QED BY <2>1, <2>2
<1>10. Unprinted = <<item>> \o Unprinted'
  <2>1. Unprinted = Rest \o Pending /\ Unprinted' = Rest' \o Pending'
    BY DEF Unprinted, Rest
  <2>2. Pending' = Pending
    BY <1>1 DEF Pending
  <2>3. PICK t : t = SubSeq(b, shown + 2, taken)
    OBVIOUS
  <2>4. PICK y : y = <<item>>
    OBVIOUS
  <2>5. y \in Seq(Announcement) /\ t \in Seq(Announcement)
    BY <1>5, <1>8, <2>3, <2>4
  <2>6. PICK r : r = Pending
    OBVIOUS
  <2>7. r \in Seq(Announcement)
    BY <1>2, <2>6
  <2>8. (y \o t) \o r = y \o (t \o r)
    BY <2>5, <2>7
  <2> QED BY <1>7, <1>9, <2>1, <2>2, <2>3, <2>4, <2>6, <2>8
<1>11. Unwritten' = Unwritten
  BY <1>1 DEF Unwritten, Pending
<1> QED BY <1>1, <1>5, <1>6, <1>10, <1>11 DEF Prints

LEMMA CountOnlyFrame ==
    ASSUME TypeOK, [Next]_vars
    PROVE  \/ \E u \in Workers : CountOnly(u) \/ Enqueue(u)
           \/ numbering' = numbering
<1>1. ASSUME NEW w \in Workers, WorkerStep(w) \/ CheckFails(w)
      PROVE  \/ \E u \in Workers : CountOnly(u) \/ Enqueue(u)
             \/ numbering' = numbering
  <2>1. CASE CheckStop(w) \/ ClaimJob(w) \/ EnterPrefix(w) \/ LeavePrefix(w)
    BY <2>1
    DEF history, CheckStop, Goto, ClaimJob, EnterPrefix, LeavePrefix
  <2>2. CASE CountJob(w) \/ Retire(w) \/ VisitLeaf(w) \/ PollStop(w)
    BY <2>2
    DEF history, CountJob, Goto, Retire, WakeMain, VisitLeaf, PollStop
  <2>3. CASE FinishPrefix(w) \/ ClaimLimit(w) \/ ReachLimit(w) \/ LoadTotal(w)
    BY <2>3
    DEF history, FinishPrefix, Goto, ClaimLimit, ReachLimit, LoadTotal
  <2>4. CASE CountOnly(w)
    BY <2>4
  <2>5. CASE Enqueue(w)
    BY <2>5
  <2>6. CASE AwaitRoom(w) \/ SignalFlush(w) \/ CheckFails(w)
    BY <2>6
    DEF history, AwaitRoom, Goto, SignalFlush, WakeMain, CheckFails
  <2> QED BY <1>1, <2>1, <2>2, <2>3, <2>4, <2>5, <2>6 DEF WorkerStep
<1>2. CASE MainThread
  <2>1. CASE CreateWorker \/ WorkerCreated \/ CreateFails \/ LockCompletion
    BY <2>1
    DEF history, CreateWorker, Activate, WorkerCreated, Goto, CreateFails,
        LockCompletion
  <2>2. CASE TestBatch \/ StartWait \/ WaitExpires \/ WakeUp
    BY <2>2
    DEF history, TestBatch, StartWait, WaitExpires, WakeUp
  <2>3. CASE PollInterrupt \/ SwapBuffers \/ AppendBatch \/ PrintNext
    BY <2>3, AfterDrainCases
    DEF history, PollInterrupt, NoticeInterrupt, SwapBuffers, WakeWaiters, AppendBatch,
        PrintNext
  <2>4. CASE JoinWorkers \/ Assess \/ Report \/ Exit
    BY <2>4, ReportStep, ExitStep
    DEF history, JoinWorkers, Assess
  <2> QED BY <1>2, <2>1, <2>2, <2>3, <2>4 DEF MainThread
<1>3. CASE Interrupt \/ UNCHANGED vars
  BY <1>3
  DEF history, Interrupt, vars
<1> QED BY <1>1, <1>2, <1>3 DEF Next

(* The lines change in these ways only.                                    *)
LEMMA OutputFrame ==
    ASSUME TypeOK, TypeOK', PlaceInv, BufferInv, BufferInv', [Next]_vars
    PROVE  \/ \E w \in Workers : Puts(w) \/ CountsOnly(w)
           \/ Appends \/ Prints \/ LinesStay
<1>1. ASSUME NEW w \in Workers, CountOnly(w)
      PROVE  CountsOnly(w)
  <2>1. TakesNumber(w)
    BY <1>1 DEF TypeOK, TakesNumber, CountOnly, Goto, flags, workerVars, reportVars
  <2>2. Suppressed(Found(w))
    BY <1>1 DEF CountOnly, PlaceInv, Place
  <2>3. UNCHANGED <<queueVars, taken, shown, mainPc>> /\ UNCHANGED outputVars
    BY <1>1 DEF CountOnly, watchVars
  <2> QED BY <2>1, <2>2, <2>3 DEF CountsOnly, Unwritten, Unprinted, Pending, Batch, queueVars
<1>2. ASSUME numbering' = numbering,
             UNCHANGED <<buffer, front, count, taken, shown, file, printed, fileFailed,
                         mirrored>>,
             mainPc' = "append" <=> mainPc = "append"
      PROVE  LinesStay
  BY <1>2 DEF LinesStay, Unwritten, Unprinted, Pending, Batch, outputVars
<1> QED BY <1>1, <1>2, EnqueueIs, SwapIs, AppendIs, PrintIs, BufferFrame, CountOnlyFrame

-----------------------------------------------------------------------------
(* Lines in order. *)

(* Line l holds numbered ones, none twice; those in P stand behind their   *)
(* predecessors, and are all there.                                        *)
Ordered(l, N, P) ==
    /\ Distinct(l)
    /\ \A i \in 1 .. Len(l) :
           /\ l[i] \in N
           /\ l[i] \in P => l[i].number = 1 \/ \E j \in 1 .. i - 1 : Follows(l[i], l[j])
    /\ \A r \in N : r \in P => \E i \in 1 .. Len(l) : l[i] = r

Closed(P) ==
    /\ P \subseteq Announcement
    /\ \A r \in P : \A s \in Announcement : Follows(r, s) => s \in P

Printable == {r \in Announcement : ToPrint(r)}

LEMMA ClosedSets ==
    ASSUME TypeOK
    PROVE  Closed(Announcement) /\ Closed(Printable)
<1>1. PrintLimit \in Nat
  BY SessionTyped DEF TypeOK
<1>2. \A r \in Announcement : r.number \in Nat
  BY DEF Announcement
<1>3. Closed(Announcement)
  BY DEF Closed
<1>4. ASSUME NEW r \in Printable, NEW s \in Announcement, Follows(r, s)
      PROVE  s \in Printable
  <2>1. r.number \in Nat /\ s.number \in Nat /\ r.number = s.number + 1 /\ r.number <= PrintLimit
    BY <1>2, <1>4 DEF Follows, Printable, ToPrint
  <2>2. s.number <= PrintLimit
    BY <1>1, <2>1
  <2> QED BY <2>2 DEF Printable, ToPrint
<1>5. Printable \subseteq Announcement
  BY DEF Printable
<1> QED BY <1>3, <1>4, <1>5 DEF Closed

(* What gets the next number of its class may go to the end of a line.     *)
LEMMA OrderedAppend ==
    ASSUME NEW N, N \subseteq Announcement, NEW P, Closed(P),
           NEW l \in Seq(Announcement), Ordered(l, N, P),
           NEW x \in Announcement,
           \A r \in N : ~(r.kind = x.kind /\ r.number = x.number),
           x.number = 1 \/ \E r \in N : Follows(x, r)
    PROVE  Ordered(Append(l, x), N \union {x}, P)
<1> DEFINE m == Append(l, x)
           n == Len(l)
<1>1. n \in Nat /\ Len(m) = n + 1 /\ m[n + 1] = x /\ \A i \in 1 .. n : m[i] = l[i]
  BY AppendProperties
<1>2. \A i \in 1 .. n : l[i] \in N
  BY DEF Ordered
<1> HIDE DEF m, n
<1>3. Distinct(m)
  <2> SUFFICES ASSUME NEW i \in 1 .. n + 1, NEW j \in 1 .. n + 1,
                      m[i].kind = m[j].kind, m[i].number = m[j].number
               PROVE  i = j
    BY <1>1 DEF Distinct
  <2>1. CASE i \in 1 .. n /\ j \in 1 .. n
    BY <1>1, <2>1 DEF Ordered, Distinct, n
  <2>2. CASE i \in 1 .. n /\ j = n + 1
    BY <1>1, <1>2, <2>2
  <2>3. CASE i = n + 1 /\ j \in 1 .. n
    BY <1>1, <1>2, <2>3
  <2>4. CASE i = n + 1 /\ j = n + 1
    BY <2>4
  <2> QED BY <1>1, <2>1, <2>2, <2>3, <2>4
<1>4. ASSUME NEW i \in 1 .. n + 1
      PROVE  /\ m[i] \in N \union {x}
             /\ m[i] \in P => m[i].number = 1 \/ \E j \in 1 .. i - 1 : Follows(m[i], m[j])
  <2>1. CASE i \in 1 .. n
    <3>1. m[i] = l[i] /\ \A j \in 1 .. i - 1 : j \in 1 .. n /\ m[j] = l[j]
      BY <1>1, <2>1
    <3>2. l[i] \in P => l[i].number = 1 \/ \E j \in 1 .. i - 1 : Follows(l[i], l[j])
      BY <2>1 DEF Ordered, n
    <3> QED BY <1>2, <2>1, <3>1, <3>2
  <2>2. CASE i = n + 1
    <3>1. SUFFICES ASSUME x \in P, x.number # 1
                   PROVE  \E j \in 1 .. i - 1 : Follows(x, m[j])
      BY <1>1, <2>2
    <3>2. PICK r \in N : Follows(x, r)
      BY <3>1
    <3>3. r \in P
      BY <3>1, <3>2 DEF Closed
    <3>4. PICK j \in 1 .. n : l[j] = r
      BY <3>3 DEF Ordered, n
    <3>5. j \in 1 .. i - 1 /\ m[j] = r
      BY <1>1, <2>2, <3>4
    <3> QED BY <3>2, <3>5
  <2> QED BY <1>1, <2>1, <2>2
<1>5. ASSUME NEW r \in N \union {x}, r \in P
      PROVE  \E i \in 1 .. n + 1 : m[i] = r
  <2>1. CASE r = x
    BY <1>1, <2>1
  <2>2. CASE r \in N
    <3>1. PICK i \in 1 .. n : l[i] = r
      BY <1>5, <2>2 DEF Ordered, n
    <3> QED BY <1>1, <3>1
  <2> QED BY <2>1, <2>2
<1>6. Ordered(m, N \union {x}, P)
  BY <1>1, <1>3, <1>4, <1>5 DEF Ordered
<1> QED BY <1>6 DEF m

(* What does not matter may be numbered without being in the line.         *)
LEMMA OrderedMore ==
    ASSUME NEW N, NEW P, NEW l, Ordered(l, N, P), NEW x, x \notin P
    PROVE  Ordered(l, N \union {x}, P)
  BY DEF Ordered

(* What does not matter may be taken out of the line.                      *)
LEMMA OrderedWithout ==
    ASSUME NEW N, N \subseteq Announcement, NEW P, Closed(P),
           NEW p \in Seq(Announcement), NEW q \in Seq(Announcement), NEW x \in Announcement,
           x \notin P, Ordered(p \o (<<x>> \o q), N, P)
    PROVE  Ordered(p \o q, N, P)
<1> DEFINE l == p \o (<<x>> \o q)
           m == p \o q
           a == Len(p)
           n == Len(p) + Len(q)
<1>1. /\ a \in Nat /\ n \in Nat /\ a <= n /\ Len(m) = n /\ Len(l) = n + 1
      /\ \A i \in 1 .. a : l[i] = p[i] /\ m[i] = p[i]
  OBVIOUS
<1>2. l[a + 1] = x
  OBVIOUS
<1>3. \A i \in a + 1 .. n : m[i] = l[i + 1]
  OBVIOUS
<1> HIDE DEF l, m, a, n
<1>4. \A i \in 1 .. a : m[i] = l[i]
  BY <1>1
<1>5. Ordered(l, N, P)
  BY DEF l
<1> DEFINE At(i) == IF i <= a THEN i ELSE i + 1
<1>6. \A i \in 1 .. n : At(i) \in 1 .. n + 1 /\ m[i] = l[At(i)] /\ At(i) # a + 1
  BY <1>1, <1>3, <1>4
<1>7. \A i, j \in 1 .. n : (At(i) = At(j) => i = j) /\ (At(i) < At(j) => i < j)
  BY <1>1
<1>8. \A i \in 1 .. n + 1 : i = a + 1 \/ \E j \in 1 .. n : At(j) = i
  <2> SUFFICES ASSUME NEW i \in 1 .. n + 1, i # a + 1
               PROVE  \E j \in 1 .. n : At(j) = i
    OBVIOUS
  <2>1. CASE i <= a
    <3>1. i \in 1 .. n /\ At(i) = i
      BY <1>1, <2>1
    <3> QED BY <3>1
  <2>2. CASE i > a
    <3>1. i - 1 \in 1 .. n /\ At(i - 1) = i
      BY <1>1, <2>2
    <3> QED BY <3>1
  <2> QED BY <1>1, <2>1, <2>2
<1> HIDE DEF At
<1>9. Distinct(m)
  <2> SUFFICES ASSUME NEW i \in 1 .. n, NEW j \in 1 .. n,
                      m[i].kind = m[j].kind, m[i].number = m[j].number
               PROVE  i = j
    BY <1>1 DEF Distinct
  <2>1. l[At(i)].kind = l[At(j)].kind /\ l[At(i)].number = l[At(j)].number
    BY <1>6
  <2>2. At(i) = At(j)
    BY <1>1, <1>5, <1>6, <2>1 DEF Ordered, Distinct
  <2> QED BY <1>7, <2>2
<1>10. ASSUME NEW i \in 1 .. n
       PROVE  /\ m[i] \in N
              /\ m[i] \in P => m[i].number = 1 \/ \E j \in 1 .. i - 1 : Follows(m[i], m[j])
  <2>1. At(i) \in 1 .. n + 1 /\ m[i] = l[At(i)] /\ l[At(i)] \in N
    BY <1>1, <1>5, <1>6 DEF Ordered
  <2>2. SUFFICES ASSUME m[i] \in P, m[i].number # 1
                 PROVE  \E j \in 1 .. i - 1 : Follows(m[i], m[j])
    BY <2>1
  <2>3. PICK k \in 1 .. At(i) - 1 : Follows(l[At(i)], l[k])
    BY <1>1, <1>5, <2>1, <2>2 DEF Ordered
  <2>4. k \in 1 .. n + 1 /\ k < At(i)
    BY <1>1, <2>1, <2>3
  <2>5. l[k] \in N /\ l[k] \in Announcement
    BY <1>1, <1>5, <2>4 DEF Ordered
  <2>6. l[k] \in P
    BY <2>1, <2>2, <2>3, <2>5 DEF Closed
  <2>7. k # a + 1
    BY <1>2, <2>6
  <2>8. PICK j \in 1 .. n : At(j) = k
    BY <1>8, <2>4, <2>7
  <2>9. j < i /\ m[j] = l[k]
    BY <1>6, <1>7, <2>4, <2>8
  <2>10. j \in 1 .. i - 1
    BY <1>1, <2>8, <2>9
  <2> QED BY <2>1, <2>3, <2>9, <2>10
<1>11. ASSUME NEW r \in N, r \in P
       PROVE  \E i \in 1 .. n : m[i] = r
  <2>1. PICK k \in 1 .. n + 1 : l[k] = r
    BY <1>1, <1>5, <1>11 DEF Ordered
  <2>2. k # a + 1
    BY <1>2, <1>11, <2>1
  <2>3. PICK j \in 1 .. n : At(j) = k
    BY <1>8, <2>1, <2>2
  <2> QED BY <1>6, <2>1, <2>3
<1>12. Ordered(m, N, P)
  BY <1>1, <1>9, <1>10, <1>11 DEF Ordered
<1> QED BY <1>12 DEF m

(* A beginning of a line in order is in order.                             *)
LEMMA OrderOfPrefix ==
    ASSUME NEW p \in Seq(Announcement), NEW q \in Seq(Announcement), Len(p) <= Len(q),
           \A i \in 1 .. Len(p) : p[i] = q[i], InOrder(q)
    PROVE  InOrder(p)
<1>1. Len(p) \in Nat /\ Len(q) \in Nat /\ 1 .. Len(p) \subseteq 1 .. Len(q)
  OBVIOUS
<1>2. Distinct(p)
  BY <1>1 DEF InOrder, Distinct
<1>3. ASSUME NEW i \in 1 .. Len(p)
      PROVE  /\ p[i] \in numbering
             /\ p[i].number = 1 \/ \E j \in 1 .. i - 1 : Follows(p[i], p[j])
  <2>1. i \in 1 .. Len(q) /\ p[i] = q[i] /\ \A j \in 1 .. i - 1 : p[j] = q[j]
    BY <1>1
  <2> QED BY <2>1 DEF InOrder
<1> QED BY <1>2, <1>3 DEF InOrder

(* What begins with a beginning of the rest is a beginning of the line.    *)
LEMMA PrefixOfLine ==
    ASSUME NEW S, NEW f \in Seq(S), NEW s \in Seq(S), NEW t \in Seq(S), Len(s) <= Len(t),
           \A i \in 1 .. Len(s) : s[i] = t[i]
    PROVE  /\ f \o s \in Seq(S) /\ Len(f \o s) <= Len(f \o t)
           /\ \A i \in 1 .. Len(f \o s) : (f \o s)[i] = (f \o t)[i]
<1>1. Len(f) \in Nat /\ Len(s) \in Nat /\ Len(t) \in Nat
  OBVIOUS
<1>2. f \o s \in Seq(S) /\ Len(f \o s) = Len(f) + Len(s) /\ Len(f \o t) = Len(f) + Len(t)
  BY ConcatProperties
<1>3. ASSUME NEW i \in 1 .. Len(f) + Len(s)
      PROVE  (f \o s)[i] = (f \o t)[i]
  <2>1. CASE i <= Len(f)
    BY <1>1, <2>1, ConcatProperties
  <2>2. CASE i > Len(f)
    <3>1. i - Len(f) \in 1 .. Len(s)
      BY <1>1, <2>2
    <3>2. (f \o s)[i] = s[i - Len(f)] /\ (f \o t)[i] = t[i - Len(f)]
      BY <1>1, <2>2, ConcatProperties
    <3> QED BY <3>1, <3>2
  <2>3. i <= Len(f) \/ i > Len(f)
    BY <1>1
  <2> QED BY <2>1, <2>2, <2>3, Zenon
<1> QED BY <1>1, <1>2, <1>3

LEMMA PrefixOfBatch ==
    ASSUME NEW S, NEW b \in Seq(S), NEW p \in Seq(S), NEW n \in 0 .. Len(b)
    PROVE  /\ SubSeq(b, 1, n) \in Seq(S) /\ b \o p \in Seq(S)
           /\ Len(SubSeq(b, 1, n)) <= Len(b \o p)
           /\ \A i \in 1 .. Len(SubSeq(b, 1, n)) : SubSeq(b, 1, n)[i] = (b \o p)[i]
<1>1. Len(b) \in Nat /\ Len(p) \in Nat /\ n \in Nat /\ n <= Len(b)
  OBVIOUS
<1>2. /\ SubSeq(b, 1, n) \in Seq(S) /\ Len(SubSeq(b, 1, n)) = n
      /\ \A i \in 1 .. n : SubSeq(b, 1, n)[i] = b[i]
  <2>1. \A i \in 1 .. n : b[i] \in S
    BY <1>1, ElementOfSeq
  <2> QED BY <1>1, <2>1, SubSeqProperties
<1>3. /\ b \o p \in Seq(S) /\ Len(b \o p) = Len(b) + Len(p)
      /\ \A i \in 1 .. Len(b) : (b \o p)[i] = b[i]
  BY <1>1, ConcatProperties
<1>4. 1 .. n \subseteq 1 .. Len(b)
  BY <1>1
<1> QED BY <1>1, <1>2, <1>3, <1>4

LEMMA LinesTyped ==
    TypeOK /\ BufferInv =>
        /\ numbering \subseteq Announcement
        /\ file \in Seq(Announcement) /\ printed \in Seq(Announcement)
        /\ Batch \in Seq(Announcement) /\ Rest \in Seq(Announcement)
        /\ Pending \in Seq(Announcement)
        /\ Unwritten \in Seq(Announcement) /\ Unprinted \in Seq(Announcement)
        /\ FileLine \in Seq(Announcement) /\ TerminalLine \in Seq(Announcement)
<1> SUFFICES ASSUME TypeOK, BufferInv
             PROVE  /\ numbering \subseteq Announcement
                    /\ file \in Seq(Announcement) /\ printed \in Seq(Announcement)
                    /\ Batch \in Seq(Announcement) /\ Rest \in Seq(Announcement)
                    /\ Pending \in Seq(Announcement)
                    /\ Unwritten \in Seq(Announcement) /\ Unprinted \in Seq(Announcement)
                    /\ FileLine \in Seq(Announcement) /\ TerminalLine \in Seq(Announcement)
  OBVIOUS
<1>1. /\ numbering \subseteq Announcement
      /\ file \in Seq(Announcement) /\ printed \in Seq(Announcement)
  BY DEF TypeOK
<1>2. /\ Batch \in Seq(Announcement) /\ Rest \in Seq(Announcement)
      /\ Pending \in Seq(Announcement)
  BY BufferTyped DEF Rest
<1>3. Unwritten \in Seq(Announcement)
  BY <1>2, ConcatProperties DEF Unwritten
<1>4. Unprinted \in Seq(Announcement)
  BY <1>2, ConcatProperties DEF Unprinted, Rest
<1>5. FileLine \in Seq(Announcement) /\ TerminalLine \in Seq(Announcement)
  BY <1>1, <1>3, <1>4, ConcatProperties DEF FileLine, TerminalLine
<1> QED BY <1>1, <1>2, <1>3, <1>4, <1>5

LEMMA LinesTypedNext ==
    (TypeOK /\ BufferInv =>
        /\ numbering \subseteq Announcement
        /\ file \in Seq(Announcement) /\ printed \in Seq(Announcement)
        /\ Batch \in Seq(Announcement) /\ Rest \in Seq(Announcement)
        /\ Pending \in Seq(Announcement)
        /\ Unwritten \in Seq(Announcement) /\ Unprinted \in Seq(Announcement)
        /\ FileLine \in Seq(Announcement) /\ TerminalLine \in Seq(Announcement))'
<1>1. TypeOK /\ BufferInv =>
        /\ numbering \subseteq Announcement
        /\ file \in Seq(Announcement) /\ printed \in Seq(Announcement)
        /\ Batch \in Seq(Announcement) /\ Rest \in Seq(Announcement)
        /\ Pending \in Seq(Announcement)
        /\ Unwritten \in Seq(Announcement) /\ Unprinted \in Seq(Announcement)
        /\ FileLine \in Seq(Announcement) /\ TerminalLine \in Seq(Announcement)
  BY LinesTyped
<1> QED BY <1>1, PTL

(* The two invariants as statements about lines in order.                  *)
LEMMA FileForm ==
    TypeOK => (InOrder(FileLine) /\ Items(FileLine) = numbering
               <=> Ordered(FileLine, numbering, Announcement))
<1> SUFFICES ASSUME TypeOK
             PROVE  InOrder(FileLine) /\ Items(FileLine) = numbering
                    <=> Ordered(FileLine, numbering, Announcement)
  OBVIOUS
<1>1. \A r \in numbering : r \in Announcement
  BY DEF TypeOK
<1>2. InOrder(FileLine) /\ Items(FileLine) = numbering
      => Ordered(FileLine, numbering, Announcement)
  BY DEF InOrder, Items, Ordered
<1>3. Ordered(FileLine, numbering, Announcement)
      => InOrder(FileLine) /\ Items(FileLine) = numbering
  BY <1>1 DEF InOrder, Items, Ordered
<1> QED BY <1>2, <1>3

LEMMA FileFormNext ==
    (TypeOK => (InOrder(FileLine) /\ Items(FileLine) = numbering
                <=> Ordered(FileLine, numbering, Announcement)))'
<1>1. TypeOK => (InOrder(FileLine) /\ Items(FileLine) = numbering
                 <=> Ordered(FileLine, numbering, Announcement))
  BY FileForm
<1> QED BY <1>1, PTL

LEMMA TerminalForm ==
    TypeOK => (TerminalInv <=> /\ \A i \in 1 .. Len(printed) : ToPrint(printed[i])
                               /\ Ordered(TerminalLine, numbering, Printable))
<1> SUFFICES ASSUME TypeOK
             PROVE  TerminalInv <=> /\ \A i \in 1 .. Len(printed) : ToPrint(printed[i])
                                    /\ Ordered(TerminalLine, numbering, Printable)
  OBVIOUS
<1>1. \A r \in numbering : r \in Printable <=> ToPrint(r)
  BY DEF TypeOK, Printable
<1>2. TerminalInv => /\ \A i \in 1 .. Len(printed) : ToPrint(printed[i])
                     /\ Ordered(TerminalLine, numbering, Printable)
  BY <1>1 DEF TerminalInv, Ordered
<1>3. /\ \A i \in 1 .. Len(printed) : ToPrint(printed[i])
      /\ Ordered(TerminalLine, numbering, Printable)
      => TerminalInv
  BY <1>1 DEF TerminalInv, Ordered
<1> QED BY <1>2, <1>3

LEMMA TerminalFormNext ==
    (TypeOK => (TerminalInv <=> /\ \A i \in 1 .. Len(printed) : ToPrint(printed[i])
                                /\ Ordered(TerminalLine, numbering, Printable)))'
<1>1. TypeOK => (TerminalInv <=> /\ \A i \in 1 .. Len(printed) : ToPrint(printed[i])
                                 /\ Ordered(TerminalLine, numbering, Printable))
  BY TerminalForm
<1> QED BY <1>1, PTL

(* A new number comes next in its class.                                   *)
LEMMA NewLast ==
    ASSUME TypeOK, PlaceInv, NumbersInv, FreshInv, NEW w \in Workers, TakesNumber(w),
           NEW new, new = Numbering(Found(w))
    PROVE  /\ new \in Announcement /\ new \notin numbering
           /\ numbering' = numbering \union {new}
           /\ new.kind = Kind(Found(w)) /\ new.number = total[Kind(Found(w))] + 1
           /\ total[Kind(Found(w))] \in Nat
           /\ \A r \in numbering : ~(r.kind = new.kind /\ r.number = new.number)
           /\ new.number = 1 \/ \E r \in numbering : Follows(new, r)
<1>1. PICK k : k = Kind(Found(w))
  OBVIOUS
<1>2. /\ new \in Announcement /\ new \notin numbering /\ k \in Kinds
      /\ new.kind = k /\ new.number = total[k] + 1
  BY <1>1, NewNumber
<1>3. total[k] \in Nat
  BY <1>2 DEF TypeOK
<1>4. numbering' = numbering \union {new}
  BY DEF TakesNumber, TakeNumber
<1>5. ASSUME NEW r \in numbering, r.kind = k
      PROVE  r.number # total[k] + 1
  <2>1. r.number <= total[k] /\ r.number \in Nat
    BY <1>5 DEF NumbersInv, TypeOK, Announcement
  <2> QED BY <1>3, <2>1
<1>6. ASSUME new.number # 1
      PROVE  \E r \in numbering : Follows(new, r)
  <2>1. total[k] \in 1 .. total[k]
    BY <1>2, <1>3, <1>6
  <2>2. PICK r \in numbering : r.kind = k /\ r.number = total[k]
    BY <1>2, <2>1 DEF NumbersInv
  <2> QED BY <1>2, <2>2 DEF Follows
<1> QED BY <1>1, <1>2, <1>3, <1>4, <1>5, <1>6

(* What a worker puts is the last of both lines.                           *)
LEMMA PutsLines ==
    ASSUME TypeOK, BufferInv, NEW w \in Workers, Puts(w),
           NEW new \in Announcement, new = Numbering(Found(w))
    PROVE  /\ Unwritten' = Append(Unwritten, new)
           /\ FileLine' = Append(FileLine, new)
           /\ TerminalLine' = Append(TerminalLine, new)
<1>1. /\ file \in Seq(Announcement) /\ printed \in Seq(Announcement)
      /\ Batch \in Seq(Announcement) /\ Rest \in Seq(Announcement)
      /\ Pending \in Seq(Announcement)
      /\ Unwritten \in Seq(Announcement) /\ Unprinted \in Seq(Announcement)
  BY LinesTyped
<1>2. /\ Pending' = Append(Pending, new) /\ Batch' = Batch /\ Rest' = Rest
      /\ mainPc' = mainPc /\ file' = file /\ printed' = printed
  BY DEF Puts, outputVars
<1>3. Unwritten' = Append(Unwritten, new)
  <2>1. CASE mainPc = "append"
    <3>1. Unwritten = Batch \o Pending /\ Unwritten' = Batch' \o Pending'
      BY <1>2, <2>1 DEF Unwritten
    <3>2. Batch \o Append(Pending, new) = Append(Batch \o Pending, new)
      BY <1>1, AppendToSecond
    <3> QED BY <1>2, <3>1, <3>2
  <2>2. CASE mainPc # "append"
    BY <1>2, <2>2 DEF Unwritten
  <2> QED BY <2>1, <2>2
<1>4. Unprinted' = Append(Unprinted, new)
  <2>1. Unprinted = Rest \o Pending /\ Unprinted' = Rest' \o Pending'
    BY DEF Unprinted, Rest
  <2>2. Rest \o Append(Pending, new) = Append(Rest \o Pending, new)
    BY SMTT(30), <1>1, AppendToSecond
  <2> QED BY <1>2, <2>1, <2>2
<1>5. FileLine' = Append(FileLine, new)
  <2>1. FileLine = file \o Unwritten /\ FileLine' = file' \o Unwritten'
    BY DEF FileLine
  <2>2. file \o Append(Unwritten, new) = Append(file \o Unwritten, new)
    BY <1>1, AppendToSecond
  <2> QED BY <1>2, <1>3, <2>1, <2>2
<1>6. TerminalLine' = Append(TerminalLine, new)
  <2>1. TerminalLine = printed \o Unprinted /\ TerminalLine' = printed' \o Unprinted'
    BY DEF TerminalLine
  <2>2. printed \o Append(Unprinted, new) = Append(printed \o Unprinted, new)
    BY SMTT(30), <1>1, AppendToSecond
  <2> QED BY <1>2, <1>4, <2>1, <2>2
<1> QED BY <1>3, <1>5, <1>6

(* More numbers do no harm to what is in order.                            *)
LEMMA InOrderMore ==
    ASSUME NEW q, InOrder(q), numbering \subseteq numbering'
    PROVE  /\ Distinct(q)
           /\ \A i \in 1 .. Len(q) :
                  /\ q[i] \in numbering'
                  /\ q[i].number = 1 \/ \E j \in 1 .. i - 1 : Follows(q[i], q[j])
  BY DEF InOrder

LEMMA FileStep ==
    ASSUME TypeOK, TypeOK', PlaceInv, BufferInv, BufferInv', NumbersInv, FreshInv, FileInv,
           [Next]_vars
    PROVE  FileInv'
<1>1. ToFile' = ToFile /\ numbering \subseteq numbering'
  BY SessionStays, Monotone
<1>2. /\ file \in Seq(Announcement) /\ Batch \in Seq(Announcement)
      /\ Pending \in Seq(Announcement) /\ numbering \subseteq Announcement
      /\ FileLine \in Seq(Announcement)
  BY LinesTyped
<1>3. ASSUME file' = file
      PROVE  InOrder(file)'
  BY <1>1, <1>3, InOrderMore DEF InOrder, FileInv
<1>4. Ordered(FileLine, numbering, Announcement) \/ ~ToFile \/ fileFailed
  BY FileForm DEF FileInv
<1>5. SUFFICES /\ InOrder(file)'
               /\ Ordered(FileLine', numbering', Announcement) \/ ~ToFile \/ fileFailed'
  BY <1>1, FileFormNext DEF FileInv
<1>6. ASSUME NEW w \in Workers, Puts(w)
      PROVE  /\ InOrder(file)'
             /\ Ordered(FileLine', numbering', Announcement) \/ ~ToFile \/ fileFailed'
  <2>1. PICK new : new = Numbering(Found(w))
    OBVIOUS
  <2>2. TakesNumber(w) /\ file' = file /\ fileFailed' = fileFailed
    BY <1>6 DEF Puts, outputVars
  <2>3. /\ new \in Announcement /\ numbering' = numbering \union {new}
        /\ \A r \in numbering : ~(r.kind = new.kind /\ r.number = new.number)
        /\ new.number = 1 \/ \E r \in numbering : Follows(new, r)
    BY <2>1, <2>2, NewLast
  <2>4. FileLine' = Append(FileLine, new)
    BY <1>6, <2>1, <2>3, PutsLines
  <2>5. Ordered(FileLine, numbering, Announcement)
        => Ordered(Append(FileLine, new), numbering \union {new}, Announcement)
    BY <1>2, <2>3, ClosedSets, OrderedAppend
  <2> QED BY <1>3, <1>4, <2>2, <2>3, <2>4, <2>5
<1>7. ASSUME NEW w \in Workers, CountsOnly(w)
      PROVE  /\ InOrder(file)'
             /\ Ordered(FileLine', numbering', Announcement) \/ ~ToFile \/ fileFailed'
  BY <1>3, <1>7 DEF CountsOnly, Suppressed, outputVars
<1>8. CASE Appends
  <2>1. FileLine = file \o (Batch \o Pending) /\ numbering' = numbering
    BY <1>8 DEF Appends, FileLine
  <2>2. FileLine' = file' \o Pending
    BY <1>8 DEF Appends, FileLine
  <2>3. CASE file' = file /\ fileFailed' = fileFailed /\ ~ToAppend
    BY <1>3, <2>3 DEF ToAppend
  <2>4. CASE file' = file \o Batch /\ fileFailed' = fileFailed /\ ToAppend
    <3>1. (file \o Batch) \o Pending = file \o (Batch \o Pending)
      BY <1>2, ConcatAssociative
    <3>2. FileLine' = FileLine
      BY <2>1, <2>2, <2>4, <3>1
    <3>3. InOrder(FileLine)
      BY <2>4 DEF FileInv, ToAppend
    <3>4. PICK f : f = file'
      OBVIOUS
    <3>5. /\ f \in Seq(Announcement) /\ Len(f) <= Len(FileLine)
          /\ \A i \in 1 .. Len(f) : f[i] = FileLine[i]
      <4>1. PICK p : p = Pending
        OBVIOUS
      <4>2. PICK b : b = Batch
        OBVIOUS
      <4>3. f = file \o b /\ FileLine = f \o p
        BY <2>1, <2>4, <3>1, <3>4, <4>1, <4>2
      <4>4. f \in Seq(Announcement) /\ p \in Seq(Announcement)
        BY <1>2, <4>1, <4>2, <4>3, ConcatProperties
      <4> QED BY <4>3, <4>4, ConcatProperties
    <3>6. InOrder(f)
      BY <1>2, <3>3, <3>5, OrderOfPrefix
    <3>7. InOrder(file)'
      BY <2>1, <3>4, <3>6 DEF InOrder
    <3> QED BY <1>4, <2>1, <2>4, <3>2, <3>7
  <2>5. ASSUME ToAppend, fileFailed', NEW n \in 0 .. Len(Batch),
               file' = file \o SubSeq(Batch, 1, n)
        PROVE  InOrder(file)'
    <3>1. PICK f : f = file'
      OBVIOUS
    <3>2. PICK g : g = FileLine
      OBVIOUS
    <3>3. PICK p : p = Pending
      OBVIOUS
    <3>4. PICK b : b = Batch
      OBVIOUS
    <3>5. /\ f = file \o SubSeq(b, 1, n) /\ g = file \o (b \o p) /\ n \in 0 .. Len(b)
          /\ b \in Seq(Announcement) /\ p \in Seq(Announcement) /\ g \in Seq(Announcement)
      BY <1>2, <2>1, <2>5, <3>1, <3>2, <3>3, <3>4
    <3>6. f \in Seq(Announcement) /\ Len(f) <= Len(g) /\ \A i \in 1 .. Len(f) : f[i] = g[i]
      <4>1. PICK s : s = SubSeq(b, 1, n)
        OBVIOUS
      <4>2. PICK t : t = b \o p
        OBVIOUS
      <4>3. /\ s \in Seq(Announcement) /\ t \in Seq(Announcement) /\ Len(s) <= Len(t)
            /\ \A i \in 1 .. Len(s) : s[i] = t[i]
        BY <3>5, <4>1, <4>2, PrefixOfBatch
      <4>4. f = file \o s /\ g = file \o t
        BY <3>5, <4>1, <4>2
      <4> QED BY <1>2, <4>3, <4>4, PrefixOfLine
    <3>7. InOrder(g)
      BY <2>5, <3>2 DEF FileInv, ToAppend
    <3>8. InOrder(f)
      BY <3>5, <3>6, <3>7, OrderOfPrefix
    <3> QED BY <2>1, <3>1, <3>8 DEF InOrder
  <2> QED BY <1>8, <2>3, <2>4, <2>5 DEF Appends
<1>9. CASE Prints \/ LinesStay
  <2>1. UNCHANGED <<Unwritten, file, fileFailed, numbering>>
    BY <1>9 DEF Prints, LinesStay, outputVars
  <2>2. FileLine' = FileLine
    BY <2>1 DEF FileLine
  <2> QED BY <1>3, <1>4, <2>1, <2>2
<1> QED BY <1>6, <1>7, <1>8, <1>9, OutputFrame

LEMMA TerminalStep ==
    ASSUME TypeOK, TypeOK', PlaceInv, BufferInv, BufferInv', NumbersInv, FreshInv, TerminalInv,
           [Next]_vars
    PROVE  TerminalInv'
<1>1. /\ printed \in Seq(Announcement) /\ Unprinted \in Seq(Announcement)
      /\ numbering \subseteq Announcement /\ TerminalLine \in Seq(Announcement)
      /\ TerminalLine = printed \o Unprinted /\ TerminalLine' = printed' \o Unprinted'
  BY LinesTyped DEF TerminalLine
<1>2. Unprinted' \in Seq(Announcement)
  BY LinesTypedNext
<1>3. PrintLimit' = PrintLimit /\ PrintLimit \in Nat
  BY SessionStays, SessionTyped DEF TypeOK
<1>4. Printable' = Printable /\ \A i : (ToPrint(i))' <=> ToPrint(i)
  BY <1>3 DEF Printable, ToPrint
<1>5. /\ \A i \in 1 .. Len(printed) : ToPrint(printed[i])
      /\ Ordered(TerminalLine, numbering, Printable)
  BY TerminalForm
<1>6. SUFFICES /\ \A i \in 1 .. Len(printed') : ToPrint(printed'[i])
               /\ Ordered(TerminalLine', numbering', Printable)
  <2>1. (\A i \in 1 .. Len(printed) : ToPrint(printed[i]))'
        <=> \A i \in 1 .. Len(printed') : ToPrint(printed'[i])
    BY <1>3 DEF ToPrint
  <2>2. Ordered(TerminalLine, numbering, Printable)'
        <=> Ordered(TerminalLine', numbering', Printable)
    BY <1>4 DEF Ordered
  <2> QED BY <1>6, <2>1, <2>2, TerminalFormNext
<1>7. ASSUME NEW w \in Workers, Puts(w)
      PROVE  /\ \A i \in 1 .. Len(printed') : ToPrint(printed'[i])
             /\ Ordered(TerminalLine', numbering', Printable)
  <2>1. PICK new : new = Numbering(Found(w))
    OBVIOUS
  <2>2. TakesNumber(w) /\ printed' = printed
    BY <1>7 DEF Puts, outputVars
  <2>3. /\ new \in Announcement /\ numbering' = numbering \union {new}
        /\ \A r \in numbering : ~(r.kind = new.kind /\ r.number = new.number)
        /\ new.number = 1 \/ \E r \in numbering : Follows(new, r)
    BY <2>1, <2>2, NewLast
  <2>4. TerminalLine' = Append(TerminalLine, new)
    BY <1>7, <2>1, <2>3, PutsLines
  <2>5. Ordered(Append(TerminalLine, new), numbering \union {new}, Printable)
    BY <1>1, <1>5, <2>3, ClosedSets, OrderedAppend
  <2> QED BY <1>5, <2>2, <2>3, <2>4, <2>5
<1>8. ASSUME NEW w \in Workers, CountsOnly(w)
      PROVE  /\ \A i \in 1 .. Len(printed') : ToPrint(printed'[i])
             /\ Ordered(TerminalLine', numbering', Printable)
  <2>1. PICK new : new = Numbering(Found(w))
    OBVIOUS
  <2>2. TakesNumber(w) /\ printed' = printed /\ Unprinted' = Unprinted /\ Suppressed(Found(w))
    BY <1>8 DEF CountsOnly, outputVars
  <2>3. /\ numbering' = numbering \union {new}
        /\ new.number = total[Kind(Found(w))] + 1 /\ total[Kind(Found(w))] \in Nat
    BY <2>1, <2>2, NewLast
  <2>4. ~ToPrint(new)
    BY <1>3, <2>2, <2>3 DEF Suppressed, ToPrint
  <2>5. Ordered(TerminalLine, numbering \union {new}, Printable)
    BY <1>5, <2>4, OrderedMore DEF Printable
  <2>6. TerminalLine' = TerminalLine
    BY <1>1, <2>2
  <2> QED BY <1>5, <2>2, <2>3, <2>5, <2>6
<1>9. CASE Prints
  <2>1. PICK item \in Announcement :
            /\ Unprinted = <<item>> \o Unprinted'
            /\ printed' = IF ToPrint(item) THEN Append(printed, item) ELSE printed
    BY <1>9 DEF Prints
  <2>2. numbering' = numbering
    BY <1>9 DEF Prints
  <2>3. PICK u : u = Unprinted'
    OBVIOUS
  <2>4. PICK p : p = printed
    OBVIOUS
  <2>5. /\ u \in Seq(Announcement) /\ p \in Seq(Announcement)
        /\ TerminalLine = p \o (<<item>> \o u)
    BY <1>1, <1>2, <2>1, <2>3, <2>4
  <2>6. CASE ToPrint(item)
    <3>1. printed' = Append(p, item)
      BY <2>1, <2>4, <2>6
    <3>2. \A i \in 1 .. Len(printed') : ToPrint(printed'[i])
      <4>1. \A i \in 1 .. Len(p) : ToPrint(p[i])
        BY <1>5, <2>4
      <4>2. /\ Len(Append(p, item)) = Len(p) + 1 /\ Append(p, item)[Len(p) + 1] = item
            /\ \A i \in 1 .. Len(p) : Append(p, item)[i] = p[i]
        BY <2>5, AppendProperties
      <4>3. \A i \in 1 .. Len(p) + 1 : i \in 1 .. Len(p) \/ i = Len(p) + 1
        BY <2>5
      <4> QED BY <2>6, <3>1, <4>1, <4>2, <4>3
    <3>3. Append(p, item) \o u = p \o (<<item>> \o u)
      <4>1. PICK y : y = <<item>>
        OBVIOUS
      <4>2. y \in Seq(Announcement) /\ Append(p, item) = p \o y
        BY <2>5, <4>1, AppendIsConcat
      <4>3. (p \o y) \o u = p \o (y \o u)
        BY SMTT(30), <2>5, <4>2, ConcatAssociative
      <4> QED BY <4>1, <4>2, <4>3
    <3>4. TerminalLine' = TerminalLine
      BY <1>1, <2>3, <2>5, <3>1, <3>3
    <3> QED BY <1>5, <2>2, <3>2, <3>4
  <2>7. CASE ~ToPrint(item)
    <3>1. printed' = p
      BY <2>1, <2>4, <2>7
    <3>2. item \notin Printable
      BY <2>7 DEF Printable
    <3>3. Ordered(p \o (<<item>> \o u), numbering, Printable)
      BY <1>5, <2>5
    <3>4. Ordered(p \o u, numbering, Printable)
      BY <1>1, <2>5, <3>2, <3>3, ClosedSets, OrderedWithout
    <3>5. TerminalLine' = p \o u
      BY <1>1, <2>3, <3>1
    <3> QED BY <1>5, <2>2, <2>4, <3>1, <3>4, <3>5
  <2> QED BY <2>6, <2>7
<1>10. CASE Appends \/ LinesStay
  <2>1. UNCHANGED <<printed, Unprinted, numbering>>
    BY <1>10 DEF Appends, LinesStay, outputVars
  <2> QED BY <1>1, <1>5, <2>1
<1> QED BY <1>7, <1>8, <1>9, <1>10, OutputFrame

(* The symmetric entries of a batch are as many as it has places for them. *)
LEMMA SymmetricCount ==
    ASSUME TypeOK, NEW b \in Seq(Announcement), Distinct(b), Items(b) \subseteq numbering
    PROVE  /\ IsFiniteSet(SymmetricNumbered \cap Items(b))
           /\ Cardinality(SymmetricNumbered \cap Items(b)) = SymmetricIn(b)
<1> DEFINE At == {i \in 1 .. Len(b) : b[i].kind = "PERMUTATION_FAIR" /\ b[i].encoding \in Symmetric}
           f == [i \in At |-> b[i]]
           T == SymmetricNumbered \cap Items(b)
<1>1. IsFiniteSet(At)
  <2>1. Len(b) \in Nat
    OBVIOUS
  <2>2. IsFiniteSet(1 .. Len(b))
    BY <2>1, FS_Interval
  <2> QED BY <2>2, FS_Subset
<1>2. \A i \in At : b[i] \in T
  BY DEF SymmetricNumbered, Items
<1>3. \A r \in T : \E i \in At : b[i] = r
  BY DEF SymmetricNumbered, Items
<1>4. \A i, j \in At : b[i] = b[j] => i = j
  BY DEF Distinct
<1> HIDE DEF At, T
<1>5. f \in Bijection(At, T)
  <2>1. f \in [At -> T] /\ \A i \in At : f[i] = b[i]
    BY <1>2
  <2>2. f \in Injection(At, T)
    BY <1>4, <2>1 DEF Injection, IsInjective
  <2>3. f \in Surjection(At, T)
    BY <1>3, <2>1 DEF Surjection
  <2> QED BY <2>2, <2>3 DEF Bijection
<1>6. IsFiniteSet(T) /\ Cardinality(T) = Cardinality(At)
  BY <1>1, <1>5, FS_Bijection DEF ExistsBijection
<1> QED BY <1>6 DEF SymmetricIn, At, T

LEMMA ItemsOfTwo ==
    ASSUME NEW b \in Seq(Announcement), NEW p \in Seq(Announcement), Distinct(b \o p)
    PROVE  /\ Items(b \o p) = Items(b) \union Items(p) /\ Items(b) \cap Items(p) = {}
           /\ Distinct(b)
<1> DEFINE q == b \o p
<1>1. /\ Len(b) \in Nat /\ Len(p) \in Nat /\ Len(q) = Len(b) + Len(p)
      /\ \A i \in 1 .. Len(b) : i \in 1 .. Len(q) /\ q[i] = b[i]
  BY ConcatProperties
<1>2. ASSUME NEW i \in 1 .. Len(p)
      PROVE  Len(b) + i \in 1 .. Len(q) /\ q[Len(b) + i] = p[i]
  <2>1. Len(b) + i \in 1 .. Len(b) + Len(p) /\ ~(Len(b) + i <= Len(b)) /\ Len(b) + i - Len(b) = i
    BY <1>1
  <2> QED BY <1>1, <2>1, ConcatProperties
<1>3. ASSUME NEW i \in 1 .. Len(q)
      PROVE  i \in 1 .. Len(b) \/ \E j \in 1 .. Len(p) : i = Len(b) + j
  <2>1. i \in 1 .. Len(b) \/ (i - Len(b) \in 1 .. Len(p) /\ i = Len(b) + (i - Len(b)))
    BY <1>1
  <2> QED BY <2>1
<1>4. Distinct(q)
  OBVIOUS
<1> HIDE DEF q
<1>5. Items(q) = Items(b) \union Items(p)
  <2>1. ASSUME NEW i \in 1 .. Len(q)
        PROVE  q[i] \in Items(b) \union Items(p)
    BY <1>1, <1>2, <1>3 DEF Items
  <2>2. ASSUME NEW i \in 1 .. Len(b)
        PROVE  b[i] \in Items(q)
    BY <1>1 DEF Items
  <2>3. ASSUME NEW i \in 1 .. Len(p)
        PROVE  p[i] \in Items(q)
    BY <1>2 DEF Items
  <2> QED BY <2>1, <2>2, <2>3 DEF Items
<1>6. ASSUME NEW i \in 1 .. Len(b), NEW j \in 1 .. Len(p), b[i] = p[j]
      PROVE  FALSE
  <2>1. PICK k \in 1 .. Len(q) : k = Len(b) + j /\ q[k] = p[j]
    BY <1>2
  <2>2. i \in 1 .. Len(q) /\ q[i] = q[k]
    BY <1>1, <1>6, <2>1
  <2>3. i = k
    BY <1>4, <2>2 DEF Distinct
  <2> QED BY <1>1, <2>1, <2>3
<1>7. Distinct(b)
  BY <1>1, <1>4 DEF Distinct
<1> QED BY <1>5, <1>6, <1>7 DEF Items, q

(* The part of a line in order behind a place is in order of numbers.      *)
LEMMA DistinctRest ==
    ASSUME NEW p \in Seq(Announcement), NEW u \in Seq(Announcement), Distinct(p \o u),
           Items(p \o u) \subseteq numbering
    PROVE  Distinct(u) /\ Items(u) \subseteq numbering
<1> DEFINE q == p \o u
<1>1. ASSUME NEW i \in 1 .. Len(u)
      PROVE  Len(p) + i \in 1 .. Len(q) /\ q[Len(p) + i] = u[i]
  <2>1. /\ Len(p) + i \in 1 .. Len(p) + Len(u) /\ ~(Len(p) + i <= Len(p))
        /\ Len(p) + i - Len(p) = i
    OBVIOUS
  <2> QED BY <2>1, ConcatProperties
<1>2. Distinct(q) /\ Items(q) \subseteq numbering
  OBVIOUS
<1> HIDE DEF q
<1>3. Len(p) \in Nat /\ Len(u) \in Nat
  OBVIOUS
<1>4. ASSUME NEW i \in 1 .. Len(u), NEW j \in 1 .. Len(u),
             u[i].kind = u[j].kind, u[i].number = u[j].number
      PROVE  i = j
  <2>1. PICK k \in 1 .. Len(q) : k = Len(p) + i /\ q[k] = u[i]
    BY <1>1
  <2>2. PICK l \in 1 .. Len(q) : l = Len(p) + j /\ q[l] = u[j]
    BY <1>1
  <2>3. k = l
    BY <1>2, <1>4, <2>1, <2>2 DEF Distinct
  <2> QED BY <1>3, <2>1, <2>2, <2>3
<1>5. Items(u) \subseteq numbering
  BY <1>1, <1>2 DEF Items
<1> QED BY <1>4, <1>5 DEF Distinct

LEMMA MirroredStep ==
    ASSUME TypeOK, TypeOK', PlaceInv, BufferInv, BufferInv', NumbersInv, FreshInv, TerminalInv,
           MirroredInv, [Next]_vars
    PROVE  MirroredInv'
<1>1. /\ Batch \in Seq(Announcement) /\ Pending \in Seq(Announcement)
      /\ Unwritten \in Seq(Announcement) /\ printed \in Seq(Announcement)
      /\ Unprinted \in Seq(Announcement) /\ numbering \subseteq Announcement
  BY LinesTyped
<1>2. SUFFICES ASSUME ~FullMirror
               PROVE  mirrored' = Cardinality(SymmetricNumbered' \ Items(Unwritten)')
  BY DEF MirroredInv
<1>3. mirrored = Cardinality(SymmetricNumbered \ Items(Unwritten))
  BY <1>2 DEF MirroredInv
<1>4. ASSUME NEW w \in Workers, Puts(w)
      PROVE  mirrored' = Cardinality(SymmetricNumbered' \ Items(Unwritten)')
  <2>1. PICK new : new = Numbering(Found(w))
    OBVIOUS
  <2>2. TakesNumber(w) /\ mirrored' = mirrored
    BY <1>4 DEF Puts, outputVars
  <2>3. new \in Announcement /\ new \notin numbering /\ numbering' = numbering \union {new}
    BY <2>1, <2>2, NewLast
  <2>4. Unwritten' = Append(Unwritten, new)
    BY <1>4, <2>1, <2>3, PutsLines
  <2>5. Items(Unwritten)' = Items(Unwritten) \union {new}
    <3>1. PICK u : u = Unwritten
      OBVIOUS
    <3>2. /\ Len(Append(u, new)) = Len(u) + 1 /\ Append(u, new)[Len(u) + 1] = new
          /\ \A i \in 1 .. Len(u) : Append(u, new)[i] = u[i]
      BY <1>1, <2>3, <3>1, AppendProperties
    <3>3. 1 .. Len(u) + 1 = (1 .. Len(u)) \union {Len(u) + 1}
      BY <1>1, <3>1
    <3> QED BY <2>4, <3>1, <3>2, <3>3 DEF Items
  <2>6. SymmetricNumbered' \ Items(Unwritten)' = SymmetricNumbered \ Items(Unwritten)
    BY <2>3, <2>5 DEF SymmetricNumbered
  <2> QED BY <1>3, <2>2, <2>6
<1>5. ASSUME NEW w \in Workers, CountsOnly(w)
      PROVE  mirrored' = Cardinality(SymmetricNumbered' \ Items(Unwritten)')
  <2>1. PICK new : new = Numbering(Found(w))
    OBVIOUS
  <2>2. /\ TakesNumber(w) /\ mirrored' = mirrored /\ Unwritten' = Unwritten
        /\ Suppressed(Found(w))
    BY <1>5 DEF CountsOnly, outputVars
  <2>3. numbering' = numbering \union {new} /\ new.kind = Kind(Found(w))
    BY <2>1, <2>2, NewLast
  <2>4. new.kind # "PERMUTATION_FAIR"
    BY <1>2, <2>2, <2>3 DEF Suppressed
  <2>5. SymmetricNumbered' = SymmetricNumbered
    BY <2>3, <2>4 DEF SymmetricNumbered
  <2> QED BY <1>3, <2>2, <2>5 DEF Items
<1>6. CASE Appends
  <2>1. /\ Unwritten = Batch \o Pending /\ Unwritten' = Pending /\ mainPc = "append"
        /\ numbering' = numbering /\ mirrored' = mirrored + SymmetricIn(Batch)
    BY <1>2, <1>6 DEF Appends
  <2>2. Unprinted = Batch \o Pending
    <3>1. shown = 0
      BY <2>1 DEF BufferInv
    <3> QED BY <3>1 DEF Unprinted, Batch
  <2>3. Distinct(Unprinted) /\ Items(Unprinted) \subseteq numbering
    <3>1. Distinct(printed \o Unprinted) /\ Items(printed \o Unprinted) \subseteq numbering
      BY DEF TerminalInv, TerminalLine, Items
    <3> QED BY <1>1, <3>1, DistinctRest
  <2>4. /\ Items(Unwritten) = Items(Batch) \union Items(Pending)
        /\ Items(Batch) \cap Items(Pending) = {} /\ Distinct(Batch)
    BY <1>1, <2>1, <2>2, <2>3, ItemsOfTwo
  <2>5. Items(Batch) \subseteq numbering
    BY <2>1, <2>2, <2>3, <2>4
  <2> DEFINE A == SymmetricNumbered \ Items(Unwritten)
             B == SymmetricNumbered \cap Items(Batch)
  <2>6. IsFiniteSet(B) /\ Cardinality(B) = SymmetricIn(Batch)
    BY <1>1, <2>4, <2>5, SymmetricCount
  <2>7. IsFiniteSet(A)
    <3>1. IsFiniteSet(numbering) /\ A \subseteq numbering
      BY DEF NumbersInv, SymmetricNumbered
    <3> QED BY <3>1, FS_Subset
  <2>8. A \cap B = {} /\ SymmetricNumbered \ Items(Pending) = A \union B
    BY <2>4, <2>5
  <2>9. SymmetricNumbered' \ Items(Unwritten)' = SymmetricNumbered \ Items(Pending)
    BY <2>1 DEF SymmetricNumbered, Items
  <2> HIDE DEF A, B
  <2>10. Cardinality(A \union B) = Cardinality(A) + Cardinality(B)
    <3>1. Cardinality(A \union B) = Cardinality(A) + Cardinality(B) - Cardinality(A \cap B)
      BY <2>6, <2>7, FS_Union
    <3>2. Cardinality(A) \in Nat /\ Cardinality(B) \in Nat /\ Cardinality(A \cap B) = 0
      BY <2>6, <2>7, <2>8, FS_CardinalityType, FS_EmptySet
    <3> QED BY <3>1, <3>2
  <2> QED BY <1>3, <2>1, <2>6, <2>8, <2>9, <2>10 DEF A
<1>7. CASE Prints \/ LinesStay
  <2>1. UNCHANGED <<Unwritten, mirrored, numbering>>
    BY <1>7 DEF Prints, LinesStay, outputVars
  <2> QED BY <1>3, <2>1 DEF SymmetricNumbered, Items
<1> QED BY <1>4, <1>5, <1>6, <1>7, OutputFrame

-----------------------------------------------------------------------------
(* Jobs. *)

(* Worker w gives its job up because it is asked to stop.                  *)
Abandons(w) ==
    /\ stop /\ pc[w] \in {"enterPrefix", "prefixDone"} /\ pc' = [pc EXCEPT ![w] = "checkStop"]
    /\ UNCHANGED <<jobOrder, nextJob, jobsDone, stop, job>>

(* Jobs are in an order that names each once.                              *)
LEMMA OrderTyped ==
    ASSUME TypeOK, JobInv
    PROVE  /\ \A i \in Jobs : jobOrder[i] \in Jobs
           /\ \A j \in Jobs : \E i \in Jobs : jobOrder[i] = j
           /\ \A s, t \in Jobs : jobOrder[s] = jobOrder[t] => s = t
<1>1. CASE RandomOrder
  <2>1. jobOrder \in Surjection(Jobs, Jobs)
    BY <1>1 DEF JobInv, JobOrders, Surjection
  <2>2. jobOrder \in Injection(Jobs, Jobs)
    BY <2>1, JobsFinite, FS_SurjSameCardinalityImpliesInj
  <2> QED BY <2>1, <2>2 DEF Injection, IsInjective, Surjection
<1>2. CASE ~RandomOrder
  BY <1>2 DEF JobInv, JobOrders
<1> QED BY <1>1, <1>2

LEMMA ReturnedFinite ==
    /\ IsFiniteSet(Returned) /\ Cardinality(Returned) \in Nat
    /\ Cardinality(Returned) <= JobCount
<1>1. Returned \subseteq Jobs
  BY DEF Returned
<1> QED BY <1>1, JobsFinite, FS_Subset, FS_CardinalityType

(* A worker in a job has drawn it and is at one of its prefixes.           *)
LEMMA JobTyped ==
    ASSUME TypeOK, JobInv, NEW w \in Workers, pc[w] \in InJob
    PROVE  /\ job[w] \in Jobs /\ Drawn(job[w])
           /\ prefix[w] \in Prefixes /\ prefix[w] % JobCount = job[w]
  BY DEF TypeOK, JobInv, JobPrefixes

(* Jobs are taken and given back in three ways only.                       *)
LEMMA JobFrame ==
    ASSUME TypeOK, CreationInv, [Next]_vars
    PROVE  \/ \E u \in Workers : ClaimJob(u) \/ CountJob(u) \/ Abandons(u)
           \/ /\ UNCHANGED <<nextJob, jobsDone>>
              /\ \A v \in Workers : /\ pc'[v] \in InJob <=> pc[v] \in InJob
                                    /\ job'[v] = job[v]
<1>0. pc \in [Workers -> WorkerSteps]
  BY DEF TypeOK
<1>1. ASSUME NEW w \in Workers, WorkerStep(w) \/ CheckFails(w)
      PROVE  \/ \E u \in Workers : ClaimJob(u) \/ CountJob(u) \/ Abandons(u)
             \/ /\ UNCHANGED <<nextJob, jobsDone>>
                /\ \A v \in Workers : /\ pc'[v] \in InJob <=> pc[v] \in InJob
                                      /\ job'[v] = job[v]
  <2>1. CASE CheckStop(w)
    BY <2>1, <1>0
    DEF InJob, Working, Searching, Finding, Unnumbered, Admitted, CheckStop, Goto,
        atomics, workerVars
  <2>2. CASE ClaimJob(w)
    BY <2>2
  <2>3. CASE EnterPrefix(w)
    <3>1. CASE stop
      BY <2>3, <3>1 DEF EnterPrefix, Abandons, Goto, atomics, flags
    <3>2. CASE ~stop
      BY <2>3, <3>2, <1>0 DEF EnterPrefix, Goto, InJob, Working, Searching, Finding, Unnumbered, Admitted, atomics
    <3> QED BY <3>1, <3>2
  <2>4. CASE LeavePrefix(w)
    <3>1. CASE stop
      BY <2>4, <3>1 DEF LeavePrefix, Abandons, Goto, atomics, flags
    <3>2. CASE ~stop
      BY <2>4, <3>2, <1>0 DEF LeavePrefix, Goto, InJob, Working, Searching, Finding, Unnumbered, Admitted, atomics
    <3> QED BY <3>1, <3>2
  <2>5. CASE CountJob(w)
    BY <2>5
  <2>6. CASE Retire(w)
    BY <2>6, <1>0
    DEF InJob, Working, Searching, Finding, Unnumbered, Admitted, Retire, Goto,
        WakeMain, atomics, workerVars
  <2>7. CASE VisitLeaf(w)
    BY <2>7, <1>0
    DEF InJob, Working, Searching, Finding, Unnumbered, Admitted, VisitLeaf, Goto,
        atomics, workerVars
  <2>8. CASE PollStop(w)
    BY <2>8, <1>0
    DEF InJob, Working, Searching, Finding, Unnumbered, Admitted, PollStop, Goto,
        atomics, workerVars
  <2>9. CASE FinishPrefix(w)
    BY <2>9, <1>0
    DEF InJob, Working, Searching, Finding, Unnumbered, Admitted, FinishPrefix, Goto,
        atomics, workerVars
  <2>10. CASE ClaimLimit(w)
    BY <2>10, <1>0
    DEF InJob, Working, Searching, Finding, Unnumbered, Admitted, ClaimLimit, Goto,
        atomics, workerVars
  <2>11. CASE ReachLimit(w)
    BY <2>11, <1>0
    DEF InJob, Working, Searching, Finding, Unnumbered, Admitted, ReachLimit, Goto,
        atomics, workerVars
  <2>12. CASE LoadTotal(w)
    BY <2>12, <1>0
    DEF InJob, Working, Searching, Finding, Unnumbered, Admitted, LoadTotal, Goto,
        atomics, workerVars
  <2>13. CASE CountOnly(w)
    BY <2>13, <1>0
    DEF InJob, Working, Searching, Finding, Unnumbered, Admitted, CountOnly, Goto,
        TakeNumber, atomics, workerVars
  <2>14. CASE Enqueue(w)
    BY <2>14, <1>0
    DEF InJob, Working, Searching, Finding, Unnumbered, Admitted, Enqueue, Goto,
        TakeNumber, atomics, workerVars
  <2>15. CASE AwaitRoom(w)
    BY <2>15, <1>0
    DEF InJob, Working, Searching, Finding, Unnumbered, Admitted, AwaitRoom, Goto,
        atomics, workerVars
  <2>16. CASE SignalFlush(w)
    BY <2>16, <1>0
    DEF InJob, Working, Searching, Finding, Unnumbered, Admitted, SignalFlush, Goto,
        WakeMain, atomics, workerVars
  <2>17. CASE CheckFails(w)
    BY <2>17, <1>0
    DEF InJob, Working, Searching, Finding, Unnumbered, Admitted, CheckFails, atomics,
        workerVars
  <2> QED BY <1>1, <2>1, <2>2, <2>3, <2>4, <2>5, <2>6, <2>7, <2>8, <2>9, <2>10, <2>11,
      <2>12, <2>13, <2>14, <2>15, <2>16, <2>17 DEF WorkerStep
<1>2. CASE MainThread
  <2>1. CASE CreateWorker
    BY <2>1, <1>0
    DEF InJob, Working, Searching, Finding, Unnumbered, Admitted, CreateWorker,
        Activate, atomics, workerVars
  <2>2. CASE WorkerCreated
    <3>1. UNCHANGED <<nextJob, jobsDone, job>>
      BY <2>2 DEF WorkerCreated, atomics, workerVars
    <3>2. \A v \in Workers : pc'[v] = pc[v] \/ (pc[v] = "absent" /\ pc'[v] = "checkStop")
      <4>1. created \in Nat
        BY CountsTyped DEF TypeOK
      <4> QED BY <2>2, <1>0, <4>1 DEF WorkerCreated, Goto, CreationInv
    <3> QED BY <3>1, <3>2 DEF InJob, Working, Searching, Finding, Unnumbered, Admitted
  <2>3. CASE CreateFails
    BY <2>3, <1>0
    DEF InJob, Working, Searching, Finding, Unnumbered, Admitted, CreateFails, atomics,
        workerVars
  <2>4. CASE LockCompletion
    BY <2>4, <1>0
    DEF InJob, Working, Searching, Finding, Unnumbered, Admitted, LockCompletion,
        atomics, workerVars
  <2>5. CASE TestBatch
    BY <2>5, <1>0
    DEF InJob, Working, Searching, Finding, Unnumbered, Admitted, TestBatch, atomics,
        workerVars
  <2>6. CASE StartWait
    BY <2>6, <1>0
    DEF InJob, Working, Searching, Finding, Unnumbered, Admitted, StartWait, atomics,
        workerVars
  <2>7. CASE WaitExpires
    BY <2>7, <1>0
    DEF InJob, Working, Searching, Finding, Unnumbered, Admitted, WaitExpires, atomics,
        workerVars
  <2>8. CASE WakeUp
    BY <2>8, <1>0
    DEF InJob, Working, Searching, Finding, Unnumbered, Admitted, WakeUp, atomics,
        workerVars
  <2>9. CASE PollInterrupt
    BY <2>9, <1>0
    DEF InJob, Working, Searching, Finding, Unnumbered, Admitted, PollInterrupt,
        NoticeInterrupt, atomics, workerVars
  <2>10. CASE SwapBuffers
    BY <2>10, <1>0, AfterDrainCases
    DEF InJob, Working, Searching, Finding, Unnumbered, Admitted, SwapBuffers,
        WakeWaiters, atomics, workerVars
  <2>11. CASE AppendBatch
    BY <2>11, <1>0
    DEF InJob, Working, Searching, Finding, Unnumbered, Admitted, AppendBatch, atomics,
        workerVars
  <2>12. CASE PrintNext
    BY <2>12, <1>0, AfterDrainCases
    DEF InJob, Working, Searching, Finding, Unnumbered, Admitted, PrintNext, atomics,
        workerVars
  <2>13. CASE JoinWorkers
    BY <2>13, <1>0
    DEF InJob, Working, Searching, Finding, Unnumbered, Admitted, JoinWorkers, atomics,
        workerVars
  <2>14. CASE Assess
    BY <2>14, <1>0
    DEF InJob, Working, Searching, Finding, Unnumbered, Admitted, Assess, atomics,
        workerVars
  <2>15. CASE Report
    BY <2>15, <1>0, ReportStep
    DEF InJob, Working, Searching, Finding, Unnumbered, Admitted, atomics, workerVars
  <2>16. CASE Exit
    BY <2>16, <1>0, ExitStep
    DEF InJob, Working, Searching, Finding, Unnumbered, Admitted, atomics, workerVars
  <2> QED BY <1>2, <2>1, <2>2, <2>3, <2>4, <2>5, <2>6, <2>7, <2>8, <2>9, <2>10, <2>11,
      <2>12, <2>13, <2>14, <2>15, <2>16 DEF MainThread
<1>3. CASE Interrupt \/ UNCHANGED vars
  BY <1>3, <1>0
  DEF InJob, Working, Searching, Finding, Unnumbered, Admitted, Interrupt, vars,
      atomics, workerVars
<1> QED BY <1>1, <1>2, <1>3 DEF Next

LEMMA DrawnOfMover ==
    ASSUME TypeOK, TypeOK', JobInv, [Next]_vars,
           NEW w \in Workers, WorkerStep(w) \/ CheckFails(w)
    PROVE  /\ pc'[w] \in InJob => Drawn(job[w])' /\ prefix'[w] \in JobPrefixes(job'[w])
           /\ pc'[w] \in Gone => stop' \/ nextJob' >= JobCount
<1>0. /\ pc \in [Workers -> WorkerSteps] /\ job \in [Workers -> Jobs]
      /\ prefix \in [Workers -> Prefixes] /\ prefix' \in [Workers -> Prefixes]
      /\ JobCount \in Nat \ {0} /\ \A p \in Prefixes : p \in Nat
      /\ nextJob \in Nat
  BY CountsTyped DEF TypeOK
<1>1. CASE CheckStop(w)
  <2>1. pc'[w] = (IF stop THEN "retire" ELSE "claimJob") /\ stop' = stop
    BY <1>1, <1>0 DEF CheckStop, Goto, flags
  <2> QED BY <2>1 DEF Gone, InJob, Working, Searching, Finding, Unnumbered, Admitted
<1>2. CASE ClaimJob(w)
  <2>1. CASE nextJob >= JobCount \/ interrupted
    <3>1. pc'[w] = "retire"
      BY <1>2, <1>0, <2>1 DEF ClaimJob, Goto
    <3>2. nextJob' = nextJob + 1
      BY <1>2 DEF ClaimJob
    <3>3. interrupted => stop'
      BY <1>2, <2>1, Zenon DEF ClaimJob
    <3> QED BY <1>0, <2>1, <3>1, <3>2, <3>3 DEF Gone, InJob, Working, Searching, Finding, Unnumbered, Admitted
  <2>2. CASE ~(nextJob >= JobCount \/ interrupted)
    <3>1. /\ pc' = [pc EXCEPT ![w] = "enterPrefix"] /\ nextJob' = nextJob + 1
          /\ job' = [job EXCEPT ![w] = jobOrder[nextJob]]
          /\ prefix' = [prefix EXCEPT ![w] = jobOrder[nextJob]]
      BY <1>2, <2>2 DEF ClaimJob, Goto
    <3>2. nextJob \in Jobs /\ jobOrder[nextJob] \in Jobs /\ jobOrder' = jobOrder
      BY <1>2, <1>0, <2>2, OrderTyped DEF Jobs, ClaimJob
    <3>3. /\ pc'[w] = "enterPrefix" /\ job'[w] = jobOrder[nextJob]
          /\ prefix'[w] = jobOrder[nextJob] /\ nextJob < nextJob'
      BY <1>0, <3>1
    <3>4. prefix'[w] \in Prefixes /\ prefix'[w] % JobCount = job'[w]
      <4>1. jobOrder[nextJob] \in Nat /\ jobOrder[nextJob] < JobCount
        BY <1>0, <3>2 DEF Jobs
      <4>2. jobOrder[nextJob] \in Prefixes
        BY <3>2, CountsTyped
      <4> QED BY <1>0, <3>3, <4>1, <4>2, SmallRemainder
    <3> QED BY <3>2, <3>3, <3>4 DEF Drawn, JobPrefixes, Gone
  <2> QED BY <2>1, <2>2
<1>3. CASE EnterPrefix(w)
  BY <1>3, <1>0
  DEF JobInv, Drawn, Gone, InJob, Working, Searching, Finding, Unnumbered, Admitted,
      EnterPrefix, Goto, atomics, flags, workerVars, reportVars
<1>4. CASE LeavePrefix(w)
  <2>1. /\ pc[w] \in InJob /\ job' = job /\ nextJob' = nextJob /\ jobOrder' = jobOrder
    BY <1>4 DEF LeavePrefix, atomics, InJob, Working, Searching, Finding, Unnumbered, Admitted
  <2>2. pc'[w] \notin Gone
    BY <1>4, <1>0 DEF LeavePrefix, Goto, Gone
  <2>3. CASE pc'[w] \in InJob
    <3>1. prefix'[w] = prefix[w] \/ prefix'[w] = prefix[w] + JobCount
      BY <1>4, <1>0 DEF LeavePrefix, NextInStride
    <3>2. prefix[w] \in Nat /\ prefix[w] % JobCount = job[w] /\ Drawn(job[w])
      BY <1>0, <2>1, JobTyped
    <3>3. prefix'[w] % JobCount = job[w]
      BY <1>0, <3>1, <3>2, StrideKeepsRemainder
    <3> QED BY <1>0, <2>1, <2>2, <3>2, <3>3 DEF Drawn, JobPrefixes
  <2> QED BY <2>2, <2>3
<1>5. CASE CountJob(w)
  BY <1>5, <1>0
  DEF JobInv, Drawn, Gone, InJob, Working, Searching, Finding, Unnumbered, Admitted,
      CountJob, Goto, atomics, flags, workerVars, reportVars
<1>6. CASE Retire(w)
  <2>1. pc[w] = "retire" /\ pc'[w] = "exited" /\ stop' = stop /\ nextJob' = nextJob
    BY <1>6, <1>0 DEF Retire, Goto, flags, atomics
  <2> QED BY <2>1 DEF JobInv, Gone, InJob, Working, Searching, Finding, Unnumbered, Admitted
<1>7. CASE VisitLeaf(w)
  BY <1>7, <1>0
  DEF JobInv, Drawn, Gone, InJob, Working, Searching, Finding, Unnumbered, Admitted,
      VisitLeaf, Goto, atomics, flags, workerVars, reportVars
<1>8. CASE PollStop(w)
  BY <1>8, <1>0
  DEF JobInv, Drawn, Gone, InJob, Working, Searching, Finding, Unnumbered, Admitted,
      PollStop, Goto, atomics, flags, workerVars, reportVars
<1>9. CASE FinishPrefix(w)
  BY <1>9, <1>0
  DEF JobInv, Drawn, Gone, InJob, Working, Searching, Finding, Unnumbered, Admitted,
      FinishPrefix, Goto, atomics, flags, workerVars, reportVars
<1>10. CASE ClaimLimit(w)
  BY <1>10, <1>0
  DEF JobInv, Drawn, Gone, InJob, Working, Searching, Finding, Unnumbered, Admitted,
      ClaimLimit, Goto, atomics, flags, workerVars, reportVars
<1>11. CASE ReachLimit(w)
  BY <1>11, <1>0
  DEF JobInv, Drawn, Gone, InJob, Working, Searching, Finding, Unnumbered, Admitted,
      ReachLimit, Goto, atomics, flags, workerVars, reportVars
<1>12. CASE LoadTotal(w)
  BY <1>12, <1>0
  DEF JobInv, Drawn, Gone, InJob, Working, Searching, Finding, Unnumbered, Admitted,
      LoadTotal, Goto, atomics, flags, workerVars, reportVars
<1>13. CASE CountOnly(w)
  BY <1>13, <1>0
  DEF JobInv, Drawn, Gone, InJob, Working, Searching, Finding, Unnumbered, Admitted,
      CountOnly, Goto, TakeNumber, atomics, flags, workerVars, reportVars
<1>14. CASE Enqueue(w)
  BY <1>14, <1>0
  DEF JobInv, Drawn, Gone, InJob, Working, Searching, Finding, Unnumbered, Admitted,
      Enqueue, Goto, TakeNumber, atomics, flags, workerVars, reportVars
<1>15. CASE AwaitRoom(w)
  BY <1>15, <1>0
  DEF JobInv, Drawn, Gone, InJob, Working, Searching, Finding, Unnumbered, Admitted,
      AwaitRoom, Goto, atomics, flags, workerVars, reportVars
<1>16. CASE SignalFlush(w)
  BY <1>16, <1>0
  DEF JobInv, Drawn, Gone, InJob, Working, Searching, Finding, Unnumbered, Admitted,
      SignalFlush, Goto, WakeMain, atomics, flags, workerVars, reportVars
<1>17. CASE CheckFails(w)
  BY <1>17, <1>0
  DEF JobInv, Drawn, Gone, InJob, Working, Searching, Finding, Unnumbered, Admitted,
      CheckFails, atomics, flags, workerVars, reportVars
<1> QED BY <1>1, <1>2, <1>3, <1>4, <1>5, <1>6, <1>7, <1>8, <1>9, <1>10, <1>11, <1>12,
    <1>13, <1>14, <1>15, <1>16, <1>17 DEF WorkerStep

LEMMA JobStep ==
    ASSUME TypeOK, TypeOK', CreationInv, JobInv, [Next]_vars
    PROVE  JobInv'
<1>1. jobOrder' = jobOrder /\ RandomOrder' = RandomOrder /\ JobCount \in Nat \ {0}
  BY SessionStays, CountsTyped
<1>2. /\ nextJob \in Nat /\ nextJob' \in Nat /\ nextJob' >= nextJob /\ jobsDone \in Nat
      /\ (stop => stop') /\ stop \in BOOLEAN /\ stop' \in BOOLEAN
      /\ \A w \in Workers : job[w] \in Jobs
  <2>1. (stop => stop') /\ nextJob' >= nextJob
    BY Monotone
  <2>2. jobsDone \in 0 .. JobCount /\ \A w \in Workers : job[w] \in Jobs
    BY DEF TypeOK
  <2> QED BY <1>1, <2>1, <2>2 DEF TypeOK
<1>3. jobOrder' \in JobOrders'
  <2>1. JobOrders' = JobOrders
    BY <1>1 DEF JobOrders
  <2> QED BY <1>1, <2>1 DEF JobInv
<1>4. \A w \in Workers : /\ pc'[w] \in InJob => Drawn(job[w])' /\ prefix'[w] \in JobPrefixes(job'[w])
                         /\ pc'[w] \in Gone => stop' \/ nextJob' >= JobCount
  <2>1. ASSUME NEW v \in Workers, pc'[v] = pc[v], job'[v] = job[v], prefix'[v] = prefix[v]
        PROVE  /\ pc'[v] \in InJob => Drawn(job[v])' /\ prefix'[v] \in JobPrefixes(job'[v])
               /\ pc'[v] \in Gone => stop' \/ nextJob' >= JobCount
    <3>1. /\ pc[v] \in InJob => Drawn(job[v]) /\ prefix[v] \in JobPrefixes(job[v])
          /\ pc[v] \in Gone => stop \/ nextJob >= JobCount
      BY DEF JobInv
    <3>2. Drawn(job[v]) => Drawn(job[v])'
      BY <1>1, <1>2, <2>1 DEF Drawn, Jobs
    <3> QED BY <1>1, <1>2, <2>1, <3>1, <3>2
  <2>2. ASSUME NEW w \in Workers, WorkerStep(w) \/ CheckFails(w), NEW v \in Workers
        PROVE  /\ pc'[v] \in InJob => Drawn(job[v])' /\ prefix'[v] \in JobPrefixes(job'[v])
               /\ pc'[v] \in Gone => stop' \/ nextJob' >= JobCount
    <3>1. CASE v = w
      BY <2>2, <3>1, DrawnOfMover
    <3>2. CASE v # w
      BY <2>1, <2>2, <3>2, OthersStay DEF Same
    <3> QED BY <3>1, <3>2
  <2>3. ASSUME MainThread \/ Interrupt \/ UNCHANGED vars, NEW v \in Workers
        PROVE  /\ pc'[v] \in InJob => Drawn(job[v])' /\ prefix'[v] \in JobPrefixes(job'[v])
               /\ pc'[v] \in Gone => stop' \/ nextJob' >= JobCount
    <3>1. UNCHANGED <<job, prefix>>
      BY <2>3, MainKeeps DEF workerVars
    <3>2. CASE pc'[v] = pc[v]
      BY <2>1, <3>1, <3>2
    <3>3. CASE pc[v] = "waiting" /\ pc'[v] = "enqueue"
      <4>1. pc[v] \in InJob /\ pc'[v] \notin Gone
        BY <3>3 DEF InJob, Working, Searching, Finding, Unnumbered, Admitted, Gone
      <4>2. Drawn(job[v]) /\ prefix[v] \in JobPrefixes(job[v])
        BY <4>1 DEF JobInv
      <4>3. Drawn(job[v])'
        BY <1>1, <1>2, <3>1, <4>2 DEF Drawn, Jobs
      <4> QED BY <3>1, <4>1, <4>2, <4>3
    <3>4. CASE pc'[v] = "checkStop"
      BY <3>4 DEF InJob, Working, Searching, Finding, Unnumbered, Admitted, Gone
    <3> QED BY <2>3, <3>2, <3>3, <3>4, MainKeeps
  <2> QED BY <2>2, <2>3 DEF Next
<1>5. /\ IsFiniteSet(Returned) /\ Cardinality(Returned) \in Nat
      /\ jobsDone <= Cardinality(Returned) /\ (stop \/ jobsDone = Cardinality(Returned))
      /\ \A v, w \in Workers :
             pc[v] \in InJob /\ pc[w] \in InJob /\ job[v] = job[w] => v = w
  BY ReturnedFinite DEF JobInv
<1>6. SUFFICES /\ \A v, w \in Workers :
                      pc'[v] \in InJob /\ pc'[w] \in InJob /\ job'[v] = job'[w] => v = w
               /\ jobsDone' <= Cardinality(Returned')
               /\ stop' \/ jobsDone' = Cardinality(Returned')
  BY <1>3, <1>4 DEF JobInv
<1>7. ASSUME NEW w \in Workers, ClaimJob(w), ~(nextJob >= JobCount \/ interrupted)
      PROVE  /\ \A u, v \in Workers :
                    pc'[u] \in InJob /\ pc'[v] \in InJob /\ job'[u] = job'[v] => u = v
             /\ jobsDone' <= Cardinality(Returned')
             /\ stop' \/ jobsDone' = Cardinality(Returned')
  <2>1. /\ pc' = [pc EXCEPT ![w] = "enterPrefix"] /\ nextJob' = nextJob + 1
        /\ job' = [job EXCEPT ![w] = jobOrder[nextJob]]
        /\ pc[w] = "claimJob" /\ UNCHANGED <<jobsDone, stop>>
    BY <1>7 DEF ClaimJob, Goto
  <2>2. PICK n : n = nextJob
    OBVIOUS
  <2>3. n \in Jobs /\ jobOrder[n] \in Jobs /\ ~Drawn(jobOrder[n])
    <3>1. n \in Jobs
      BY <1>1, <1>2, <1>7, <2>2 DEF Jobs
    <3> QED BY <1>2, <2>2, <3>1, OrderTyped DEF Drawn
  <2>4. \A v \in Workers : IF v = w THEN pc'[v] \in InJob /\ job'[v] = jobOrder[n]
                                    ELSE pc'[v] = pc[v] /\ job'[v] = job[v]
    BY <2>1, <2>2 DEF TypeOK, InJob
  <2>5. \A v \in Workers : pc[v] \in InJob => job[v] # jobOrder[n]
    BY <2>3 DEF JobInv
  <2>6. \A u, v \in Workers :
            pc'[u] \in InJob /\ pc'[v] \in InJob /\ job'[u] = job'[v] => u = v
    BY <1>5, <2>4, <2>5
  <2>7. pc[w] \notin InJob
    BY <2>1 DEF InJob, Working, Searching, Finding, Unnumbered, Admitted
  <2>8. \A j \in Jobs : Held(j)' <=> Held(j) \/ j = jobOrder[n]
    BY <2>4, <2>7 DEF Held
  <2>9. \A j \in Jobs : Drawn(j)' <=> Drawn(j) \/ j = jobOrder[n]
    <3>1. \A i \in Jobs : i < n + 1 <=> i < n \/ i = n
      BY <1>2, <2>2 DEF Jobs
    <3> QED BY <1>1, <2>1, <2>2, <2>3, <3>1 DEF Drawn
  <2>10. Returned' = Returned
    BY <2>3, <2>8, <2>9 DEF Returned
  <2> QED BY <1>5, <2>1, <2>6, <2>10
<1>8. ASSUME NEW w \in Workers, CountJob(w)
      PROVE  /\ \A u, v \in Workers :
                    pc'[u] \in InJob /\ pc'[v] \in InJob /\ job'[u] = job'[v] => u = v
             /\ jobsDone' <= Cardinality(Returned')
             /\ stop' \/ jobsDone' = Cardinality(Returned')
  <2>1. /\ pc' = [pc EXCEPT ![w] = "checkStop"] /\ jobsDone' = jobsDone + 1
        /\ pc[w] = "countJob" /\ UNCHANGED <<nextJob, stop, job>>
    BY <1>8 DEF CountJob, Goto, flags, workerVars
  <2>2. pc[w] \in InJob /\ job[w] \in Jobs /\ Drawn(job[w]) /\ Held(job[w])
    <3>1. pc[w] \in InJob
      BY <2>1 DEF InJob, Working
    <3> QED BY <3>1, JobTyped DEF Held
  <2>3. \A v \in Workers : pc'[v] \in InJob <=> pc[v] \in InJob /\ v # w
    BY <2>1 DEF TypeOK, InJob, Working, Searching, Finding, Unnumbered, Admitted
  <2>4. \A j \in Jobs : Held(j)' <=> Held(j) /\ j # job[w]
    BY <1>5, <2>1, <2>2, <2>3 DEF Held
  <2>5. \A j \in Jobs : Drawn(j)' <=> Drawn(j)
    BY <1>1, <2>1 DEF Drawn
  <2>6. Returned' = Returned \union {job[w]} /\ job[w] \notin Returned
    BY <2>2, <2>4, <2>5 DEF Returned
  <2>7. Cardinality(Returned') = Cardinality(Returned) + 1
    BY <1>5, <2>6, FS_AddElement
  <2> QED BY <1>2, <1>5, <2>1, <2>3, <2>7
<1>9. ASSUME NEW w \in Workers, Abandons(w) \/ (ClaimJob(w) /\ (nextJob >= JobCount \/ interrupted))
      PROVE  /\ \A u, v \in Workers :
                    pc'[u] \in InJob /\ pc'[v] \in InJob /\ job'[u] = job'[v] => u = v
             /\ jobsDone' <= Cardinality(Returned')
             /\ stop' \/ jobsDone' = Cardinality(Returned')
  <2>1. /\ pc' = [pc EXCEPT ![w] = "checkStop"] \/ pc' = [pc EXCEPT ![w] = "retire"]
        /\ UNCHANGED <<jobsDone, job>>
    BY <1>9 DEF Abandons, ClaimJob, Goto
  <2>2. stop' \/ (pc[w] \notin InJob /\ nextJob >= JobCount)
    <3>1. Abandons(w) => stop'
      BY DEF Abandons
    <3>2. ClaimJob(w) => pc[w] \notin InJob
      BY DEF ClaimJob, InJob, Working, Searching, Finding, Unnumbered, Admitted
    <3>3. ClaimJob(w) /\ (nextJob >= JobCount \/ interrupted) /\ ~(nextJob >= JobCount) => stop'
      BY Zenon DEF ClaimJob
    <3> QED BY <1>9, <3>1, <3>2, <3>3
  <2>3. \A v \in Workers : pc'[v] \in InJob <=> pc[v] \in InJob /\ v # w
    <3>1. pc \in [Workers -> WorkerSteps]
      BY DEF TypeOK
    <3>2. "checkStop" \notin InJob /\ "retire" \notin InJob
      BY DEF InJob, Working, Searching, Finding, Unnumbered, Admitted
    <3> QED BY <2>1, <3>1, <3>2
  <2>4. \A j \in Jobs : Held(j)' => Held(j)
    BY <2>1, <2>3 DEF Held
  <2>5. \A j \in Jobs : Drawn(j) => Drawn(j)'
    BY <1>1, <1>2 DEF Drawn, Jobs
  <2>6. Returned \subseteq Returned'
    BY <2>4, <2>5 DEF Returned
  <2>7. IsFiniteSet(Returned') /\ Cardinality(Returned') \in Nat
    <3>1. Returned' \subseteq Jobs
      BY DEF Returned
    <3> QED BY <3>1, JobsFinite, FS_Subset, FS_CardinalityType
  <2>8. Cardinality(Returned) <= Cardinality(Returned')
    BY <2>6, <2>7, FS_Subset
  <2>9. jobsDone' <= Cardinality(Returned')
    BY <1>2, <1>5, <2>1, <2>7, <2>8
  <2>10. CASE stop'
    BY <1>5, <2>1, <2>3, <2>9, <2>10
  <2>11. CASE pc[w] \notin InJob /\ nextJob >= JobCount
    <3>1. \A j \in Jobs : Held(j)' <=> Held(j)
      BY <2>1, <2>3, <2>11 DEF Held
    <3>2. \A i \in Jobs : i < nextJob /\ i < nextJob'
      BY <1>1, <1>2, <2>11 DEF Jobs
    <3>3. \A j \in Jobs : Drawn(j)' <=> Drawn(j)
      BY <1>1, <3>2 DEF Drawn
    <3>4. Returned' = Returned
      BY <3>1, <3>3 DEF Returned
    <3> QED BY <1>2, <1>5, <2>1, <2>3, <3>4
  <2> QED BY <2>2, <2>10, <2>11
<1>10. ASSUME UNCHANGED <<nextJob, jobsDone>>,
              \A v \in Workers : /\ pc'[v] \in InJob <=> pc[v] \in InJob
                                 /\ job'[v] = job[v]
       PROVE  /\ \A u, v \in Workers :
                     pc'[u] \in InJob /\ pc'[v] \in InJob /\ job'[u] = job'[v] => u = v
              /\ jobsDone' <= Cardinality(Returned')
              /\ stop' \/ jobsDone' = Cardinality(Returned')
  <2>1. \A j \in Jobs : Held(j)' <=> Held(j)
    BY <1>10 DEF Held
  <2>2. \A j \in Jobs : Drawn(j)' <=> Drawn(j)
    BY <1>1, <1>10 DEF Drawn
  <2>3. Returned' = Returned
    BY <2>1, <2>2 DEF Returned
  <2> QED BY <1>2, <1>5, <1>10, <2>3
<1> QED BY <1>7, <1>8, <1>9, <1>10, JobFrame

(* When all workers have gone and nothing has stopped them, every job was  *)
(* drawn, given back and counted.                                          *)
LEMMA AllReturned ==
    ASSUME TypeOK, CreationInv, JobInv, ActiveWorkers = {}, created = WorkerCount, ~stop
    PROVE  Returned = Jobs /\ jobsDone = JobCount
<1>1. \A w \in Workers : pc[w] \in {"absent", "exited"}
  BY DEF ActiveWorkers, Active
<1>2. 1 \in Workers /\ pc[1] = "exited"
  BY <1>1, CountsTyped DEF Workers, CreationInv
<1>3. nextJob >= JobCount
  BY <1>2 DEF JobInv, Gone
<1>4. \A j \in Jobs : ~Held(j)
  BY <1>1 DEF Held, InJob, Working, Searching, Finding, Unnumbered, Admitted
<1>5. \A j \in Jobs : Drawn(j)
  <2>1. \A i \in Jobs : i < nextJob
    BY <1>3, CountsTyped DEF Jobs, TypeOK
  <2> QED BY <2>1, OrderTyped DEF Drawn
<1>6. Returned = Jobs
  BY <1>4, <1>5 DEF Returned
<1> QED BY <1>6, JobsFinite DEF JobInv

-----------------------------------------------------------------------------
(* Reasons and verdicts. *)

LEMMA HitLimitStays ==
    ASSUME TypeOK, TypeOK', [Next]_vars, HitLimit
    PROVE  HitLimit'
<1>1. Limit' = Limit /\ Limit \in Nat /\ limitClaims \in Nat /\ limitClaims' \in Nat
  BY SessionStays, SessionTyped DEF TypeOK
<1>2. limitClaims' >= limitClaims
  BY Monotone
<1> QED BY <1>1, <1>2 DEF HitLimit

LEMMA StopStep ==
    ASSUME TypeOK, TypeOK', CreationInv, PlaceInv, StopInv, [Next]_vars
    PROVE  StopInv'
<1>0. /\ HitLimit => HitLimit'
      /\ CheckMayFail' = CheckMayFail
      /\ created \in Nat /\ WorkerCount \in Nat
      /\ stop \in BOOLEAN /\ stop' \in BOOLEAN /\ interrupted \in BOOLEAN
      /\ interrupted' \in BOOLEAN /\ internalError \in BOOLEAN /\ internalError' \in BOOLEAN
      /\ AfterDrain \notin Creating
  <2>1. HitLimit => HitLimit'
    BY HitLimitStays
  <2>2. CheckMayFail' = CheckMayFail
    BY SessionStays
  <2>3. created \in Nat /\ WorkerCount \in Nat
    BY CountsTyped DEF TypeOK
  <2>4. /\ stop \in BOOLEAN /\ stop' \in BOOLEAN /\ interrupted \in BOOLEAN
        /\ interrupted' \in BOOLEAN /\ internalError \in BOOLEAN /\ internalError' \in BOOLEAN
        /\ drainFor \in {"watch", "report", "cleanup"}
    BY DEF TypeOK
  <2>5. AfterDrain \notin Creating
    BY <2>4, AfterDrainCases DEF Creating
  <2> QED BY <2>1, <2>2, <2>3, <2>4, <2>5
<1>1. ASSUME NEW w \in Workers, WorkerStep(w) \/ CheckFails(w)
      PROVE  StopInv'
  <2>1. CASE CheckStop(w)
    BY <2>1, <1>0
    DEF StopInv, Creating, CheckStop, Goto, flags, workerVars, watchVars, outputVars,
        reportVars
  <2>2. CASE ClaimJob(w)
    <3>1. stop' => stop \/ interrupted
      BY <2>2, Zenon DEF ClaimJob
    <3>2. UNCHANGED <<internalError, fileFailed, created, mainPc, interrupted>>
      BY <2>2 DEF ClaimJob, watchVars, outputVars, reportVars
    <3>3. stop => stop'
      BY Monotone
    <3> QED BY <1>0, <3>1, <3>2, <3>3 DEF StopInv
  <2>3. CASE EnterPrefix(w) \/ LeavePrefix(w)
    BY <2>3, <1>0
    DEF StopInv, Creating, EnterPrefix, Goto, LeavePrefix, flags, workerVars, watchVars,
        outputVars, reportVars
  <2>4. CASE CountJob(w) \/ Retire(w)
    BY <2>4, <1>0
    DEF StopInv, Creating, CountJob, Goto, Retire, WakeMain, flags, workerVars,
        watchVars, outputVars, reportVars
  <2>5. CASE VisitLeaf(w) \/ PollStop(w)
    BY <2>5, <1>0
    DEF StopInv, Creating, VisitLeaf, Goto, PollStop, flags, workerVars, watchVars,
        outputVars, reportVars
  <2>6. CASE FinishPrefix(w) \/ ClaimLimit(w)
    BY <2>6, <1>0
    DEF StopInv, Creating, FinishPrefix, Goto, ClaimLimit, flags, workerVars, watchVars,
        outputVars, reportVars
  <2>7. CASE ReachLimit(w)
    <3>1. stop' => stop \/ HitLimit
      <4>1. CASE pc[w] = "turnAway"
        BY <4>1 DEF PlaceInv, Place, HitLimit
      <4>2. CASE stop' = (stop \/ (Limit # 0 /\ claim[w] + 1 >= Limit)) /\ pc[w] = "recorded"
        <5>1. stop' => stop \/ (Limit # 0 /\ claim[w] + 1 >= Limit)
          BY <4>2, Zenon
        <5>2. Limit # 0 => claim[w] < limitClaims
          BY <4>2 DEF PlaceInv, Place
        <5>3. claim[w] \in Nat /\ limitClaims \in Nat /\ Limit \in Nat
          BY SessionTyped DEF TypeOK
        <5> QED BY <5>1, <5>2, <5>3 DEF HitLimit
      <4> QED BY <2>7, <4>1, <4>2 DEF ReachLimit
    <3>2. UNCHANGED <<internalError, fileFailed, created, mainPc, interrupted>>
      BY <2>7 DEF ReachLimit, watchVars, outputVars, reportVars
    <3>3. stop => stop'
      BY Monotone
    <3> QED BY <1>0, <3>1, <3>2, <3>3 DEF StopInv
  <2>8. CASE LoadTotal(w) \/ CountOnly(w)
    BY <2>8, <1>0
    DEF StopInv, Creating, LoadTotal, Goto, CountOnly, TakeNumber, flags, workerVars,
        watchVars, outputVars, reportVars
  <2>9. CASE Enqueue(w) \/ AwaitRoom(w)
    BY <2>9, <1>0
    DEF StopInv, Creating, Enqueue, Goto, TakeNumber, AwaitRoom, flags, workerVars,
        watchVars, outputVars, reportVars
  <2>10. CASE SignalFlush(w)
    BY <2>10, <1>0
    DEF StopInv, Creating, SignalFlush, Goto, WakeMain, flags, workerVars, watchVars,
        outputVars, reportVars
  <2>11. CASE CheckFails(w)
    BY <2>11, <1>0
    DEF StopInv, Creating, CheckFails, flags, workerVars, watchVars, outputVars,
        reportVars
  <2> QED BY <1>1, <2>1, <2>2, <2>3, <2>4, <2>5, <2>6, <2>7, <2>8, <2>9, <2>10, <2>11
      DEF WorkerStep
<1>2. CASE MainThread
  <2>1. CASE CreateWorker
    BY <2>1, <1>0
    DEF StopInv, Creating, CreateWorker, Activate, flags, workerVars, watchVars,
        outputVars, reportVars
  <2>2. CASE WorkerCreated
    BY <2>2, <1>0
    DEF StopInv, Creating, WorkerCreated, Goto, flags, workerVars, watchVars,
        outputVars, reportVars
  <2>3. CASE CreateFails
    BY <2>3, <1>0
    DEF StopInv, Creating, CreateFails, CreationInv, flags, workerVars, watchVars,
        outputVars, reportVars
  <2>4. CASE LockCompletion \/ TestBatch
    BY <2>4, <1>0
    DEF StopInv, Creating, LockCompletion, TestBatch, flags, workerVars, watchVars,
        outputVars, reportVars
  <2>5. CASE StartWait \/ WaitExpires
    BY <2>5, <1>0
    DEF StopInv, Creating, StartWait, WaitExpires, flags, workerVars, watchVars,
        outputVars, reportVars
  <2>6. CASE WakeUp
    BY <2>6, <1>0
    DEF StopInv, Creating, WakeUp, flags, workerVars, watchVars, outputVars, reportVars
  <2>7. CASE PollInterrupt
    <3>1. stop' => stop \/ interrupted
      BY <2>7, Zenon DEF PollInterrupt, NoticeInterrupt
    <3>2. /\ UNCHANGED <<internalError, fileFailed, created, interrupted>>
          /\ mainPc \notin Creating /\ mainPc' \notin Creating
      BY <2>7 DEF PollInterrupt, watchVars, outputVars, reportVars, Creating
    <3>3. stop => stop'
      BY Monotone
    <3> QED BY <1>0, <3>1, <3>2, <3>3 DEF StopInv
  <2>8. CASE SwapBuffers
    <3>1. /\ UNCHANGED <<stop, internalError, fileFailed, created, interrupted>>
          /\ mainPc = "swap" /\ mainPc' \in {"append", AfterDrain}
      BY <2>8 DEF SwapBuffers, flags, watchVars, outputVars, reportVars
    <3>2. mainPc \notin Creating /\ mainPc' \notin Creating
      BY <1>0, <3>1 DEF Creating
    <3> QED BY <1>0, <3>1, <3>2 DEF StopInv
  <2>9. CASE AppendBatch
    BY <2>9, <1>0
    DEF StopInv, Creating, AppendBatch, flags, workerVars, watchVars, outputVars,
        reportVars
  <2>10. CASE PrintNext
    <3>1. /\ UNCHANGED <<stop, internalError, fileFailed, created, interrupted>>
          /\ mainPc = "print" /\ mainPc' \in {"print", AfterDrain}
      BY <2>10 DEF PrintNext, flags, watchVars, outputVars, reportVars
    <3>2. mainPc \notin Creating /\ mainPc' \notin Creating
      BY <1>0, <3>1 DEF Creating
    <3> QED BY <1>0, <3>1, <3>2 DEF StopInv
  <2>11. CASE JoinWorkers \/ Assess
    BY <2>11, <1>0
    DEF StopInv, Creating, JoinWorkers, Assess, flags, workerVars, watchVars,
        outputVars, reportVars
  <2>12. CASE Report \/ Exit
    BY <2>12, <1>0, ReportStep, ExitStep
    DEF StopInv, Creating, flags, workerVars, watchVars, outputVars, reportVars
  <2> QED BY <1>2, <2>1, <2>2, <2>3, <2>4, <2>5, <2>6, <2>7, <2>8, <2>9, <2>10, <2>11,
      <2>12 DEF MainThread
<1>3. CASE Interrupt \/ UNCHANGED vars
  BY <1>3, <1>0
  DEF StopInv, Creating, Interrupt, vars, flags, workerVars, watchVars, outputVars,
      reportVars
<1> QED BY <1>1, <1>2, <1>3 DEF Next

LEMMA VerdictStep ==
    ASSUME TypeOK, TypeOK', CreationInv, WatchInv, JobInv, StopInv, VerdictInv, [Next]_vars
    PROVE  VerdictInv'
<1>0. /\ Limit' = Limit /\ created \in Nat /\ WorkerCount \in Nat
      /\ {stop, stop', interrupted, interrupted', internalError, internalError'} \subseteq BOOLEAN
      /\ drainFor \in {"watch", "report", "cleanup"}
  BY SessionStays, CountsTyped DEF TypeOK
<1>1. ASSUME NEW w \in Workers, WorkerStep(w) \/ CheckFails(w)
      PROVE  VerdictInv'
  <2>1. drainFor = "watch" /\ mainPc \notin Judging
    <3>1. w \in ActiveWorkers
      BY <1>1, MoverActive DEF CheckFails
    <3> QED BY <1>0, <3>1 DEF WatchInv
  <2>2. /\ UNCHANGED <<created, drainFor, interrupted, exitStatus, status>>
        /\ mainPc' = mainPc \/ (mainPc = "sleep" /\ mainPc' = "wake")
    BY <1>1, OthersStay
  <2>3. internalError => internalError'
    BY Monotone
  <2> QED BY <1>0, <2>1, <2>2, <2>3 DEF VerdictInv, Judging
<1>2. CASE AppendBatch
  <2>1. mainPc = "append" /\ mainPc' = "print"
        /\ UNCHANGED <<created, drainFor, interrupted, exitStatus, status>>
    BY <1>2 DEF AppendBatch, watchVars, reportVars
  <2>3. drainFor # "cleanup"
    BY <2>1 DEF WatchInv
  <2>4. internalError => internalError'
    BY Monotone
  <2> QED BY <2>1, <2>3, <2>4 DEF VerdictInv
<1>3. CASE MainThread /\ ~AppendBatch
  <2>0. internalError' = internalError /\ limitClaims' = limitClaims
    <3>1. limitClaims' = limitClaims
      BY <1>3, MainKeeps DEF atomics
    <3>2. internalError' = internalError
      BY <1>3, ReportStep, ExitStep
         DEF MainThread, CreateWorker, WorkerCreated, CreateFails, LockCompletion, TestBatch,
             StartWait, WaitExpires, WakeUp, PollInterrupt, SwapBuffers, PrintNext, JoinWorkers,
             Assess, flags
    <3> QED BY <3>1, <3>2
  <2>a. HitLimit' = HitLimit
    BY <1>0, <2>0 DEF HitLimit
  <2>1. CASE CreateWorker \/ LockCompletion \/ TestBatch \/ StartWait \/ WaitExpires \/ WakeUp
    <3>1. /\ UNCHANGED <<created, drainFor, interrupted, exitStatus, status>>
          /\ mainPc \in {"create", "lock", "test", "wait", "sleep", "wake"}
          /\ mainPc' \in {"created", "test", "wait", "poll", "sleep", "wake"}
      BY <2>1 DEF CreateWorker, LockCompletion, TestBatch, StartWait, WaitExpires, WakeUp,
          watchVars, reportVars
    <3>2. UNCHANGED stop
      BY <2>1 DEF CreateWorker, LockCompletion, TestBatch, StartWait, WaitExpires, WakeUp, flags
    <3>3. drainFor = "watch"
      BY <1>0, <3>1 DEF WatchInv, Draining, Judging
    <3> QED BY <2>0, <2>a, <3>1, <3>2, <3>3 DEF VerdictInv
  <2>2. CASE WorkerCreated
    <3>1. exitStatus = "success" /\ drainFor = "watch"
      BY <1>0, <2>2 DEF CreationInv, WorkerCreated, Creating, WatchInv, Draining, Judging
    <3> QED BY <1>0, <2>0, <2>a, <2>2, <3>1 DEF VerdictInv, WorkerCreated, reportVars
  <2>3. CASE CreateFails
    <3>1. created < WorkerCount /\ drainFor = "watch"
      BY <1>0, <2>3 DEF CreationInv, CreateFails, Creating, WatchInv, Draining, Judging
    <3> QED BY <1>0, <2>0, <2>a, <2>3, <3>1 DEF VerdictInv, CreateFails, watchVars
  <2>4. CASE PollInterrupt
    <3>1. drainFor = "watch"
      BY <1>0, <2>4 DEF PollInterrupt, WatchInv, Draining, Judging
    <3>2. /\ mainPc = "poll" /\ mainPc' = "swap"
          /\ UNCHANGED <<created, drainFor, interrupted, exitStatus, status>>
      BY <2>4 DEF PollInterrupt, watchVars, reportVars
    <3> QED BY <2>0, <2>a, <3>1, <3>2 DEF VerdictInv
  <2>5. CASE SwapBuffers \/ PrintNext
    <3>1. /\ UNCHANGED <<created, drainFor, interrupted, exitStatus, status, stop>>
          /\ mainPc \in {"swap", "print"} /\ mainPc' \in {"append", "print", AfterDrain}
      BY <2>5 DEF SwapBuffers, PrintNext, flags, reportVars
    <3>2. /\ drainFor = "watch" => AfterDrain \in {"join", "lock"}
          /\ drainFor = "report" => AfterDrain = "assess"
          /\ drainFor = "cleanup" => AfterDrain = "done"
      BY AfterDrainCases
    <3> QED BY <1>0, <2>0, <2>a, <3>1, <3>2 DEF VerdictInv
  <2>6. CASE JoinWorkers
    <3>1. drainFor = "watch"
      BY <1>0, <2>6 DEF JoinWorkers, WatchInv, Draining, Judging
    <3>2. /\ mainPc = "join" /\ mainPc' = "swap" /\ drainFor' = "report"
          /\ UNCHANGED <<created, interrupted, exitStatus, status, stop>>
      BY <2>6 DEF JoinWorkers, flags, reportVars
    <3> QED BY <2>0, <2>a, <3>1, <3>2 DEF VerdictInv
  <2>7. CASE Assess
    <3>1. /\ mainPc = "assess" /\ mainPc' = "report"
          /\ UNCHANGED <<created, drainFor, interrupted, status, stop>>
          /\ exitStatus' =
                 IF internalError \/ (jobsDone # JobCount /\ ~HitLimit /\ ~interrupted)
                 THEN "failure" ELSE exitStatus
      BY <2>7 DEF Assess, flags, watchVars
    <3>2. drainFor \notin {"watch", "cleanup"} /\ status = "running" /\ exitStatus # "sigint"
      BY <1>0, <3>1 DEF VerdictInv, WatchInv, Judging
    <3>3. exitStatus' = "failure" => internalError \/ created < WorkerCount
      <4>1. SUFFICES ASSUME ~internalError, created = WorkerCount, ~HitLimit, ~interrupted
                     PROVE  jobsDone = JobCount
        <5>1. created <= WorkerCount
          BY DEF TypeOK
        <5> QED BY <1>0, <3>1, <5>1 DEF VerdictInv
      <4>2. ~stop
        BY <1>0, <4>1 DEF StopInv
      <4>3. ActiveWorkers = {}
        BY <3>2 DEF WatchInv
      <4> QED BY <4>1, <4>2, <4>3, AllReturned
    <3> QED BY <1>0, <2>0, <3>1, <3>2, <3>3 DEF VerdictInv
  <2>8. CASE Report
    <3>1. /\ mainPc = "report" /\ mainPc' = "exit"
          /\ UNCHANGED <<created, drainFor, interrupted, exitStatus, stop>>
          /\ interrupted => status' = "interrupted"
          /\ ~interrupted /\ exitStatus = "failure" => status' = "failed"
          /\ ~interrupted /\ exitStatus # "failure" /\ HitLimit => status' = "solutionLimit"
          /\ ~interrupted /\ exitStatus # "failure" /\ ~HitLimit => status' = "complete"
      BY <2>8, ReportStep DEF watchVars, flags
    <3>2. drainFor \notin {"watch", "cleanup"}
      BY <1>0, <3>1 DEF VerdictInv, WatchInv, Judging
    <3>3. ~interrupted /\ exitStatus # "failure" /\ ~HitLimit => ~stop
      <4>1. created < WorkerCount => exitStatus = "failure"
        BY <3>1 DEF CreationInv, Creating
      <4>2. internalError => exitStatus = "failure"
        BY <3>1 DEF VerdictInv
      <4> QED BY <1>0, <4>1, <4>2 DEF StopInv
    <3> QED BY <1>0, <2>0, <2>a, <3>1, <3>2, <3>3 DEF VerdictInv
  <2>9. CASE Exit
    <3>1. /\ mainPc = "exit" /\ mainPc' = "swap" /\ drainFor' = "cleanup"
          /\ UNCHANGED <<created, interrupted, status, stop>>
          /\ internalError => exitStatus' = "failure"
          /\ exitStatus' = "failure" => internalError \/ exitStatus = "failure"
          /\ exitStatus = "failure" => exitStatus' = "failure"
      BY <2>9, ExitStep DEF flags
    <3> QED BY <1>0, <2>0, <2>a, <3>1 DEF VerdictInv
  <2> QED BY <1>3, <2>1, <2>2, <2>3, <2>4, <2>5, <2>6, <2>7, <2>8, <2>9 DEF MainThread
<1>4. CASE Interrupt \/ UNCHANGED vars
  <2>1. /\ UNCHANGED <<mainPc, created, drainFor, exitStatus, status, internalError, limitClaims,
                       stop>>
    BY <1>4 DEF Interrupt, vars, atomics, flags, watchVars, reportVars
  <2> QED BY <1>0, <2>1 DEF VerdictInv, HitLimit
<1> QED BY <1>1, <1>2, <1>3, <1>4 DEF Next

LEMMA MovesOfMover ==
    ASSUME TypeOK, [Next]_vars,
           NEW w \in Workers, WorkerStep(w) \/ CheckFails(w)
    PROVE  Moves(w)
<1>0. /\ pc \in [Workers -> WorkerSteps] /\ job \in [Workers -> Jobs]
      /\ leaf \in [Workers -> Nat] /\ prefix \in [Workers -> Prefixes]
      /\ nextJob \in Nat /\ JobCount \in Nat
  BY CountsTyped DEF TypeOK
<1>1. CASE CheckStop(w)
  BY <1>1, <1>0
  DEF Moves, Proceeds, Enters, Draws, InJob, Working, Searching, Finding, Unnumbered,
      Admitted, CheckStop, Goto, workerVars
<1>2. CASE ClaimJob(w)
  <2>1. CASE pc' = [pc EXCEPT ![w] = "retire"]
    BY <1>0, <2>1 DEF Moves, InJob, Working, Searching, Finding, Unnumbered, Admitted
  <2>2. CASE ~(nextJob >= JobCount \/ interrupted)
    <3>1. /\ pc[w] = "claimJob" /\ nextJob' = nextJob + 1
          /\ pc' = [pc EXCEPT ![w] = "enterPrefix"]
          /\ job' = [job EXCEPT ![w] = jobOrder[nextJob]]
          /\ prefix' = [prefix EXCEPT ![w] = jobOrder[nextJob]]
      BY <1>2, <2>2 DEF ClaimJob, Goto
    <3>2. nextJob < JobCount
      BY <1>0, <2>2
    <3>3. /\ job'[w] = jobOrder[nextJob] /\ prefix'[w] = jobOrder[nextJob]
          /\ pc'[w] = "enterPrefix"
      BY <1>0, <3>1
    <3>4. pc[w] \notin InJob
      BY <3>1 DEF InJob, Working, Searching, Finding, Unnumbered, Admitted
    <3>5. Draws(w)
      BY <3>1, <3>2, <3>3, <3>4 DEF Draws
    <3> QED BY <3>5 DEF Moves
  <2> QED BY <1>2, <2>1, <2>2 DEF ClaimJob, Goto
<1>3. CASE EnterPrefix(w)
  BY <1>3, <1>0
  DEF Moves, Proceeds, Enters, Draws, InJob, Working, Searching, Finding, Unnumbered,
      Admitted, EnterPrefix, Goto, workerVars
<1>4. CASE LeavePrefix(w)
  <2>1. CASE pc' = [pc EXCEPT ![w] = "checkStop"]
    BY <1>0, <2>1 DEF Moves, InJob, Working, Searching, Finding, Unnumbered, Admitted
  <2>2. CASE ~stop /\ pc' = [pc EXCEPT ![w] = "countJob"] /\ prefix' = prefix
    BY <1>4, <1>0, <2>2 DEF LeavePrefix, workerVars, Moves, Proceeds, InJob, Working, Searching, Finding, Unnumbered, Admitted
  <2>3. CASE ~stop /\ pc' = [pc EXCEPT ![w] = "enterPrefix"] /\ prefix'[w] = prefix[w] + JobCount
    BY <1>4, <1>0, <2>3 DEF LeavePrefix, Moves, Continues
  <2>4. \/ pc' = [pc EXCEPT ![w] = "checkStop"]
        \/ ~stop /\ pc' = [pc EXCEPT ![w] = "countJob"] /\ prefix' = prefix
        \/ ~stop /\ pc' = [pc EXCEPT ![w] = "enterPrefix"] /\ prefix'[w] = prefix[w] + JobCount
    BY <1>4, <1>0 DEF LeavePrefix, Goto, NextInStride
  <2> QED BY <2>1, <2>2, <2>3, <2>4
<1>5. CASE CountJob(w)
  BY <1>5, <1>0
  DEF Moves, Proceeds, Enters, Draws, InJob, Working, Searching, Finding, Unnumbered,
      Admitted, CountJob, Goto, workerVars
<1>6. CASE Retire(w)
  BY <1>6, <1>0
  DEF Moves, Proceeds, Enters, Draws, InJob, Working, Searching, Finding, Unnumbered,
      Admitted, Retire, Goto, WakeMain, workerVars
<1>7. CASE VisitLeaf(w)
  BY <1>7, <1>0
  DEF Moves, Proceeds, Enters, Draws, InJob, Working, Searching, Finding, Unnumbered,
      Admitted, VisitLeaf, Goto, workerVars
<1>8. CASE PollStop(w)
  BY <1>8, <1>0
  DEF Moves, Proceeds, Enters, Draws, InJob, Working, Searching, Finding, Unnumbered,
      Admitted, PollStop, Goto, workerVars
<1>9. CASE FinishPrefix(w)
  BY <1>9, <1>0
  DEF Moves, Proceeds, Enters, Draws, InJob, Working, Searching, Finding, Unnumbered,
      Admitted, FinishPrefix, Goto, workerVars
<1>10. CASE ClaimLimit(w)
  BY <1>10, <1>0
  DEF Moves, Proceeds, Enters, Draws, InJob, Working, Searching, Finding, Unnumbered,
      Admitted, ClaimLimit, Goto, workerVars
<1>11. CASE ReachLimit(w)
  BY <1>11, <1>0
  DEF Moves, Proceeds, Enters, Draws, InJob, Working, Searching, Finding, Unnumbered,
      Admitted, ReachLimit, Goto, workerVars
<1>12. CASE LoadTotal(w)
  BY <1>12, <1>0
  DEF Moves, Proceeds, Enters, Draws, InJob, Working, Searching, Finding, Unnumbered,
      Admitted, LoadTotal, Goto, workerVars
<1>13. CASE CountOnly(w)
  BY <1>13, <1>0
  DEF Moves, Proceeds, Enters, Draws, InJob, Working, Searching, Finding, Unnumbered,
      Admitted, CountOnly, Goto, TakeNumber, workerVars
<1>14. CASE Enqueue(w)
  BY <1>14, <1>0
  DEF Moves, Proceeds, Enters, Draws, InJob, Working, Searching, Finding, Unnumbered,
      Admitted, Enqueue, Goto, TakeNumber, workerVars
<1>15. CASE AwaitRoom(w)
  BY <1>15, <1>0
  DEF Moves, Proceeds, Enters, Draws, InJob, Working, Searching, Finding, Unnumbered,
      Admitted, AwaitRoom, Goto, workerVars
<1>16. CASE SignalFlush(w)
  BY <1>16, <1>0
  DEF Moves, Proceeds, Enters, Draws, InJob, Working, Searching, Finding, Unnumbered,
      Admitted, SignalFlush, Goto, WakeMain, workerVars
<1>17. CASE CheckFails(w)
  BY <1>17, <1>0
  DEF Moves, Proceeds, Enters, Draws, InJob, Working, Searching, Finding, Unnumbered,
      Admitted, CheckFails, workerVars
<1> QED BY <1>1, <1>2, <1>3, <1>4, <1>5, <1>6, <1>7, <1>8, <1>9, <1>10, <1>11, <1>12,
    <1>13, <1>14, <1>15, <1>16, <1>17 DEF WorkerStep

(* How a worker can come to be where it is after a step.                   *)
LEMMA EachMoves ==
    ASSUME TypeOK, CreationInv, [Next]_vars, NEW v \in Workers
    PROVE  Moves(v)
<1>1. ASSUME NEW w \in Workers, WorkerStep(w) \/ CheckFails(w)
      PROVE  Moves(v)
  <2>1. CASE v = w
    BY <1>1, <2>1, MovesOfMover
  <2>2. CASE v # w
    <3>1. Same(v)
      BY <1>1, <2>2, OthersStay
    <3> QED BY <3>1 DEF Same, Moves, Proceeds
  <2> QED BY <2>1, <2>2
<1>2. CASE MainThread \/ Interrupt \/ UNCHANGED vars
  <2>1. job'[v] = job[v] /\ prefix'[v] = prefix[v] /\ leaf'[v] = leaf[v]
    BY <1>2, MainKeeps DEF workerVars
  <2>2. \/ pc'[v] = pc[v]
        \/ pc[v] = "waiting" /\ pc'[v] = "enqueue"
        \/ pc'[v] = "checkStop" /\ pc[v] = "absent"
    BY <1>2, MainKeeps
  <2> QED BY <2>1, <2>2
          DEF Moves, Proceeds, InJob, Working, Searching, Finding, Unnumbered, Admitted
<1> QED BY <1>1, <1>2 DEF Next

(* A prefix is searched by FinishPrefix only.                             *)
LEMMA SearchedFrame ==
    ASSUME TypeOK, [Next]_vars
    PROVE  searched' = searched \/ \E u \in Workers : FinishPrefix(u)
<1>1. ASSUME NEW w \in Workers, WorkerStep(w) \/ CheckFails(w)
      PROVE  searched' = searched \/ \E u \in Workers : FinishPrefix(u)
  <2>1. CASE CheckStop(w) \/ ClaimJob(w) \/ EnterPrefix(w) \/ LeavePrefix(w) \/
      CountJob(w) \/ Retire(w)
    BY <2>1
    DEF history, CheckStop, Goto, ClaimJob, EnterPrefix, LeavePrefix, CountJob, Retire,
        WakeMain
  <2>2. CASE VisitLeaf(w) \/ PollStop(w)
    BY <2>2
    DEF history, VisitLeaf, Goto, PollStop
  <2>3. CASE FinishPrefix(w)
    BY <2>3
  <2>4. CASE ClaimLimit(w) \/ ReachLimit(w) \/ LoadTotal(w) \/ CountOnly(w) \/
      Enqueue(w) \/ AwaitRoom(w)
    BY <2>4
    DEF history, ClaimLimit, Goto, ReachLimit, LoadTotal, CountOnly, TakeNumber,
        Enqueue, AwaitRoom
  <2>5. CASE SignalFlush(w) \/ CheckFails(w)
    BY <2>5
    DEF history, SignalFlush, Goto, WakeMain, CheckFails
  <2> QED BY <1>1, <2>1, <2>2, <2>3, <2>4, <2>5 DEF WorkerStep
<1>2. CASE MainThread
  <2>1. CASE CreateWorker \/ WorkerCreated \/ CreateFails \/ LockCompletion \/ TestBatch
      \/ StartWait
    BY <2>1
    DEF history, CreateWorker, Activate, WorkerCreated, Goto, CreateFails,
        LockCompletion, TestBatch, StartWait
  <2>2. CASE WaitExpires \/ WakeUp \/ PollInterrupt \/ SwapBuffers \/ AppendBatch \/
      PrintNext
    BY <2>2, AfterDrainCases
    DEF history, WaitExpires, WakeUp, PollInterrupt, NoticeInterrupt, SwapBuffers,
        WakeWaiters, AppendBatch, PrintNext
  <2>3. CASE JoinWorkers \/ Assess \/ Report \/ Exit
    BY <2>3, ReportStep, ExitStep
    DEF history, JoinWorkers, Assess
  <2> QED BY <1>2, <2>1, <2>2, <2>3 DEF MainThread
<1>3. CASE Interrupt \/ UNCHANGED vars
  BY <1>3
  DEF history, Interrupt, vars
<1> QED BY <1>1, <1>2, <1>3 DEF Next

(* Who takes a number numbers what it has found.                           *)
LEMMA NumberedGrows ==
    ASSUME NEW w \in Workers, TakesNumber(w)
    PROVE  Numbered' = Numbered \union {Found(w)}
<1>1. PICK r : r = Numbering(Found(w))
  OBVIOUS
<1>2. numbering' = numbering \union {r} /\ r.encoding = Found(w)
  BY <1>1 DEF TakesNumber, TakeNumber, Numbering
<1> QED BY <1>2 DEF Numbered

(* What nobody works on is not touched.                                    *)
LEMMA UntouchedStays ==
    ASSUME TypeOK, PlaceInv, [Next]_vars, NEW p \in Prefixes, Untouched(p),
           \A w \in Workers : pc[w] \in Searching => prefix[w] # p
    PROVE  Untouched(p)'
<1>1. Leaves' = Leaves /\ session \in Sessions
  BY SessionStays DEF TypeOK
<1>2. searched'[p] = 0
  <2>1. ASSUME NEW w \in Workers, FinishPrefix(w)
        PROVE  searched'[p] = searched[p]
    BY <2>1 DEF FinishPrefix, TypeOK, Searching
  <2> QED BY <2>1, SearchedFrame DEF Untouched
<1>3. ASSUME NEW i \in 1 .. Len(Leaves[p])
      PROVE  Leaves[p][i] \notin Numbered'
  <2>1. Leaves[p][i] \notin Numbered
    BY DEF Untouched
  <2>2. ASSUME NEW w \in Workers, TakesNumber(w)
        PROVE  Leaves[p][i] \notin Numbered'
    <3>1. Numbered' = Numbered \union {Found(w)}
      BY <2>2, NumberedGrows
    <3>2. pc[w] \in Finding /\ pc[w] \in Searching
      BY <2>2 DEF TakesNumber, Unnumbered, Admitted, Finding, Searching
    <3>3. prefix[w] \in Prefixes /\ leaf[w] \in 1 .. Len(Leaves[prefix[w]]) /\ prefix[w] # p
      BY <3>2, FoundTyped
    <3>4. Leaves[p][i] # Found(w)
      BY <1>1, <3>3, LeavesDistinct DEF Found
    <3> QED BY <2>1, <3>1, <3>4
  <2>3. CASE UNCHANGED <<total, numbering>>
    BY <2>1, <2>3 DEF Numbered
  <2> QED BY <2>2, <2>3, NumberingFrame
<1> QED BY <1>1, <1>2, <1>3 DEF Untouched

(* A prefix of a job is searched by the worker that has the job.           *)
LEMMA OnePerPrefix ==
    ASSUME TypeOK, JobInv, NEW v \in Workers, NEW w \in Workers,
           pc[v] \in InJob, pc[w] \in Searching, prefix[w] \in JobPrefixes(job[v])
    PROVE  v = w
<1>1. pc[w] \in InJob /\ prefix[w] \in JobPrefixes(job[w])
  BY DEF JobInv, InJob, Working
<1>2. job[v] = job[w]
  BY <1>1 DEF JobPrefixes
<1> QED BY <1>1, <1>2 DEF JobInv

LEMMA UntouchedInJob ==
    ASSUME TypeOK, PlaceInv, JobInv, [Next]_vars,
           NEW v \in Workers, pc[v] \in InJob, NEW p \in JobPrefixes(job[v]),
           pc[v] \in Searching => prefix[v] # p, Untouched(p)
    PROVE  Untouched(p)'
<1>1. \A w \in Workers : pc[w] \in Searching => prefix[w] # p
  BY OnePerPrefix
<1>2. p \in Prefixes
  BY DEF JobPrefixes
<1> QED BY <1>1, <1>2, UntouchedStays

LEMMA UntouchedUndrawn ==
    ASSUME TypeOK, PlaceInv, JobInv, FreshInv, [Next]_vars,
           NEW j \in Jobs, ~Drawn(j), NEW p \in JobPrefixes(j)
    PROVE  Untouched(p)'
<1>1. \A w \in Workers : pc[w] \in Searching => prefix[w] # p
  <2>1. SUFFICES ASSUME NEW w \in Workers, pc[w] \in Searching, prefix[w] = p
                 PROVE  FALSE
    OBVIOUS
  <2>2. prefix[w] % JobCount = job[w] /\ Drawn(job[w])
    BY <2>1, JobTyped DEF InJob, Working
  <2> QED BY <2>1, <2>2 DEF JobPrefixes
<1>2. p \in Prefixes
  BY DEF JobPrefixes
<1> QED BY <1>1, <1>2, UntouchedStays DEF FreshInv

(* A worker that goes on at its prefix leaves what lies ahead as it was.   *)
LEMMA AheadStays ==
    ASSUME TypeOK, TypeOK', PlaceInv, JobInv, FreshInv, [Next]_vars,
           NEW v \in Workers, Proceeds(v), pc'[v] \in Searching
    PROVE  /\ searched'[prefix[v]] = 0
           /\ \A i \in 1 .. Len(Leaves[prefix[v]]) :
                  Ahead(v, i)' => Leaves[prefix[v]][i] \notin Numbered'
<1>0. /\ pc[v] \in Searching /\ pc[v] \in InJob /\ prefix[v] \in JobPrefixes(job[v])
      /\ prefix[v] \in Prefixes /\ session \in Sessions
  BY DEF Proceeds, InJob, JobInv, Working, TypeOK
<1>a. \A w \in Workers : pc[w] \in Searching /\ prefix[w] = prefix[v] => w = v
  BY <1>0, OnePerPrefix
<1>b. Fresh(v)
  BY DEF FreshInv
<1>1. searched'[prefix[v]] = 0
  <2>1. searched[prefix[v]] = 0 /\ searched \in [Prefixes -> Nat]
    BY <1>0, <1>b DEF Fresh, TypeOK
  <2>2. ASSUME NEW w \in Workers, FinishPrefix(w)
        PROVE  searched'[prefix[v]] = 0
    <3>1. pc[w] = "search" /\ pc'[w] = "prefixDone"
      BY <2>2 DEF FinishPrefix, Goto, TypeOK
    <3>2. w # v
      BY <3>1 DEF Searching, Finding, Unnumbered, Admitted
    <3>3. prefix[w] # prefix[v]
      BY <1>a, <3>1, <3>2 DEF Searching
    <3>4. searched' = [searched EXCEPT ![prefix[w]] = @ + 1]
      BY <2>2 DEF FinishPrefix
    <3> QED BY <1>0, <2>1, <3>3, <3>4
  <2> QED BY <2>1, <2>2, SearchedFrame
<1>2. ASSUME NEW i \in 1 .. Len(Leaves[prefix[v]]), Ahead(v, i)'
      PROVE  Leaves[prefix[v]][i] \notin Numbered'
  <2>0. leaf[v] \in Nat /\ leaf'[v] \in Nat /\ i \in Nat
    <3>1. leaf \in [Workers -> Nat] /\ leaf' \in [Workers -> Nat]
      BY DEF TypeOK
    <3> QED BY <3>1
  <2>1. Ahead(v, i)
    BY <1>2, <2>0 DEF Ahead, Proceeds, Unnumbered
  <2>2. Leaves[prefix[v]][i] \notin Numbered
    BY <1>0, <1>b, <2>1 DEF Fresh
  <2>3. ASSUME NEW w \in Workers, TakesNumber(w)
        PROVE  Leaves[prefix[v]][i] # Found(w)
    <3>1. SUFFICES ASSUME Leaves[prefix[v]][i] = Leaves[prefix[w]][leaf[w]]
                   PROVE  FALSE
      BY DEF Found
    <3>2. pc[w] \in Unnumbered /\ pc[w] \in Finding /\ pc[w] \in Searching
      BY <2>3 DEF TakesNumber, Unnumbered, Admitted, Finding, Searching
    <3>3. prefix[w] \in Prefixes /\ leaf[w] \in 1 .. Len(Leaves[prefix[w]])
      BY <3>2, FoundTyped
    <3>4. prefix[v] = prefix[w] /\ i = leaf[w]
      BY <1>0, <3>1, <3>3, LeavesDistinct
    <3>5. w = v
      BY <1>a, <3>2, <3>4
    <3>6. pc'[w] \notin Unnumbered
      BY <2>3 DEF TakesNumber, Unnumbered, Admitted
    <3>7. pc[v] # "search"
      BY <3>5, <2>3 DEF TakesNumber
    <3>8. leaf'[v] = leaf[v]
      BY <3>7 DEF Proceeds
    <3> QED BY <1>2, <2>0, <3>4, <3>5, <3>6, <3>8 DEF Ahead
  <2>4. \A w \in Workers : TakesNumber(w) => Numbered' = Numbered \union {Found(w)}
    BY NumberedGrows
  <2>5. CASE UNCHANGED <<total, numbering>>
    BY <2>2, <2>5 DEF Numbered
  <2> QED BY <2>2, <2>3, <2>4, <2>5, NumberingFrame
<1> QED BY <1>1, <1>2

LEMMA NextUndrawn ==
    ASSUME TypeOK, JobInv, nextJob < JobCount
    PROVE  \E j \in Jobs : j = jobOrder[nextJob] /\ ~Drawn(j)
<1>1. PICK n : n = nextJob
  OBVIOUS
<1>2. n \in Jobs
  BY <1>1, CountsTyped DEF Jobs, TypeOK
<1>3. PICK j \in Jobs : j = jobOrder[n]
  BY <1>2, OrderTyped
<1>4. \A i \in Jobs : i < n => jobOrder[i] # j
  <2>1. n \in Nat /\ \A i \in Jobs : i \in Nat
    BY <1>2, CountsTyped
  <2> QED BY <1>2, <1>3, <2>1, OrderTyped
<1> QED BY <1>1, <1>3, <1>4 DEF Drawn

LEMMA FreshOfEach ==
    ASSUME TypeOK, TypeOK', CreationInv, PlaceInv, JobInv, JobInv', FreshInv, [Next]_vars,
           NEW v \in Workers
    PROVE  Fresh(v)'
<1>0. /\ Leaves' = Leaves /\ JobCount \in Nat \ {0}
      /\ Moves(v) /\ Fresh(v) /\ prefix[v] \in Nat /\ prefix'[v] \in Nat
      /\ \A p \in Prefixes : p \in Nat
  <2>1. prefix \in [Workers -> Prefixes] /\ prefix' \in [Workers -> Prefixes]
    BY DEF TypeOK
  <2>2. prefix[v] \in Prefixes /\ prefix'[v] \in Prefixes
    BY <2>1
  <2> QED BY <2>2, SessionStays, CountsTyped, EachMoves DEF FreshInv
<1>b. pc'[v] \in InJob => prefix'[v] \in JobPrefixes(job'[v])
  BY DEF JobInv
<1>1. ASSUME pc'[v] \in InJob, NEW p \in JobPrefixes(job'[v]), p > prefix'[v]
      PROVE  Untouched(p)'
  <2>0. p \in Nat
    BY <1>0 DEF JobPrefixes
  <2>1. CASE Draws(v)
    <3>1. PICK j \in Jobs : j = jobOrder[nextJob] /\ ~Drawn(j)
      BY <2>1, NextUndrawn DEF Draws
    <3>2. j = job'[v]
      BY <2>1, <3>1 DEF Draws
    <3> QED BY <3>1, <3>2, UntouchedUndrawn
  <2>2. CASE Proceeds(v) \/ Enters(v)
    <3>0. pc[v] \in InJob /\ p \in JobPrefixes(job[v]) /\ prefix'[v] = prefix[v]
      BY <2>2 DEF Proceeds, Enters, InJob
    <3>1. p > prefix[v] /\ p # prefix[v]
      BY <1>0, <1>1, <2>0, <3>0
    <3>2. Untouched(p)
      BY <1>0, <3>0, <3>1 DEF Fresh
    <3> QED BY <3>0, <3>1, <3>2, UntouchedInJob
  <2>3. CASE Continues(v)
    <3>0. /\ pc[v] \in InJob /\ p \in JobPrefixes(job[v])
          /\ prefix'[v] = prefix[v] + JobCount
      BY <2>3 DEF Continues, InJob, Working
    <3>1. p > prefix[v] /\ p # prefix[v]
      BY <1>0, <1>1, <2>0, <3>0
    <3>2. Untouched(p)
      BY <1>0, <3>0, <3>1 DEF Fresh
    <3> QED BY <3>0, <3>1, <3>2, UntouchedInJob
  <2> QED BY <1>0, <1>1, <2>1, <2>2, <2>3 DEF Moves
<1>2. ASSUME pc'[v] = "enterPrefix", NEW q \in JobPrefixes(job'[v]), q = prefix'[v]
      PROVE  Untouched(q)'
  <2>1. CASE Draws(v)
    <3>1. PICK j \in Jobs : j = jobOrder[nextJob] /\ ~Drawn(j)
      BY <2>1, NextUndrawn DEF Draws
    <3>2. j = job'[v]
      BY <2>1, <3>1 DEF Draws
    <3> QED BY <1>2, <3>1, <3>2, UntouchedUndrawn
  <2>2. CASE Proceeds(v)
    <3>1. /\ pc[v] \in InJob /\ pc[v] \notin Searching /\ q \in JobPrefixes(job[v])
          /\ Untouched(q)
      BY <1>0, <1>2, <2>2
         DEF Proceeds, Fresh, InJob, Searching, Finding, Unnumbered, Admitted
    <3> QED BY <3>1, UntouchedInJob
  <2>3. CASE Continues(v)
    <3>1. /\ pc[v] \in InJob /\ pc[v] \notin Searching /\ q \in JobPrefixes(job[v]) /\ q > prefix[v]
      BY <1>0, <1>2, <2>3
         DEF Continues, InJob, Working, Searching, Finding, Unnumbered, Admitted
    <3>2. Untouched(q)
      BY <1>0, <3>1 DEF Fresh
    <3> QED BY <3>1, <3>2, UntouchedInJob
  <2> QED BY <1>0, <1>2, <2>1, <2>2, <2>3 DEF Moves, Enters, InJob
<1>3. ASSUME pc'[v] \in Searching
      PROVE  /\ searched'[prefix'[v]] = 0
             /\ \A i \in 1 .. Len(Leaves[prefix'[v]]) :
                    Ahead(v, i)' => Leaves[prefix'[v]][i] \notin Numbered'
  <2>1. CASE Proceeds(v)
    <3>1. prefix'[v] = prefix[v]
      BY <2>1 DEF Proceeds
    <3> QED BY <1>3, <2>1, <3>1, AheadStays
  <2>2. CASE Enters(v)
    <3>1. /\ pc[v] \in InJob /\ pc[v] \notin Searching /\ prefix'[v] = prefix[v]
          /\ job'[v] = job[v] /\ pc'[v] \in InJob
      BY <1>3, <2>2
         DEF Enters, InJob, Working, Searching, Finding, Unnumbered, Admitted
    <3>2. prefix[v] \in JobPrefixes(job[v]) /\ Untouched(prefix[v])
      BY <1>0, <2>2, <3>1 DEF JobInv, Fresh, Enters
    <3>3. PICK q \in JobPrefixes(job[v]) : q = prefix[v]
      BY <3>2
    <3>4. Untouched(q)'
      BY <3>1, <3>2, <3>3, UntouchedInJob
    <3> QED BY <1>0, <3>1, <3>3, <3>4 DEF Untouched
  <2> QED BY <1>0, <1>3, <2>1, <2>2
          DEF Moves, Continues, Draws, InJob, Working, Searching, Finding, Unnumbered, Admitted
<1>4. pc'[v] = "enterPrefix" => Untouched(prefix[v])'
  <2>1. SUFFICES ASSUME pc'[v] = "enterPrefix"
                 PROVE  Untouched(prefix[v])'
    OBVIOUS
  <2>2. PICK q \in JobPrefixes(job'[v]) : q = prefix'[v]
    BY <1>b, <2>1 DEF InJob
  <2>3. Untouched(q)'
    BY <1>2, <2>1, <2>2
  <2> QED BY <2>2, <2>3 DEF Untouched
<1> QED BY <1>0, <1>1, <1>3, <1>4 DEF Fresh

LEMMA FreshStep ==
    ASSUME TypeOK, TypeOK', CreationInv, PlaceInv, JobInv, JobInv', FreshInv, [Next]_vars
    PROVE  FreshInv'
<1>1. ASSUME NEW j \in Jobs, ~Drawn(j)', NEW p \in JobPrefixes(j)
      PROVE  Untouched(p)'
  <2>1. nextJob' >= nextJob /\ nextJob \in Nat /\ nextJob' \in Nat /\ jobOrder' = jobOrder
    BY Monotone, SessionStays DEF TypeOK
  <2>2. ~Drawn(j)
    BY <1>1, <2>1, CountsTyped DEF Drawn
  <2> QED BY <2>2, UntouchedUndrawn
<1> QED BY <1>1, FreshOfEach DEF FreshInv

(* How a worker that searches gets past a configuration or ends a prefix.  *)
LEMMA SearchOfMover ==
    ASSUME TypeOK, PlaceInv, [Next]_vars,
           NEW w \in Workers, WorkerStep(w) \/ CheckFails(w)
    PROVE  /\ pc[w] \in Unnumbered /\ pc'[w] \notin Unnumbered => TakesNumber(w) \/ HitLimit
           /\ pc'[w] = "prefixDone" => pc[w] = "prefixDone" \/ FinishPrefix(w) \/ stop'
           /\ pc'[w] = "countJob" => pc[w] = "countJob" \/ LeavePrefix(w)
<1>0. pc \in [Workers -> WorkerSteps]
  BY DEF TypeOK
<1>1. CASE CheckStop(w)
  BY <1>1, <1>0
  DEF Unnumbered, Admitted, CheckStop, Goto, flags
<1>2. CASE ClaimJob(w)
  BY <1>2, <1>0
  DEF Unnumbered, Admitted, ClaimJob, Goto, flags
<1>3. CASE EnterPrefix(w)
  BY <1>3, <1>0
  DEF Unnumbered, Admitted, EnterPrefix, Goto, flags
<1>4. CASE LeavePrefix(w)
  <2>1. pc[w] = "prefixDone"
    BY <1>4 DEF LeavePrefix
  <2>2. pc[w] \notin Unnumbered
    BY <2>1 DEF Unnumbered, Admitted
  <2> QED BY <1>4, <2>1, <2>2
<1>5. CASE CountJob(w)
  BY <1>5, <1>0
  DEF Unnumbered, Admitted, CountJob, Goto, flags
<1>6. CASE Retire(w)
  BY <1>6, <1>0
  DEF Unnumbered, Admitted, Retire, Goto, WakeMain, flags
<1>7. CASE VisitLeaf(w)
  BY <1>7, <1>0
  DEF Unnumbered, Admitted, VisitLeaf, Goto, flags
<1>8. CASE PollStop(w)
  BY <1>8, <1>0
  DEF Unnumbered, Admitted, PollStop, Goto, flags
<1>9. CASE FinishPrefix(w)
  <2>1. pc[w] = "search" /\ pc'[w] = "prefixDone"
    BY <1>9, <1>0 DEF FinishPrefix, Goto
  <2> QED BY <1>9, <2>1 DEF Unnumbered, Admitted
<1>10. CASE ClaimLimit(w)
  <2>1. pc[w] = "claimLimit" /\ pc'[w] \in {"turnAway", "record"}
    BY <1>10, <1>0 DEF ClaimLimit, Goto
  <2>2. pc'[w] = "turnAway" => limitClaims >= Limit
    BY <1>10, <1>0, <2>1 DEF ClaimLimit, Goto, Exceeds
  <2>3. Limit # 0
    BY <2>1 DEF PlaceInv, Place
  <2> QED BY <2>1, <2>2, <2>3 DEF HitLimit, Unnumbered, Admitted
<1>11. CASE ReachLimit(w)
  BY <1>11, <1>0
  DEF Unnumbered, Admitted, ReachLimit, Goto, flags
<1>12. CASE LoadTotal(w)
  BY <1>12, <1>0
  DEF Unnumbered, Admitted, LoadTotal, Goto, flags
<1>13. CASE CountOnly(w)
  <2>1. pc[w] = "countOnly" /\ pc'[w] = "recorded"
    BY <1>13, <1>0 DEF CountOnly, Goto
  <2>2. TakesNumber(w)
    BY <1>13, <1>0 DEF CountOnly, Goto, TakesNumber
  <2> QED BY <2>1, <2>2
<1>14. CASE Enqueue(w)
  <2>1. pc[w] = "enqueue" /\ pc'[w] \in {"recorded", "flush"}
    BY <1>14, <1>0 DEF Enqueue, Goto
  <2>2. \A v \in Workers \ {w} : pc'[v] = pc[v]
    BY <1>14, <1>0 DEF Enqueue, Goto
  <2>3. TakesNumber(w)
    BY <1>14, <2>1, <2>2 DEF Enqueue, TakesNumber
  <2> QED BY <2>1, <2>3
<1>15. CASE AwaitRoom(w)
  BY <1>15, <1>0
  DEF Unnumbered, Admitted, AwaitRoom, Goto, flags
<1>16. CASE SignalFlush(w)
  BY <1>16, <1>0
  DEF Unnumbered, Admitted, SignalFlush, Goto, WakeMain, flags
<1>17. CASE CheckFails(w)
  BY <1>17, <1>0
  DEF Unnumbered, Admitted, CheckFails, flags
<1> QED BY <1>1, <1>2, <1>3, <1>4, <1>5, <1>6, <1>7, <1>8, <1>9, <1>10, <1>11, <1>12,
    <1>13, <1>14, <1>15, <1>16, <1>17 DEF WorkerStep

LEMMA EachSearches ==
    ASSUME TypeOK, CreationInv, PlaceInv, [Next]_vars, NEW v \in Workers
    PROVE  /\ pc[v] \in Unnumbered /\ pc'[v] \notin Unnumbered => TakesNumber(v) \/ HitLimit
           /\ pc'[v] = "prefixDone" => pc[v] = "prefixDone" \/ FinishPrefix(v) \/ stop'
           /\ pc'[v] = "countJob" => pc[v] = "countJob" \/ LeavePrefix(v)
<1>1. ASSUME NEW w \in Workers, WorkerStep(w) \/ CheckFails(w)
      PROVE  v = w \/ pc'[v] = pc[v]
  BY <1>1, OthersStay DEF Same
<1>2. CASE MainThread \/ Interrupt \/ UNCHANGED vars
  <2>1. \/ pc'[v] = pc[v]
        \/ pc[v] = "waiting" /\ pc'[v] = "enqueue"
        \/ pc'[v] = "checkStop" /\ pc[v] = "absent"
    BY <1>2, MainKeeps
  <2> QED BY <2>1 DEF Unnumbered, Admitted
<1>3. ASSUME WorkerStep(v) \/ CheckFails(v)
      PROVE  /\ pc[v] \in Unnumbered /\ pc'[v] \notin Unnumbered => TakesNumber(v) \/ HitLimit
             /\ pc'[v] = "prefixDone" => pc[v] = "prefixDone" \/ FinishPrefix(v) \/ stop'
             /\ pc'[v] = "countJob" => pc[v] = "countJob" \/ LeavePrefix(v)
  BY <1>3, SearchOfMover
<1> QED BY <1>1, <1>2, <1>3 DEF Next

(* A worker that goes out of its job with nothing asking it to has ended   *)
(* its job and counts it.                                                  *)
LEMMA JobLeft ==
    ASSUME TypeOK, CreationInv, JobInv, [Next]_vars, ~stop,
           NEW w \in Workers, pc[w] \in InJob,
           ~(pc'[w] \in InJob /\ job'[w] = job[w])
    PROVE  pc[w] = "countJob"
<1>1. PICK u \in Workers : ClaimJob(u) \/ CountJob(u) \/ Abandons(u)
  BY JobFrame
<1>2. ~Abandons(u)
  BY DEF Abandons
<1>3. u = w
  <2>1. CASE u # w
    <3>1. Same(w)
      BY <1>1, <1>2, <2>1, OthersStay DEF WorkerStep
    <3> QED BY <3>1 DEF Same
  <2> QED BY <2>1
<1>4. ~ClaimJob(w)
  BY DEF ClaimJob, InJob, Working, Searching, Finding, Unnumbered, Admitted
<1> QED BY <1>1, <1>2, <1>3, <1>4 DEF CountJob

(* A prefix is searched once, and what is covered stays covered.           *)
LEMMA SearchedStays ==
    ASSUME TypeOK, FreshInv, [Next]_vars
    PROVE  /\ \A w \in Workers : FinishPrefix(w) => searched'[prefix[w]] = 1
           /\ \A p \in Prefixes : searched[p] = 1 => searched'[p] = 1
           /\ \A p \in Prefixes :
                  searched'[p] # 0 =>
                      \/ searched[p] # 0
                      \/ \E w \in Workers : FinishPrefix(w) /\ prefix[w] = p
<1>0. searched \in [Prefixes -> Nat] /\ \A w \in Workers : prefix[w] \in Prefixes
  BY DEF TypeOK
<1>1. ASSUME NEW w \in Workers, FinishPrefix(w)
      PROVE  /\ searched[prefix[w]] = 0
             /\ searched' = [searched EXCEPT ![prefix[w]] = 1]
  <2>1. searched[prefix[w]] = 0
    BY <1>1 DEF FreshInv, Fresh, FinishPrefix, Searching
  <2>2. searched' = [searched EXCEPT ![prefix[w]] = @ + 1]
    BY <1>1 DEF FinishPrefix
  <2> QED BY <1>0, <2>1, <2>2
<1> QED BY <1>0, <1>1, SearchedFrame

LEMMA CoveredStays ==
    ASSUME TypeOK, TypeOK', [Next]_vars, NEW e, Covered(e)
    PROVE  Covered(e)'
<1>1. HitLimit => HitLimit'
  BY HitLimitStays
<1>2. Numbered \subseteq Numbered'
  BY Monotone DEF Numbered
<1> QED BY <1>1, <1>2 DEF Covered

(* A job that ends by itself has no further prefix.                        *)
LEMMA NothingLeft ==
    ASSUME NEW p \in Prefixes, NEW q \in Prefixes,
           LastOfStride(p), q % JobCount = p % JobCount
    PROVE  q <= p
<1>1. /\ PrefixCount \in Nat /\ JobCount \in Nat \ {0}
      /\ p \in Nat /\ q \in Nat /\ p < PrefixCount /\ q < PrefixCount
  BY CountsTyped DEF Prefixes
<1>2. p + JobCount >= PrefixCount
  BY <1>1 DEF LastOfStride
<1>3. ~(p < q)
  <2>1. p < q => p + JobCount <= q
    BY <1>1, StrideApart
  <2> QED BY <1>1, <1>2, <2>1
<1> QED BY <1>1, <1>3

LEMMA SearchedIsCovered ==
    ASSUME TypeOK, TypeOK', ProgressInv, FreshInv, [Next]_vars,
           NEW p \in Prefixes, searched'[p] # 0, NEW i \in 1 .. Len(Leaves[p])
    PROVE  Covered(Leaves[p][i])'
<1>1. Covered(Leaves[p][i])
  <2>1. CASE searched[p] # 0
    BY <2>1 DEF ProgressInv
  <2>2. ASSUME NEW w \in Workers, FinishPrefix(w), prefix[w] = p
        PROVE  Covered(Leaves[p][i])
    <3>1. pc[w] = "search" /\ leaf[w] = Len(Leaves[p])
      BY <2>2 DEF FinishPrefix
    <3>2. Ahead(w, i) \/ Covered(Leaves[p][i])
      BY <2>2, <3>1 DEF ProgressInv, Progress, Searching
    <3>3. ~Ahead(w, i)
      <4>1. leaf[w] \in Nat /\ i \in 1 .. leaf[w]
        BY <3>1 DEF TypeOK
      <4> QED BY <3>1, <4>1 DEF Ahead, Unnumbered, Admitted
    <3> QED BY <3>2, <3>3
  <2> QED BY <2>1, <2>2, SearchedStays
<1>2. PICK e : e = Leaves[p][i]
  OBVIOUS
<1>3. Covered(e)'
  BY <1>1, <1>2, CoveredStays
<1>4. Leaves' = Leaves
  BY SessionStays
<1> QED BY <1>2, <1>3, <1>4 DEF Covered

(* Behind a worker that goes on at its prefix or enters one every leaf is  *)
(* covered, *)
LEMMA BehindIsCovered ==
    ASSUME TypeOK, TypeOK', CreationInv, PlaceInv, ProgressInv,
           [Next]_vars, NEW v \in Workers, pc'[v] \in Searching,
           NEW i \in 1 .. leaf'[v]
    PROVE  (Ahead(v, i) \/ Covered(Leaves[prefix[v]][i]))'
<1>0. /\ leaf[v] \in Nat /\ leaf'[v] \in Nat /\ i \in Nat /\ i >= 1 /\ i <= leaf'[v]
      /\ Leaves' = Leaves
  <2>1. leaf[v] \in Nat /\ leaf'[v] \in Nat
    BY DEF TypeOK
  <2> QED BY <2>1, SessionStays
<1>1. CASE Enters(v)
  BY <1>0, <1>1 DEF Enters
<1>2. CASE Proceeds(v)
  <2>1. pc[v] \in Searching /\ prefix'[v] = prefix[v]
    BY <1>2 DEF Proceeds
  <2>2. ASSUME Covered(Leaves[prefix[v]][i])
        PROVE  Covered(Leaves[prefix[v]][i])'
    <3>1. PICK e : e = Leaves[prefix[v]][i]
      OBVIOUS
    <3>2. Covered(e)'
      BY <2>2, <3>1, CoveredStays
    <3> QED BY <1>0, <2>1, <3>1, <3>2 DEF Covered
  <2>3. CASE pc[v] = "search" /\ pc'[v] \in Unnumbered /\ leaf'[v] = leaf[v] + 1
    <3>1. CASE i = leaf'[v]
      BY <2>3, <3>1 DEF Ahead
    <3>2. CASE i <= leaf[v]
      <4>1. i \in 1 .. leaf[v] /\ ~Ahead(v, i)
        BY <1>0, <2>3, <3>2 DEF Ahead, Unnumbered, Admitted
      <4> QED BY <2>1, <2>2, <4>1 DEF ProgressInv, Progress
    <3> QED BY <1>0, <2>3, <3>1, <3>2
  <2>4. CASE leaf'[v] = leaf[v]
    <3>1. Ahead(v, i) \/ Covered(Leaves[prefix[v]][i])
      BY <1>0, <2>1, <2>4 DEF ProgressInv, Progress
    <3>2. CASE Ahead(v, i)
      <4>1. pc[v] \in Unnumbered /\ i = leaf[v]
        BY <1>0, <2>4, <3>2 DEF Ahead
      <4>2. CASE pc'[v] \in Unnumbered
        BY <2>4, <4>1, <4>2 DEF Ahead
      <4>3. CASE TakesNumber(v)
        <5>1. Found(v) \in Numbered'
          BY <4>3, NumberedGrows
        <5>2. Leaves[prefix'[v]][i] = Found(v)
          BY <2>1, <4>1 DEF Found
        <5>3. Leaves'[prefix'[v]][i] \in Numbered'
          BY <1>0, <5>1, <5>2
        <5> QED BY <5>3 DEF Covered
      <4>4. CASE HitLimit
        BY <4>4, HitLimitStays DEF Covered
      <4>5. pc'[v] \in Unnumbered \/ TakesNumber(v) \/ HitLimit
        BY <4>1, EachSearches
      <4> QED BY <4>2, <4>3, <4>4, <4>5
    <3> QED BY <2>2, <3>1, <3>2
  <2> QED BY <1>2, <2>3, <2>4 DEF Proceeds
<1> QED BY <1>1, <1>2, EachMoves
        DEF Moves, Continues, Draws, InJob, Working, Searching, Finding, Unnumbered, Admitted

(* and every earlier prefix of the job is searched.                        *)
LEMMA EarlierIsSearched ==
    ASSUME TypeOK, TypeOK', CreationInv, JobInv, FreshInv, ProgressInv,
           [Next]_vars, NEW v \in Workers, pc'[v] \in InJob,
           NEW p \in JobPrefixes(job'[v]), p < prefix'[v]
    PROVE  searched'[p] = 1
<1>0. /\ p \in Prefixes /\ p \in Nat /\ p % JobCount = job'[v] /\ JobCount \in Nat \ {0}
      /\ prefix[v] \in Nat /\ \A j \in Jobs : j \in Nat /\ j < JobCount
  <2>1. prefix[v] \in Prefixes
    BY DEF TypeOK
  <2> QED BY <2>1, CountsTyped DEF JobPrefixes, Jobs
<1>1. CASE Proceeds(v) \/ Enters(v)
  <2>1. /\ pc[v] \in InJob /\ p \in JobPrefixes(job[v]) /\ prefix'[v] = prefix[v]
    BY <1>1 DEF Proceeds, Enters, InJob
  <2>2. p < prefix[v]
    BY <1>0, <2>1
  <2> QED BY <1>0, <2>1, <2>2, SearchedStays DEF ProgressInv, Progress
<1>2. CASE Draws(v)
  <2>1. PICK j \in Jobs : j = job'[v] /\ j = prefix'[v]
    <3>1. \E j \in Jobs : j = jobOrder[nextJob] /\ ~Drawn(j)
      BY <1>2, NextUndrawn DEF Draws
    <3> QED BY <1>2, <3>1 DEF Draws
  <2>2. j \in Nat /\ j < JobCount /\ p < j /\ p % JobCount = j
    BY <1>0, <2>1
  <2>3. p % JobCount = p
    BY <1>0, <2>2, SmallRemainder
  <2> QED BY <1>0, <2>2, <2>3
<1>3. CASE Continues(v)
  <2>1. /\ pc[v] = "prefixDone" /\ pc[v] \in InJob /\ p \in JobPrefixes(job[v])
        /\ ~stop /\ prefix'[v] = prefix[v] + JobCount /\ p % JobCount = job[v]
    BY <1>0, <1>3 DEF Continues, JobPrefixes, InJob, Working
  <2>2. CASE p < prefix[v]
    BY <1>0, <2>1, <2>2, SearchedStays DEF ProgressInv, Progress
  <2>3. CASE p = prefix[v]
    BY <1>0, <2>1, <2>3, SearchedStays DEF ProgressInv, Progress
  <2>4. CASE prefix[v] < p
    <3>1. prefix[v] % JobCount = job[v]
      BY <2>1, JobTyped
    <3>2. prefix[v] + JobCount <= p
      BY <1>0, <2>1, <2>4, <3>1, StrideApart
    <3> QED BY <1>0, <2>1, <3>2
  <2> QED BY <1>0, <2>2, <2>3, <2>4
<1> QED BY <1>1, <1>2, <1>3, EachMoves DEF Moves

LEMMA ProgressOfEach ==
    ASSUME TypeOK, TypeOK', CreationInv, PlaceInv, JobInv, JobInv', FreshInv,
           ProgressInv, [Next]_vars, NEW v \in Workers
    PROVE  Progress(v)'
<1>0. Leaves' = Leaves /\ (stop => stop')
  BY SessionStays, Monotone
<1>1. ASSUME pc'[v] = "prefixDone"
      PROVE  stop' \/ searched'[prefix'[v]] = 1
  <2>1. pc[v] \in InJob /\ prefix'[v] = prefix[v] /\ prefix[v] \in Prefixes
    BY <1>1, EachMoves DEF Moves, Enters, Continues, Draws, Proceeds, InJob, Working, TypeOK
  <2>2. CASE pc[v] = "prefixDone"
    BY <1>0, <2>1, <2>2, SearchedStays DEF ProgressInv, Progress
  <2>3. CASE FinishPrefix(v)
    BY <2>1, <2>3, SearchedStays
  <2> QED BY <1>1, <2>2, <2>3, EachSearches
<1>2. ASSUME pc'[v] = "countJob", NEW p \in JobPrefixes(job'[v])
      PROVE  searched'[p] = 1
  <2>0. p \in Prefixes
    BY DEF JobPrefixes
  <2>1. /\ Proceeds(v) /\ job'[v] = job[v] /\ prefix[v] \in Prefixes
        /\ p \in JobPrefixes(job[v])
    BY <1>2, EachMoves DEF Moves, Enters, Continues, Draws, Proceeds, InJob, Working, TypeOK
  <2>2. CASE pc[v] = "countJob"
    BY <2>0, <2>1, <2>2, SearchedStays DEF ProgressInv, Progress
  <2>3. CASE LeavePrefix(v)
    <3>1. pc[v] = "prefixDone" /\ pc[v] \in InJob /\ ~stop /\ LastOfStride(prefix[v])
      BY <1>2, <2>3 DEF LeavePrefix, Goto, TypeOK, InJob, Working
    <3>2. p % JobCount = prefix[v] % JobCount
      BY <2>1, <3>1, JobTyped DEF JobPrefixes
    <3>3. p <= prefix[v]
      BY <2>0, <2>1, <3>1, <3>2, NothingLeft
    <3>4. p < prefix[v] \/ p = prefix[v]
      <4>1. p \in Nat /\ prefix[v] \in Nat
        BY <2>0, <2>1, CountsTyped
      <4> QED BY <3>3, <4>1
    <3>5. searched[p] = 1
      BY <2>0, <2>1, <3>1, <3>4 DEF ProgressInv, Progress
    <3> QED BY <2>0, <3>5, SearchedStays
  <2> QED BY <1>2, <2>2, <2>3, EachSearches
<1>3. pc'[v] \in InJob =>
          \A p \in JobPrefixes(job'[v]) : p < prefix'[v] => searched'[p] = 1
  BY EarlierIsSearched
<1>4. pc'[v] \in Searching =>
          \A i \in 1 .. leaf'[v] : (Ahead(v, i) \/ Covered(Leaves[prefix[v]][i]))'
  BY BehindIsCovered
<1> QED BY <1>0, <1>1, <1>2, <1>3, <1>4 DEF Progress

(* A job is given back when it is searched, unless the workers are to stop.*)
LEMMA ReturnedIsSearched ==
    ASSUME TypeOK, TypeOK', CreationInv, JobInv, FreshInv, ProgressInv, [Next]_vars,
           ~stop', NEW j \in Returned', NEW p \in JobPrefixes(j)
    PROVE  searched'[p] = 1
<1>0. ~stop /\ p \in Prefixes /\ j \in Jobs /\ Drawn(j)' /\ ~Held(j)'
  <2>1. ~stop
    BY Monotone
  <2> QED BY <2>1 DEF Returned, JobPrefixes
<1>1. CASE j \in Returned
  BY <1>0, <1>1, SearchedStays DEF ProgressInv
<1>2. CASE Held(j)
  <2>1. PICK w \in Workers : pc[w] \in InJob /\ job[w] = j
    BY <1>2 DEF Held
  <2>2. ~(pc'[w] \in InJob /\ job'[w] = job[w])
    BY <1>0, <2>1 DEF Held
  <2>3. pc[w] = "countJob"
    BY <1>0, <2>1, <2>2, JobLeft
  <2>4. searched[p] = 1
    BY <1>0, <2>1, <2>3 DEF ProgressInv, Progress
  <2> QED BY <1>0, <2>4, SearchedStays
<1>3. CASE ~Drawn(j)
  <2>0. /\ nextJob \in Nat /\ nextJob' \in Nat /\ jobOrder' = jobOrder
        /\ \A i \in Jobs : i \in Nat
    BY SessionStays, CountsTyped DEF TypeOK
  <2>1. PICK i \in Jobs : i < nextJob' /\ jobOrder[i] = j
    BY <1>0, <2>0 DEF Drawn
  <2>2. ~(i < nextJob)
    BY <1>3, <2>1 DEF Drawn
  <2>3. nextJob' # nextJob
    BY <2>0, <2>1, <2>2
  <2>4. PICK w \in Workers : ClaimJob(w)
    BY <2>3, JobFrame DEF CountJob, Abandons
  <2>5. nextJob' = nextJob + 1
    BY <2>4 DEF ClaimJob
  <2>6. i = nextJob /\ i < JobCount
    BY <2>0, <2>1, <2>2, <2>5, CountsTyped DEF Jobs
  <2>7. ~interrupted
    <3>1. nextJob < JobCount /\ JobCount \in Nat
      BY <2>6, CountsTyped
    <3>2. interrupted => stop' = (stop \/ interrupted)
      BY <2>4 DEF ClaimJob
    <3> QED BY <3>2, Zenon
  <2>8. /\ pc' = [pc EXCEPT ![w] = "enterPrefix"]
        /\ job' = [job EXCEPT ![w] = jobOrder[nextJob]]
    BY <2>0, <2>4, <2>6, <2>7, CountsTyped DEF ClaimJob, Goto
  <2>9. pc'[w] = "enterPrefix" /\ job'[w] = j
    BY <2>1, <2>6, <2>8 DEF TypeOK
  <2> QED BY <1>0, <2>9 DEF Held, InJob
<1> QED BY <1>0, <1>1, <1>2, <1>3 DEF Returned

LEMMA ProgressStep ==
    ASSUME TypeOK, TypeOK', CreationInv, PlaceInv, JobInv, JobInv', FreshInv,
           ProgressInv, [Next]_vars
    PROVE  ProgressInv'
<1>1. Leaves' = Leaves
  BY SessionStays
<1>2. \A p \in Prefixes :
          searched'[p] # 0 => \A i \in 1 .. Len(Leaves[p]) : Covered(Leaves[p][i])'
  BY SearchedIsCovered
<1>3. (\A p \in Prefixes :
           searched[p] # 0 => \A i \in 1 .. Len(Leaves[p]) : Covered(Leaves[p][i]))'
  BY <1>1, <1>2 DEF Covered
<1>4. \A w \in Workers : Progress(w)'
  BY ProgressOfEach
<1>5. (stop \/ \A j \in Returned : \A p \in JobPrefixes(j) : searched[p] = 1)'
  BY ReturnedIsSearched
<1> QED BY <1>3, <1>4, <1>5 DEF ProgressInv

-----------------------------------------------------------------------------
(* The counts stay within their bounds.                                    *)
LEMMA JobsDoneWithin ==
    ASSUME TypeOK, CreationInv, JobInv, [Next]_vars
    PROVE  jobsDone' \in 0 .. JobCount
<1>0. /\ jobsDone \in 0 .. JobCount /\ JobCount \in Nat
      /\ jobsDone <= Cardinality(Returned)
  BY CountsTyped DEF TypeOK, JobInv
<1>1. ASSUME NEW w \in Workers, CountJob(w)
      PROVE  jobsDone' \in 0 .. JobCount
  <2>1. pc[w] = "countJob" /\ jobsDone' = jobsDone + 1
    BY <1>1 DEF CountJob
  <2>2. pc[w] \in InJob
    BY <2>1 DEF InJob, Working
  <2>3. job[w] \in Jobs /\ job[w] \notin Returned
    BY <2>2, JobTyped DEF Returned, Held
  <2>4. Returned \subseteq Jobs \ {job[w]}
    BY <2>3 DEF Returned
  <2>5. /\ IsFiniteSet(Jobs \ {job[w]})
        /\ Cardinality(Jobs \ {job[w]}) = JobCount - 1
    BY <1>0, <2>3, JobsFinite, FS_RemoveElement
  <2>6. Cardinality(Returned) \in Nat /\ Cardinality(Returned) <= JobCount - 1
    BY <1>0, <2>4, <2>5, FS_Subset, ReturnedFinite
  <2> QED BY <1>0, <2>1, <2>6
<1>2. ASSUME NEW w \in Workers, ClaimJob(w) \/ Abandons(w)
      PROVE  jobsDone' = jobsDone
  BY <1>2 DEF ClaimJob, Abandons
<1>3. CASE UNCHANGED <<nextJob, jobsDone>>
  BY <1>0, <1>3
<1> QED BY <1>0, <1>1, <1>2, <1>3, JobFrame

LEMMA RunningWithin ==
    ASSUME RunningInv, CreationInv, created \in 0 .. WorkerCount
    PROVE  running \in 0 .. WorkerCount
<1>1. created \in Nat /\ WorkerCount \in Nat /\ \A w \in Workers : w \in Nat /\ w >= 1
  BY CountsTyped DEF Workers
<1>2. ActiveWorkers \subseteq 1 .. created
  BY <1>1 DEF ActiveWorkers, Active, CreationInv, Workers
<1>3. Cardinality(ActiveWorkers) \in Nat /\ Cardinality(ActiveWorkers) <= created
  BY <1>1, <1>2, BoundedSubset
<1>4. mainPc = "created" => created < WorkerCount
  BY DEF CreationInv, Creating
<1> QED BY <1>1, <1>3, <1>4 DEF RunningInv

LEMMA CreatedWithin ==
    ASSUME TypeOK, CreationInv, [Next]_vars
    PROVE  created' \in 0 .. WorkerCount
<1>0. created \in 0 .. WorkerCount /\ WorkerCount \in Nat
  BY CountsTyped DEF TypeOK
<1>1. CASE WorkerCreated
  BY <1>0, <1>1 DEF WorkerCreated, CreationInv, Creating
<1>2. CASE MainThread /\ ~WorkerCreated
  <2>1. created' = created
    BY <1>2, ReportStep, ExitStep
       DEF MainThread, CreateWorker, CreateFails, LockCompletion, TestBatch, StartWait,
           WaitExpires, WakeUp, PollInterrupt, SwapBuffers, AppendBatch, PrintNext, JoinWorkers,
           Assess, watchVars
  <2> QED BY <1>0, <2>1
<1>3. CASE Interrupt \/ UNCHANGED vars
  BY <1>0, <1>3 DEF Interrupt, vars, watchVars
<1>4. ASSUME NEW w \in Workers, WorkerStep(w) \/ CheckFails(w)
      PROVE  created' \in 0 .. WorkerCount
  BY <1>0, <1>4, OthersStay
<1> QED BY <1>1, <1>2, <1>3, <1>4 DEF Next

-----------------------------------------------------------------------------
LEMMA OrderExists ==
    ASSUME Init
    PROVE  jobOrder \in JobOrders /\ jobOrder \in [Jobs -> Jobs]
<1>1. jobOrder \in JobOrders
  BY DEF Init
<1>2. JobOrders \subseteq [Jobs -> Jobs]
  BY DEF JobOrders
<1> QED BY <1>1, <1>2

LEMMA IInvInit == Init => IInv
<1> SUFFICES ASSUME Init
             PROVE  IInv
  OBVIOUS
<1>0. /\ session \in Sessions /\ JobCount \in Nat \ {0} /\ WorkerCount \in Nat \ {0}
      /\ PrefixCount \in Nat \ {0} /\ 0 \in Prefixes /\ 0 \in Jobs
      /\ Threshold \in Nat \ {0} /\ Capacity \in Nat /\ Limit \in Nat
  BY SessionTyped, CountsTyped DEF Init, Prefixes, Jobs
<1>2. \A w \in Workers : pc[w] = "absent"
  BY DEF Init
<1>3. /\ mainPc = "create" /\ drainFor = "watch" /\ owner = FALSE /\ count = 0
      /\ taken = 0 /\ shown = 0 /\ front = 0 /\ numbering = {} /\ nextJob = 0 /\ jobsDone = 0
      /\ file = <<>> /\ printed = <<>> /\ mirrored = 0 /\ running = 0 /\ created = 0
      /\ limitClaims = 0 /\ status = "running" /\ exitStatus = "success"
      /\ stop = FALSE /\ internalError = FALSE /\ fileFailed = FALSE /\ interrupted = FALSE
  BY DEF Init
<1>4. /\ buffer \in [0 .. 1 -> Seq(Announcement)] /\ buffer[0] = <<>> /\ buffer[1] = <<>>
  <2>1. <<>> \in Seq(Announcement)
    OBVIOUS
  <2> QED BY <2>1 DEF Init
<1>5. ActiveWorkers = {} /\ Recording = {}
  BY <1>2 DEF ActiveWorkers, Active, Recording
<1>6. Pending = <<>> /\ Unwritten = <<>> /\ Unprinted = <<>>
  <2>1. SubSeq(<<>>, 1, 0) = <<>> /\ <<>> \o <<>> = <<>> /\ 1 - 0 = 1 /\ 0 + 1 = 1
    OBVIOUS
  <2>2. Pending = <<>>
    BY <1>3, <1>4, <2>1 DEF Pending
  <2> QED BY <1>3, <1>4, <2>1, <2>2 DEF Unwritten, Unprinted
<1>7. TypeOK
  <2>1. /\ pc \in [Workers -> WorkerSteps] /\ job \in [Workers -> Jobs]
        /\ prefix \in [Workers -> Prefixes] /\ leaf \in [Workers -> Nat]
        /\ claim \in [Workers -> Nat]
    BY <1>0 DEF Init, WorkerSteps
  <2>2. searched \in [Prefixes -> Nat] /\ total \in [Kinds -> Nat]
    BY DEF Init
  <2>3. file \in Seq(Announcement) /\ printed \in Seq(Announcement)
    BY <1>3
  <2>4. /\ count \in 0 .. Capacity /\ taken \in 0 .. Capacity /\ jobsDone \in 0 .. JobCount
        /\ running \in 0 .. WorkerCount /\ created \in 0 .. WorkerCount
        /\ seen \in 0 .. WorkerCount
    BY <1>0 DEF Init
  <2>5. nextJob \in Nat /\ limitClaims \in Nat /\ shown \in Nat
    BY <1>3
  <2>8. front \in 0 .. 1
    BY <1>3
  <2>9. stop \in BOOLEAN /\ internalError \in BOOLEAN /\ owner \in BOOLEAN
    BY <1>3
  <2>6. /\ drainFor \in {"watch", "report", "cleanup"}
        /\ interrupted \in BOOLEAN /\ fileFailed \in BOOLEAN /\ mirrored \in Nat
        /\ exitStatus \in {"success", "failure", "sigint"}
        /\ status \in {"running", "complete", "interrupted", "solutionLimit", "failed"}
        /\ numbering \subseteq Announcement
    BY <1>3
  <2>7. mainPc \in MainSteps
    BY <1>3 DEF MainSteps
  <2> QED BY <1>0, <1>4, <2>1, <2>2, <2>3, <2>4, <2>5, <2>6, <2>7, <2>8, <2>9, OrderExists
      DEF TypeOK
<1>8. NoStrandedWaiter
  BY <1>2 DEF NoStrandedWaiter, Waiters
<1>9. CreationInv
  BY <1>0, <1>2, <1>3 DEF CreationInv, Creating, Workers
<1>10. RunningInv
  BY <1>3, <1>5, FS_EmptySet DEF RunningInv
<1>11. WatchInv
  BY <1>3, <1>5 DEF WatchInv, Draining, Judging
<1>12. PlaceInv
  BY <1>2 DEF PlaceInv, Place, Searching, Finding, Unnumbered, Admitted
<1>13. NumbersInv
  <2>1. \A kind \in Kinds : total[kind] = 0 /\ OfKind(kind) = {}
    BY <1>3 DEF Init, OfKind
  <2>2. 1 .. 0 = {}
    OBVIOUS
  <2> QED BY <1>3, <2>1, <2>2, FS_EmptySet DEF NumbersInv, Numbered
<1>14. ClaimsInv
  BY <1>0, <1>3, <1>5, FS_EmptySet DEF ClaimsInv
<1>15. BufferInv
  BY <1>3, <1>4 DEF BufferInv
<1>16. FileInv
  BY <1>3, <1>6 DEF FileInv, FileLine, InOrder, Distinct, Items
<1>17. TerminalInv
  BY <1>3, <1>6 DEF TerminalInv, TerminalLine, Distinct
<1>18. MirroredInv
  <2>1. SymmetricNumbered \ Items(Unwritten) = {}
    BY <1>3 DEF SymmetricNumbered
  <2> QED BY <1>3, <2>1, FS_EmptySet DEF MirroredInv
<1>19. Returned = {}
  BY <1>3, CountsTyped DEF Returned, Drawn
<1>20. JobInv
  BY <1>2, <1>3, <1>19, OrderExists, FS_EmptySet
     DEF JobInv, InJob, Working, Searching, Finding, Unnumbered, Admitted, Gone
<1>21. \A p \in Prefixes : searched[p] = 0
  BY DEF Init
<1>22. FreshInv
  <2>1. \A p \in Prefixes : Untouched(p)
    BY <1>3, <1>21 DEF Untouched, Numbered
  <2> QED BY <1>2, <2>1
          DEF FreshInv, Fresh, JobPrefixes, InJob, Working, Searching, Finding, Unnumbered,
              Admitted
<1>23. ProgressInv
  BY <1>2, <1>19, <1>21
     DEF ProgressInv, Progress, InJob, Working, Searching, Finding, Unnumbered, Admitted
<1>24. StopInv /\ VerdictInv
  BY <1>3 DEF StopInv, VerdictInv
<1> QED BY <1>7, <1>8, <1>9, <1>10, <1>11, <1>12, <1>13, <1>14, <1>15, <1>16, <1>17, <1>18,
           <1>20, <1>22, <1>23, <1>24 DEF IInv, BufferInvariant

LEMMA RunningWithinNext ==
    (RunningInv /\ CreationInv /\ created \in 0 .. WorkerCount
        => running \in 0 .. WorkerCount)'
<1>1. RunningInv /\ CreationInv /\ created \in 0 .. WorkerCount
        => running \in 0 .. WorkerCount
  BY RunningWithin
<1> QED BY <1>1, PTL

LEMMA WaitersWatchedNext == (TypeOK /\ PlaceInv /\ WatchInv => NoStrandedWaiter)'
<1>1. TypeOK /\ PlaceInv /\ WatchInv => NoStrandedWaiter
  BY WaitersWatched
<1> QED BY <1>1, PTL

LEMMA IInvStep == IInv /\ [Next]_vars => IInv'
<1> SUFFICES ASSUME IInv, [Next]_vars
             PROVE  IInv'
  OBVIOUS
<1>0. /\ TypeOK /\ NoStrandedWaiter /\ CreationInv /\ RunningInv /\ WatchInv /\ PlaceInv
      /\ NumbersInv /\ ClaimsInv /\ BufferInv /\ FileInv /\ TerminalInv /\ MirroredInv
      /\ JobInv /\ FreshInv /\ ProgressInv /\ StopInv /\ VerdictInv
  BY DEF IInv, BufferInvariant
<1>1. CreationInv' /\ RunningInv'
  BY <1>0, CreationStep, RunningStep
<1>2. running' \in 0 .. WorkerCount
  BY <1>0, <1>1, CreatedWithin, RunningWithinNext
<1>3. jobsDone' \in 0 .. JobCount
  BY <1>0, JobsDoneWithin
<1>4. TypeOK'
  BY <1>0, <1>2, <1>3, TypeStep
<1>5. PlaceInv' /\ WatchInv'
  BY <1>0, <1>4, PlaceStep, WatchStep
<1>6. NoStrandedWaiter'
  BY <1>4, <1>5, WaitersWatchedNext
<1>7. NumbersInv' /\ ClaimsInv'
  BY <1>0, <1>4, NumbersStep, ClaimsStep
<1>8. BufferInv'
  BY <1>0, <1>4, BufferStep
<1>9. FileInv'
  BY <1>0, <1>4, <1>8, FileStep
<1>10. TerminalInv'
  BY <1>0, <1>4, <1>8, TerminalStep
<1>11. MirroredInv'
  BY <1>0, <1>4, <1>8, MirroredStep
<1>12. JobInv'
  BY <1>0, <1>4, JobStep
<1>13. FreshInv' /\ ProgressInv'
  BY <1>0, <1>4, <1>12, FreshStep, ProgressStep
<1>14. StopInv' /\ VerdictInv'
  BY <1>0, <1>4, StopStep, VerdictStep
<1> QED BY <1>1, <1>4, <1>5, <1>6, <1>7, <1>8, <1>9, <1>10, <1>11, <1>12, <1>13, <1>14
        DEF IInv, BufferInvariant

-----------------------------------------------------------------------------
(* The inductive invariant holds in every reachable state.                 *)
THEOREM Invariance == Spec => []IInv
  BY IInvInit, IInvStep, PTL DEF Spec

(* No signal of a worker that filled the buffer or ended is lost between   *)
(* the main thread's look and its wait.                                    *)
THEOREM FlushSafe == Spec => []NoLostFlush
<1>1. IInv => NoLostFlush
  BY DEF IInv, WatchInv, NoLostFlush
<1> QED BY <1>1, Invariance, PTL

(* The types and the buffer's size are kept, and no worker waits for room  *)
(* that nobody will make.                                                  *)
THEOREM WaitersSafe == Spec => []BufferInvariant
<1>1. IInv => BufferInvariant
  BY DEF IInv
<1> QED BY <1>1, Invariance, PTL

(* At the end nothing is left in either buffer.                            *)
LEMMA NothingLeftOver ==
    ASSUME IInv, mainPc = "done"
    PROVE  Pending = <<>> /\ Unwritten = <<>> /\ Unprinted = <<>>
<1>0. TypeOK /\ WatchInv /\ BufferInv
  BY DEF IInv, BufferInvariant
<1>1. count = 0 /\ taken = 0 /\ shown = 0
  BY <1>0 DEF WatchInv, BufferInv
<1>2. Pending = <<>>
  BY <1>0, <1>1, BufferTyped
<1>3. SubSeq(buffer[1 - front], shown + 1, taken) = <<>>
  <2>1. buffer[1 - front] \in Seq(Announcement)
    BY <1>0, BufferTyped
  <2>2. PICK q : q = buffer[1 - front]
    OBVIOUS
  <2>3. SubSeq(q, 0 + 1, 0) = <<>>
    BY <2>1, <2>2
  <2> QED BY <1>1, <2>2, <2>3
<1>4. <<>> \o <<>> = <<>>
  OBVIOUS
<1> QED BY <1>2, <1>3, <1>4 DEF Unwritten, Unprinted

LEMMA FileFromInvariant == IInv => FileIsComplete
<1> SUFFICES ASSUME IInv
             PROVE  FileIsComplete
  OBVIOUS
<1>0. TypeOK /\ FileInv /\ StopInv /\ VerdictInv
  BY DEF IInv, BufferInvariant
<1>1. ASSUME mainPc = "done", fileFailed
      PROVE  exitStatus = "failure"
  BY <1>0, <1>1 DEF StopInv, VerdictInv
<1>2. ASSUME mainPc = "done", ToFile, ~fileFailed
      PROVE  Items(file) = numbering
  <2>1. Items(FileLine) = numbering
    BY <1>0, <1>2 DEF FileInv
  <2>2. file \in Seq(Announcement)
    BY <1>0 DEF TypeOK
  <2>3. FileLine = file
    BY <1>2, <2>2, NothingLeftOver DEF FileLine
  <2> QED BY <2>1, <2>3
<1> QED BY <1>0, <1>1, <1>2 DEF FileIsComplete, FileInv

(* The solutions file receives every solution once and in order; a failed  *)
(* write leaves a beginning of them and a failing exit status.             *)
THEOREM FileSafe == Spec => []FileIsComplete
  BY FileFromInvariant, Invariance, PTL

LEMMA PrintedFromInvariant == IInv => PrintedInOrder
<1> SUFFICES ASSUME IInv
             PROVE  PrintedInOrder
  OBVIOUS
<1>0. TypeOK /\ BufferInv /\ TerminalInv /\ MirroredInv
  BY DEF IInv, BufferInvariant
<1>1. /\ printed \in Seq(Announcement) /\ Unprinted \in Seq(Announcement)
      /\ Len(printed) \in Nat
  BY <1>0, LinesTyped
<1>2. /\ \A i \in 1 .. Len(printed) : i \in 1 .. Len(TerminalLine)
      /\ \A i \in 1 .. Len(printed) : TerminalLine[i] = printed[i]
  <2>1. PICK u \in Seq(Announcement) : u = Unprinted
    BY <1>1
  <2>2. Len(printed \o u) = Len(printed) + Len(u) /\ Len(u) \in Nat
    BY <1>1, <2>1
  <2> QED BY <1>1, <2>1, <2>2 DEF TerminalLine
<1>3. Distinct(printed)
  BY <1>0, <1>2 DEF TerminalInv, Distinct
<1>4. ASSUME NEW i \in 1 .. Len(printed)
      PROVE  /\ printed[i] \in numbering
             /\ printed[i].number = 1 \/ \E j \in 1 .. i - 1 : Follows(printed[i], printed[j])
  <2>1. i \in 1 .. Len(TerminalLine) /\ TerminalLine[i] = printed[i] /\ ToPrint(TerminalLine[i])
    BY <1>0, <1>2 DEF TerminalInv
  <2>2. \A j \in 1 .. i - 1 : TerminalLine[j] = printed[j]
    BY <1>1, <1>2
  <2> QED BY <1>0, <2>1, <2>2 DEF TerminalInv
<1>5. \A r \in Items(printed) : ToPrint(r)
  BY <1>0 DEF TerminalInv, Items
<1>6. ASSUME mainPc = "done"
      PROVE  /\ \A r \in numbering : ToPrint(r) => r \in Items(printed)
             /\ ~FullMirror => mirrored = Cardinality(SymmetricNumbered)
  <2>1. TerminalLine = printed
    BY <1>1, <1>6, NothingLeftOver DEF TerminalLine
  <2>2. \A r \in numbering : ToPrint(r) => r \in Items(printed)
    BY <1>0, <2>1 DEF TerminalInv, Items
  <2>3. Items(Unwritten) = {}
    BY <1>6, NothingLeftOver DEF Items
  <2>4. SymmetricNumbered \ Items(Unwritten) = SymmetricNumbered
    BY <2>3
  <2> QED BY <1>0, <2>2, <2>4 DEF MirroredInv
<1> QED BY <1>3, <1>4, <1>5, <1>6 DEF PrintedInOrder, InOrder, SymmetricNumbered

(* Whichever worker comes first, the terminal shows the solutions of each  *)
(* class in order, all that --print-limit admits, and the symmetric ones   *)
(* are all counted.                                                        *)
THEOREM PrintedSafe == Spec => []PrintedInOrder
  BY PrintedFromInvariant, Invariance, PTL

-----------------------------------------------------------------------------
(* The limit and the verdict. *)

LEMMA NumberedTyped ==
    ASSUME IInv
    PROVE  /\ IsFiniteSet(numbering) /\ Cardinality(numbering) \in Nat
           /\ total["PERMUTATION_FAIR"] \in Nat /\ total["ALL_SUBSET_PLACE_FAIR"] \in Nat
           /\ Limit \in Nat /\ limitClaims \in Nat
           /\ IsFiniteSet(Recording) /\ Cardinality(Recording) \in Nat
<1>0. TypeOK /\ NumbersInv /\ session \in Sessions
  BY DEF IInv, BufferInvariant, TypeOK
<1>1. total["PERMUTATION_FAIR"] \in Nat /\ total["ALL_SUBSET_PLACE_FAIR"] \in Nat
  BY <1>0 DEF TypeOK, Kinds
<1>2. IsFiniteSet(Recording)
  BY WorkersFinite, FS_Subset DEF Recording
<1>3. limitClaims \in Nat
  BY <1>0 DEF TypeOK
<1> QED BY <1>0, <1>1, <1>2, <1>3, SessionTyped, FS_CardinalityType DEF NumbersInv

(* The two totals count the numbered.                                      *)
LEMMA CountIs ==
    ASSUME IInv
    PROVE  total["PERMUTATION_FAIR"] + total["ALL_SUBSET_PLACE_FAIR"] = Cardinality(numbering)
<1>0. TypeOK /\ NumbersInv
  BY DEF IInv, BufferInvariant
<1> DEFINE P == OfKind("PERMUTATION_FAIR")
           Q == OfKind("ALL_SUBSET_PLACE_FAIR")
<1>1. \A r \in numbering : r.kind \in Kinds
  BY <1>0 DEF TypeOK, Announcement
<1>2. numbering = P \union Q /\ P \cap Q = {}
  BY <1>1 DEF OfKind, Kinds
<1>3. /\ Cardinality(P) = total["PERMUTATION_FAIR"]
      /\ Cardinality(Q) = total["ALL_SUBSET_PLACE_FAIR"]
      /\ IsFiniteSet(numbering)
  BY <1>0 DEF NumbersInv, Kinds
<1>4. IsFiniteSet(P) /\ IsFiniteSet(Q)
  BY <1>2, <1>3, FS_Subset
<1> HIDE DEF P, Q
<1>5. Cardinality(P \union Q) = Cardinality(P) + Cardinality(Q) - Cardinality(P \cap Q)
  BY <1>4, FS_Union
<1>6. Cardinality(P) \in Nat /\ Cardinality(Q) \in Nat /\ Cardinality(P \cap Q) = 0
  BY <1>2, <1>4, FS_CardinalityType, FS_EmptySet
<1> QED BY <1>2, <1>3, <1>5, <1>6

(* Whoever was admitted holds a place under the limit that no number takes; *)
LEMMA AdmittedBelowLimit ==
    ASSUME IInv, Limit # 0, NEW w \in Workers, w \in Recording
    PROVE  Cardinality(numbering) < Limit
<1>1. Cardinality(Recording) # 0
  BY NumberedTyped, FS_EmptySet
<1>2. Cardinality(numbering) + Cardinality(Recording) =
          IF limitClaims < Limit THEN limitClaims ELSE Limit
  BY DEF IInv, ClaimsInv
<1> QED BY <1>1, <1>2, NumberedTyped

(* and when nobody does, the claims and the numbers reach it together.     *)
LEMMA LimitReached ==
    ASSUME IInv, ActiveWorkers = {}, Limit # 0
    PROVE  /\ HitLimit <=> Cardinality(numbering) = Limit
           /\ HitLimit <=> Cardinality(numbering) >= Limit
<1>1. Recording = {}
  BY DEF Recording, ActiveWorkers, Active
<1>2. Cardinality(numbering) + Cardinality(Recording) =
          IF limitClaims < Limit THEN limitClaims ELSE Limit
  BY DEF IInv, ClaimsInv
<1>3. Cardinality(Recording) = 0
  BY <1>1, FS_EmptySet
<1> QED BY <1>2, <1>3, NumberedTyped DEF HitLimit

(* A verdict is given when the workers are gone.                           *)
LEMMA JudgedLast ==
    ASSUME IInv, status # "running" \/ mainPc \in Judging \/ drainFor # "watch"
    PROVE  ActiveWorkers = {} /\ mainPc \notin Creating
<1>0. WatchInv /\ VerdictInv
  BY DEF IInv
<1>1. drainFor # "watch"
  BY <1>0 DEF WatchInv, VerdictInv, Judging
<1> QED BY <1>0, <1>1 DEF WatchInv, Draining, Judging, Creating

LEMMA LimitFromInvariant == IInv => LimitRespected
<1> SUFFICES ASSUME IInv
             PROVE  LimitRespected
  OBVIOUS
<1>0. /\ TypeOK /\ NumbersInv /\ ClaimsInv /\ VerdictInv
      /\ IsFiniteSet(numbering) /\ numbering \subseteq Announcement
  BY NumberedTyped DEF IInv, BufferInvariant, TypeOK
<1>1. Cardinality(Numbered) = Cardinality(numbering)
  <2> DEFINE f == [r \in numbering |-> r.encoding]
  <2>1. f \in Injection(numbering, Numbered) /\ f \in Surjection(numbering, Numbered)
    BY <1>0 DEF NumbersInv, Numbered, Injection, IsInjective, Surjection
  <2>2. ExistsBijection(numbering, Numbered)
    BY <2>1 DEF ExistsBijection, Bijection
  <2> QED BY <1>0, <2>2, FS_Bijection
<1>2. ASSUME NEW kind \in Kinds
      PROVE  /\ {r.number : r \in {s \in numbering : s.kind = kind}} = 1 .. total[kind]
             /\ Cardinality({s \in numbering : s.kind = kind}) = total[kind]
  <2>1. total[kind] \in Nat
    BY <1>0 DEF TypeOK
  <2>2. \A r \in numbering : r.kind = kind => r.number \in 1 .. total[kind]
    <3>1. \A r \in numbering : r.number \in Nat \ {0}
      BY <1>0 DEF Announcement
    <3>2. \A r \in numbering : r.number <= total[r.kind]
      BY <1>0 DEF NumbersInv
    <3> QED BY <2>1, <3>1, <3>2
  <2>3. \A n \in 1 .. total[kind] : \E r \in numbering : r.kind = kind /\ r.number = n
    BY <1>0 DEF NumbersInv
  <2>4. Cardinality(OfKind(kind)) = total[kind]
    BY <1>0 DEF NumbersInv
  <2> QED BY <2>2, <2>3, <2>4 DEF OfKind
<1>3. ASSUME Limit # 0, status = "solutionLimit"
      PROVE  Cardinality(numbering) = Limit
  <2>1. HitLimit
    BY <1>0, <1>3 DEF VerdictInv
  <2> QED BY <1>3, <2>1, JudgedLast, LimitReached
<1> QED BY <1>0, <1>1, <1>2, <1>3 DEF LimitRespected, ClaimsInv

(* Claims overshoot --limit, solutions do not, and each has a number of    *)
(* its own in its class.                                                   *)
THEOREM LimitSafe == Spec => []LimitRespected
  BY LimitFromInvariant, Invariance, PTL

LEMMA CompleteFromInvariant ==
    ASSUME IInv, status = "complete"
    PROVE  /\ Numbered = AllLeaves /\ \A p \in Prefixes : searched[p] = 1
           /\ created = WorkerCount /\ ~internalError
<1>0. TypeOK /\ CreationInv /\ NumbersInv /\ JobInv /\ ProgressInv /\ StopInv /\ VerdictInv
  BY DEF IInv, BufferInvariant
<1>1. ~stop /\ ~HitLimit /\ ~internalError
  BY <1>0 DEF VerdictInv, StopInv
<1>2. ActiveWorkers = {} /\ mainPc \notin Creating
  BY JudgedLast
<1>3. created = WorkerCount
  <2>1. ~(created < WorkerCount)
    BY <1>0, <1>1, <1>2 DEF CreationInv
  <2> QED BY <1>0, <2>1, CountsTyped DEF TypeOK
<1>4. Returned = Jobs
  BY <1>0, <1>1, <1>2, <1>3, AllReturned
<1>5. ASSUME NEW p \in Prefixes
      PROVE  searched[p] = 1
  <2>1. p \in Nat /\ JobCount \in Nat \ {0}
    BY CountsTyped
  <2>2. p % JobCount \in Jobs
    BY <2>1, Division DEF Jobs
  <2>3. p \in JobPrefixes(p % JobCount)
    BY DEF JobPrefixes
  <2> QED BY <1>0, <1>1, <1>4, <2>2, <2>3 DEF ProgressInv
<1>6. AllLeaves \subseteq Numbered
  <2>1. SUFFICES ASSUME NEW p \in Prefixes, NEW i \in 1 .. Len(Leaves[p])
                 PROVE  Leaves[p][i] \in Numbered
    BY DEF AllLeaves, Items
  <2>2. searched[p] # 0
    BY <1>5
  <2>3. Covered(Leaves[p][i])
    BY <1>0, <2>2 DEF ProgressInv
  <2> QED BY <1>1, <2>3 DEF Covered
<1> QED BY <1>0, <1>1, <1>3, <1>5, <1>6 DEF NumbersInv

LEMMA StatusFromInvariant == IInv => StatusIsHonest
<1> SUFFICES ASSUME IInv
             PROVE  StatusIsHonest
  OBVIOUS
<1>1. status = "failed" => internalError \/ created < WorkerCount
  BY DEF IInv, VerdictInv
<1> QED BY <1>1, CompleteFromInvariant DEF StatusIsHonest

LEMMA StatusFromInvariantNext == IInv' => StatusIsHonest'
<1>1. IInv => StatusIsHonest
  BY StatusFromInvariant
<1> QED BY <1>1, PTL

(* What main reports is true of the search: "complete" of every prefix and *)
(* every configuration, "failed" of something that did fail.               *)
THEOREM StatusSafe == Spec => []StatusIsHonest
  BY StatusFromInvariant, Invariance, PTL

-----------------------------------------------------------------------------
(* The driver implements a session.                                        *)

LEMMA SessionInit == Init => Session!Init
<1> SUFFICES ASSUME Init
             PROVE  Session!Init
  OBVIOUS
<1>1. Numbered = {}
  BY DEF Init, Numbered
<1>2. total["PERMUTATION_FAIR"] + total["ALL_SUBSET_PLACE_FAIR"] = 0
  BY DEF Init, Kinds
<1> QED BY <1>1, <1>2 DEF Init, Session!Init

LEMMA FindImplements ==
    ASSUME IInv, [Next]_vars, NEW w \in Workers, TakesNumber(w)
    PROVE  Found(w) \in AllLeaves /\ Session!Find(Found(w))
<1>0. /\ TypeOK /\ PlaceInv /\ NumbersInv /\ FreshInv /\ WatchInv /\ VerdictInv
  BY DEF IInv, BufferInvariant
<1>1. w \in Recording /\ w \in ActiveWorkers
  BY DEF TakesNumber, Recording, ActiveWorkers, Active
<1>2. /\ Found(w) \in AllLeaves /\ Found(w) \notin Numbered /\ Kind(Found(w)) \in Kinds
  BY <1>0, NewNumber
<1>3. status = "running"
  BY <1>1, JudgedLast
<1>4. ~Session!AtLimit
  <2>1. Limit # 0 => Cardinality(numbering) < Limit
    BY <1>1, AdmittedBelowLimit
  <2> QED BY <2>1, CountIs, NumberedTyped DEF Session!AtLimit
<1>5. total'["PERMUTATION_FAIR"] + total'["ALL_SUBSET_PLACE_FAIR"]
          = total["PERMUTATION_FAIR"] + total["ALL_SUBSET_PLACE_FAIR"] + 1
  <2>1. PICK k \in Kinds : k = Kind(Found(w))
    BY <1>2
  <2>2. total' = [total EXCEPT ![k] = @ + 1] /\ total \in [Kinds -> Nat]
    BY <1>0, <2>1 DEF TakesNumber, TakeNumber, TypeOK
  <2> QED BY <2>1, <2>2, NumberedTyped DEF Kinds
<1>6. session' = session /\ interrupted' = interrupted /\ status' = status
  BY DEF TakesNumber, reportVars
<1>7. Numbered' = Numbered \union {Found(w)}
  BY NumberedGrows
<1>8. AllLeaves' = AllLeaves /\ Limit' = Limit
  BY <1>6 DEF AllLeaves, Limit, Leaves
<1> QED BY <1>2, <1>3, <1>4, <1>5, <1>6, <1>7, <1>8 DEF Session!Find

LEMMA ReportImplements ==
    ASSUME IInv, IInv', [Next]_vars, Report
    PROVE  Session!Conclude
<1>0. /\ TypeOK /\ CreationInv /\ WatchInv /\ StopInv /\ VerdictInv
  BY DEF IInv, BufferInvariant
<1>1. mainPc = "report" /\ drainFor # "cleanup" /\ status = "running"
  BY <1>0, ReportStep DEF VerdictInv, WatchInv
<1>2. ActiveWorkers = {} /\ mainPc \notin Creating
  BY <1>1, JudgedLast DEF Judging
<1>3. Session!AtLimit <=> HitLimit
  <2>1. CASE Limit = 0
    BY <2>1 DEF Session!AtLimit, HitLimit
  <2>2. CASE Limit # 0
    BY <1>2, <2>2, LimitReached, CountIs DEF Session!AtLimit
  <2> QED BY <2>1, <2>2
<1>4. UNCHANGED <<session, total, numbering, interrupted>>
  BY ReportStep DEF atomics, history
<1>5. /\ AllLeaves' = AllLeaves /\ Limit' = Limit /\ Numbered' = Numbered
  BY <1>4 DEF AllLeaves, Limit, Leaves, Numbered
<1>6. CASE interrupted
  <2>1. status' = "interrupted"
    BY <1>6, ReportStep
  <2> QED BY <1>1, <1>4, <1>5, <1>6, <2>1 DEF Session!Conclude
<1>7. CASE ~interrupted /\ exitStatus = "failure"
  <2>1. status' = "failed"
    BY <1>7, ReportStep
  <2>2. internalError \/ created < WorkerCount
    BY <1>0, <1>7 DEF VerdictInv
  <2>3. \/ CreateMayFail \/ FileMayFail
        \/ \E s \in Sessions : s.checkMayFail
    BY <1>0, <1>2, <2>2 DEF StopInv, CreationInv, CheckMayFail, TypeOK
  <2> QED BY <1>1, <1>4, <1>5, <1>7, <2>1, <2>3 DEF Session!Conclude
<1>8. CASE ~interrupted /\ exitStatus # "failure" /\ HitLimit
  <2>1. status' = "solutionLimit"
    BY <1>8, ReportStep
  <2> QED BY <1>1, <1>3, <1>4, <1>5, <1>8, <2>1 DEF Session!Conclude
<1>9. CASE ~interrupted /\ exitStatus # "failure" /\ ~HitLimit
  <2>1. status' = "complete"
    BY <1>9, ReportStep
  <2>2. (status = "complete" => Numbered = AllLeaves)'
    <3>1. StatusIsHonest'
      BY StatusFromInvariantNext
    <3> QED BY <3>1 DEF StatusIsHonest
  <2>3. Numbered = AllLeaves
    BY <1>5, <2>1, <2>2
  <2> QED BY <1>1, <1>3, <1>4, <1>5, <1>9, <2>1, <2>3 DEF Session!Conclude
<1> QED BY <1>6, <1>7, <1>8, <1>9

(* Only the report changes the verdict, only Ctrl-C interrupts.            *)
LEMMA VerdictFrame ==
    ASSUME TypeOK, [Next]_vars
    PROVE  \/ Report \/ Interrupt
           \/ UNCHANGED <<interrupted, status>>
<1>1. ASSUME NEW w \in Workers, WorkerStep(w) \/ CheckFails(w)
      PROVE  UNCHANGED <<interrupted, status>>
  BY <1>1, OthersStay
<1>2. CASE MainThread /\ ~Report
  BY <1>2, ExitStep
     DEF MainThread, CreateWorker, WorkerCreated, CreateFails, LockCompletion, TestBatch,
         StartWait, WaitExpires, WakeUp, PollInterrupt, SwapBuffers, AppendBatch, PrintNext,
         JoinWorkers, Assess, reportVars
<1>3. CASE UNCHANGED vars
  BY <1>3 DEF vars, reportVars
<1> QED BY <1>1, <1>2, <1>3 DEF Next

LEMMA SessionStep == IInv /\ IInv' /\ [Next]_vars => [Session!Next]_(Session!vars)
<1> SUFFICES ASSUME IInv, IInv', [Next]_vars
             PROVE  [Session!Next]_(Session!vars)
  OBVIOUS
<1>0. TypeOK /\ session' = session
  BY SessionStays DEF IInv, BufferInvariant
<1>1. AllLeaves' = AllLeaves /\ Limit' = Limit
  BY <1>0 DEF AllLeaves, Limit, Leaves
<1>2. ASSUME NEW w \in Workers, TakesNumber(w)
      PROVE  Session!Next
  BY <1>2, FindImplements DEF Session!Next
<1>3. CASE Report
  BY <1>3, ReportImplements DEF Session!Next
<1>4. CASE Interrupt
  <2>1. /\ ~interrupted /\ interrupted' = TRUE
        /\ UNCHANGED <<total, numbering, status>>
    BY <1>4 DEF Interrupt, atomics, history
  <2>2. Numbered' = Numbered
    BY <2>1 DEF Numbered
  <2> QED BY <1>1, <2>1, <2>2 DEF Session!Next, Session!Interrupt
<1>5. CASE UNCHANGED <<total, numbering>> /\ UNCHANGED <<interrupted, status>>
  <2>1. Numbered' = Numbered
    BY <1>5 DEF Numbered
  <2> QED BY <1>1, <1>5, <2>1 DEF Session!vars
<1> QED BY <1>0, <1>2, <1>3, <1>4, <1>5, NumberingFrame, VerdictFrame

(* column_search keeps what a session promises: each configuration is      *)
(* found once, never more than the limit, and the verdict has its reason.  *)
THEOREM SessionImplemented == Spec => SessionSpec
<1>1. Init => Session!Init
  BY SessionInit
<1>2. IInv /\ IInv' /\ [Next]_vars => [Session!Next]_(Session!vars)
  BY SessionStep
<1> QED BY <1>1, <1>2, Invariance, PTL DEF Spec, SessionSpec, Session!Spec
=============================================================================
