------------------------- MODULE WeaveDriverProofs -------------------------
(***************************************************************************)
(* Theorems about WeaveDriver, for every number of threads and jobs, every *)
(* size of the ring and every session, from the inductive invariant IInv.  *)
(***************************************************************************)
EXTENDS WeaveDriverInvariant, JobRangesProofs, FiniteSetTheorems, TLAPS

(* Nothing of a worker changes in this step.                               *)
Same(v) ==
    /\ pc'[v] = pc[v] /\ job'[v] = job[v] /\ prefix'[v] = prefix[v]
    /\ leaf'[v] = leaf[v] /\ number'[v] = number[v] /\ failed'[v] = failed[v]

(* Worker w gets the next number for the configuration it has found.       *)
TakesNumber(w) ==
    /\ pc[w] \in Unnumbered /\ ~AtLimit(solutionTotal)
    /\ solutionTotal' = solutionTotal + 1
    /\ numbering' = numbering \union {[number |-> solutionTotal + 1, encoding |-> Found(w)]}
    /\ number' = [number EXCEPT ![w] = solutionTotal + 1]
    /\ pc' = [pc EXCEPT ![w] = "enqueue"]
    /\ UNCHANGED <<session, nextJob, jobsDone, flags, queue, job, prefix, leaf, failed,
                   mainPc, mainVars, searched>>

(* Worker w puts its solution on the line.                                 *)
Puts(w) ==
    /\ pc[w] = "enqueue" /\ ToPrint(w)
    /\ Line' = Append(Line, [number |-> number[w], encoding |-> Found(w)])
    /\ pc' = [pc EXCEPT ![w] = "limit"]
    /\ UNCHANGED <<session, number, solutionTotal, numbering, mainPc>>

(* A worker that neither gets nor puts a number keeps the one it has.      *)
Keeps(w) ==
    /\ pc'[w] \in NumberedSteps => pc[w] \in NumberedSteps /\ number'[w] = number[w]
    /\ pc'[w] \in Handing => pc[w] \in Handing
    /\ pc[w] \in Handing /\ ToPrint(w) => pc'[w] \in Handing
    /\ pc'[w] = "waiting" => ToPrint(w)

(* A worker in a job goes on at its prefix, *)
Proceeds(w) ==
    /\ pc[w] \in Working /\ job'[w] = job[w] /\ prefix'[w] = prefix[w]
    /\ pc'[w] \in Searching => pc[w] \in Searching
    /\ \/ leaf'[w] = leaf[w] /\ (pc'[w] \in Unnumbered => pc[w] \in Unnumbered)
       \/ pc[w] = "search" /\ pc'[w] = "load" /\ leaf'[w] = leaf[w] + 1

(* or begins the first or the next one; *)
Begins(w) ==
    /\ pc'[w] = "search" /\ leaf'[w] = 0 /\ job'[w] = job[w]
    /\ \/ pc[w] = "check" /\ job[w] < JobCount /\ prefix'[w] = job[w]
       \/ pc[w] = "prefixDone" /\ Quiet /\ prefix'[w] = prefix[w] + JobCount

(* and one that draws a job draws the next. *)
Draws(w) == pc'[w] = "check" /\ job'[w] = nextJob /\ nextJob' = nextJob + 1

Moves(w) ==
    /\ pc'[w] = "check" => Draws(w) \/ (pc[w] = "check" /\ job'[w] = job[w])
    /\ pc'[w] \in Working => Proceeds(w) \/ Begins(w)

-----------------------------------------------------------------------------
LEMMA SessionTyped ==
    ASSUME session \in Sessions
    PROVE  /\ PrefixCount \in Nat \ {0} /\ MaxWord \in Nat /\ PrefixCount <= MaxWord
           /\ Prefixes = 0 .. PrefixCount - 1
           /\ \A p \in Prefixes : Leaves[p] \in Seq(Encodings) /\ Len(Leaves[p]) \in Nat
           /\ Limit \in Nat /\ PrintLimit \in Nat
           /\ JobCount \in Nat \ {0} /\ JobCount <= PrefixCount
           /\ WorkerCount \in Nat \ {0} /\ WorkerCount <= JobCount /\ WorkerCount <= Threads
           /\ Threads \in Nat \ {0} /\ Capacity \in Nat \ {0}
  BY WeaveAssumption DEF IsSession, PrefixCount, MaxWord, Prefixes, PrefixesOf, Leaves, Limit,
      PrintLimit, JobCount, WorkerCount

(* A configuration is a leaf of one prefix, and there at one place.        *)

LEMMA LeavesDistinct ==
    ASSUME session \in Sessions, NEW p \in Prefixes, NEW q \in Prefixes,
           NEW i \in 1 .. Len(Leaves[p]), NEW j \in 1 .. Len(Leaves[q]),
           Leaves[p][i] = Leaves[q][j]
    PROVE  p = q /\ i = j
  BY WeaveAssumption DEF IsSession, Prefixes, Leaves

LEMMA WorkersFinite == IsFiniteSet(Workers) /\ Cardinality(Workers) = Threads
  BY WeaveAssumption, FS_Interval DEF Workers

(* A session stays what it is, and with it all that is read from it.       *)

LEMMA SessionStays ==
    ASSUME [Next]_vars
    PROVE  /\ session' = session
           /\ JobCount' = JobCount /\ Prefixes' = Prefixes /\ Leaves' = Leaves
           /\ Limit' = Limit /\ PrintLimit' = PrintLimit
<1>1. session' = session
  BY DEF Next, vars, MainThread, WorkerStep, ClaimJob, CheckJob, NextPrefix, CountJob, Leave,
      Retire, PollStop, VisitLeaf, FinishPrefix, FetchAndAdd, LoadTotal, Refuse,
      CompareExchange, Enqueue, AwaitRoom, ReachLimit, CheckFails, SpuriousWakeup,
      CreateWorker, WorkerCreated, CreateFails, TestActive, PollInterrupt, Pause, DrainOne,
      Drained, JoinWorkers, Assess, Report, Interrupt
<1> QED BY <1>1 DEF JobCount, Prefixes, PrefixCount, Leaves, Limit, PrintLimit

(* The two steps of main that choose among more than two ways.             *)

LEMMA DrainedStep ==
    Drained =>
        /\ Draining /\ queue = <<>>
        /\ mainPc = "drain" => mainPc' = "pause"
        /\ mainPc = "finalDrain" => mainPc' = "join"
        /\ mainPc = "lastDrain" => mainPc' = "assess"
        /\ UNCHANGED <<session, counters, activeWorkers, flags, queue, pc, workerVars,
                       mainVars, history>>
  BY Zenon DEF Drained

LEMMA ReportStep ==
    Report =>
        /\ mainPc = "report" /\ mainPc' = "done"
        /\ interrupted => status' = "interrupted"
        /\ ~interrupted /\ exitStatus = "failure" => status' = "failed"
        /\ ~interrupted /\ exitStatus # "failure" /\ HitLimit => status' = "solutionLimit"
        /\ ~interrupted /\ exitStatus # "failure" /\ ~HitLimit => status' = "complete"
        /\ exitStatus' = IF interrupted /\ exitStatus = "success"
                         THEN "sigint" ELSE exitStatus
        /\ UNCHANGED <<session, counters, activeWorkers, flags, queue, pc, workerVars,
                       created, interrupted, printed, history>>
  BY Zenon DEF Report

(* What only ever grows.                                                   *)
LEMMA Monotone ==
    ASSUME TypeOK, [Next]_vars
    PROVE  /\ solutionTotal' >= solutionTotal /\ nextJob' >= nextJob
           /\ numbering \subseteq numbering'
           /\ stop => stop'
           /\ interrupted => interrupted'
           /\ internalError => internalError'
<1>1. ASSUME NEW w \in Workers, WorkerStep(w) \/ CheckFails(w) \/ SpuriousWakeup(w)
      PROVE  /\ solutionTotal' >= solutionTotal /\ nextJob' >= nextJob
             /\ numbering \subseteq numbering'
             /\ stop => stop'
             /\ interrupted => interrupted'
             /\ internalError => internalError'
  <2>1. CASE ClaimJob(w) \/ CheckJob(w) \/ NextPrefix(w) \/ CountJob(w)
    BY <2>1
    DEF TypeOK, ClaimJob, Goto, workerVars, CheckJob, NextPrefix, CountJob, counters,
        flags, mainVars, history
  <2>2. CASE Leave(w) \/ Retire(w) \/ PollStop(w) \/ VisitLeaf(w)
    BY <2>2
    DEF TypeOK, Leave, Goto, Retire, Deactivate, PollStop, VisitLeaf, counters, flags,
        workerVars, mainVars, history
  <2>3. CASE FinishPrefix(w) \/ FetchAndAdd(w) \/ LoadTotal(w) \/ Refuse(w)
    BY <2>3
    DEF TypeOK, FinishPrefix, Goto, FetchAndAdd, Numbering, LoadTotal, Refuse, counters,
        flags, workerVars, mainVars, history
  <2>4. CASE CompareExchange(w) \/ Enqueue(w) \/ AwaitRoom(w) \/ ReachLimit(w)
    BY <2>4
    DEF TypeOK, CompareExchange, Goto, Unchanged, Numbering, Enqueue, AwaitRoom,
        ReachLimit, counters, flags, workerVars, mainVars, history
  <2>5. CASE CheckFails(w) \/ SpuriousWakeup(w)
    BY <2>5
    DEF TypeOK, CheckFails, Goto, SpuriousWakeup, counters, flags, workerVars, mainVars,
        history
  <2> QED BY <1>1, <2>1, <2>2, <2>3, <2>4, <2>5 DEF WorkerStep
<1>2. CASE MainThread
  <2>1. CASE CreateWorker \/ WorkerCreated \/ CreateFails \/ TestActive
    BY <2>1
    DEF TypeOK, CreateWorker, Activate, WorkerCreated, CreateFails, Deactivate,
        TestActive, counters, flags, workerVars, mainVars, history
  <2>2. CASE PollInterrupt \/ Pause
    BY <2>2
    DEF TypeOK, PollInterrupt, NoticeInterrupt, Pause, counters, flags, workerVars,
        mainVars, history
  <2>3. CASE DrainOne
    BY <2>3 DEF TypeOK, DrainOne, counters, flags, history
  <2>4. CASE Drained \/ JoinWorkers \/ Assess \/ Report
    BY <2>4, DrainedStep, ReportStep
    DEF TypeOK, Draining, JoinWorkers, Assess, counters, flags, workerVars, mainVars,
        history
  <2> QED BY <1>2, <2>1, <2>2, <2>3, <2>4 DEF MainThread
<1>3. CASE Interrupt \/ UNCHANGED vars
  BY <1>3
  DEF TypeOK, Interrupt, vars, counters, flags, workerVars, mainVars, history
<1> QED BY <1>1, <1>2, <1>3 DEF Next

(* A step of one worker leaves the others and the main thread alone.       *)
LEMMA OthersStay ==
    ASSUME TypeOK, NEW w \in Workers, WorkerStep(w) \/ CheckFails(w) \/ SpuriousWakeup(w)
    PROVE  /\ \A v \in Workers \ {w} : Same(v)
           /\ UNCHANGED <<session, mainPc, created, interrupted, exitStatus, status, printed>>
<1>1. CASE ClaimJob(w) \/ CheckJob(w) \/ NextPrefix(w) \/ CountJob(w)
  BY <1>1
  DEF TypeOK, Same, ClaimJob, Goto, workerVars, CheckJob, NextPrefix, CountJob,
      counters, flags, mainVars, history
<1>2. CASE Leave(w) \/ Retire(w) \/ PollStop(w) \/ VisitLeaf(w)
  BY <1>2
  DEF TypeOK, Same, Leave, Goto, Retire, Deactivate, PollStop, VisitLeaf, counters,
      flags, workerVars, mainVars, history
<1>3. CASE FinishPrefix(w) \/ FetchAndAdd(w) \/ LoadTotal(w) \/ Refuse(w)
  BY <1>3
  DEF TypeOK, Same, FinishPrefix, Goto, FetchAndAdd, Numbering, LoadTotal, Refuse,
      counters, flags, workerVars, mainVars, history
<1>4. CASE CompareExchange(w) \/ Enqueue(w) \/ AwaitRoom(w) \/ ReachLimit(w)
  BY <1>4
  DEF TypeOK, Same, CompareExchange, Goto, Unchanged, Numbering, Enqueue, AwaitRoom,
      ReachLimit, counters, flags, workerVars, mainVars, history
<1>5. CASE CheckFails(w) \/ SpuriousWakeup(w)
  BY <1>5
  DEF TypeOK, Same, CheckFails, Goto, SpuriousWakeup, counters, flags, workerVars,
      mainVars, history
<1> QED BY <1>1, <1>2, <1>3, <1>4, <1>5 DEF WorkerStep

(* A step of the main thread, the user or nobody leaves the workers where  *)
(* they are, but for one that it creates or wakes.                         *)
LEMMA MainKeeps ==
    ASSUME TypeOK, CreationInv, MainThread \/ Interrupt \/ UNCHANGED vars
    PROVE  /\ UNCHANGED <<session, counters, internalError, workerVars, history>>
           /\ \A v \in Workers : \/ pc'[v] = pc[v]
                                 \/ pc[v] = "waiting" /\ pc'[v] = "enqueue"
                                 \/ /\ pc[v] = "absent" /\ pc'[v] = "claim"
                                    /\ WorkerCreated /\ v = created + 1
<1>1. CASE MainThread
  <2>1. CASE CreateWorker
    BY <2>1
    DEF TypeOK, CreateWorker, Activate, counters, flags, workerVars, mainVars, history
  <2>2. CASE WorkerCreated
    BY <2>2, SessionTyped
    DEF TypeOK, CreationInv, Creating, Workers, WorkerCreated, counters, flags,
        workerVars, mainVars, history
  <2>3. CASE CreateFails \/ TestActive \/ PollInterrupt \/ Pause
    BY <2>3
    DEF TypeOK, CreateFails, Deactivate, TestActive, PollInterrupt, NoticeInterrupt,
        Pause, counters, flags, workerVars, mainVars, history
  <2>4. CASE DrainOne
    BY <2>4
    DEF TypeOK, DrainOne, SignalNotFull, Waiters, Goto, counters, flags, workerVars,
        mainVars, history
  <2>5. CASE Drained
    BY <2>5, DrainedStep
    DEF TypeOK, Draining, counters, flags, workerVars, mainVars, history
  <2>6. CASE JoinWorkers \/ Assess
    BY <2>6
    DEF TypeOK, JoinWorkers, Assess, counters, flags, workerVars, mainVars, history
  <2>7. CASE Report
    BY <2>7, ReportStep
    DEF TypeOK, counters, flags, workerVars, mainVars, history
  <2> QED BY <1>1, <2>1, <2>2, <2>3, <2>4, <2>5, <2>6, <2>7 DEF MainThread
<1>2. CASE Interrupt \/ UNCHANGED vars
  BY <1>2
  DEF TypeOK, Interrupt, vars, counters, flags, workerVars, mainVars, history
<1> QED BY <1>1, <1>2

(* Workers come and go in four steps.                                      *)
LEMMA ActiveFrame ==
    ASSUME TypeOK, [Next]_vars
    PROVE  \/ \E u \in Workers : Retire(u)
           \/ CreateWorker \/ WorkerCreated \/ CreateFails
           \/ /\ \A u \in Workers : Active(u)' = Active(u)
              /\ activeWorkers' = activeWorkers
              /\ mainPc' = "created" <=> mainPc = "created"
<1>1. ASSUME NEW w \in Workers, WorkerStep(w) \/ CheckFails(w) \/ SpuriousWakeup(w)
      PROVE  \/ \E u \in Workers : Retire(u)
             \/ CreateWorker \/ WorkerCreated \/ CreateFails
             \/ /\ \A u \in Workers : Active(u)' = Active(u)
                /\ activeWorkers' = activeWorkers
                /\ mainPc' = "created" <=> mainPc = "created"
  <2>1. CASE ClaimJob(w) \/ CheckJob(w) \/ NextPrefix(w) \/ CountJob(w)
    BY <2>1
    DEF TypeOK, Active, ClaimJob, Goto, workerVars, CheckJob, NextPrefix, CountJob,
        counters, flags, mainVars, history
  <2>2. CASE Leave(w)
    BY <2>2
    DEF TypeOK, Active, Leave, Goto, counters, flags, workerVars, mainVars, history
  <2>3. CASE Retire(w)
    BY <2>3
  <2>4. CASE PollStop(w) \/ VisitLeaf(w) \/ FinishPrefix(w) \/ FetchAndAdd(w)
    BY <2>4
    DEF TypeOK, Active, PollStop, Goto, VisitLeaf, FinishPrefix, FetchAndAdd, Numbering,
        counters, flags, workerVars, mainVars, history
  <2>5. CASE LoadTotal(w) \/ Refuse(w) \/ CompareExchange(w) \/ Enqueue(w)
    BY <2>5
    DEF TypeOK, Active, LoadTotal, Goto, Refuse, CompareExchange, Unchanged, Numbering,
        Enqueue, counters, flags, workerVars, mainVars, history
  <2>6. CASE AwaitRoom(w) \/ ReachLimit(w) \/ CheckFails(w) \/ SpuriousWakeup(w)
    BY <2>6
    DEF TypeOK, Active, AwaitRoom, Goto, ReachLimit, CheckFails, SpuriousWakeup,
        counters, flags, workerVars, mainVars, history
  <2> QED BY <1>1, <2>1, <2>2, <2>3, <2>4, <2>5, <2>6 DEF WorkerStep
<1>2. CASE MainThread
  <2>1. CASE CreateWorker
    BY <2>1
  <2>2. CASE WorkerCreated
    BY <2>2
  <2>3. CASE CreateFails
    BY <2>3
  <2>4. CASE TestActive \/ PollInterrupt \/ Pause \/ DrainOne
    BY <2>4
    DEF TypeOK, Active, TestActive, PollInterrupt, NoticeInterrupt, Pause, DrainOne,
        SignalNotFull, Waiters, Goto, counters, flags, workerVars, mainVars, history
  <2>5. CASE Drained \/ JoinWorkers \/ Assess \/ Report
    BY <2>5, DrainedStep, ReportStep
    DEF TypeOK, Active, Draining, JoinWorkers, Assess, counters, flags, workerVars,
        mainVars, history
  <2> QED BY <1>2, <2>1, <2>2, <2>3, <2>4, <2>5 DEF MainThread
<1>3. CASE Interrupt \/ UNCHANGED vars
  BY <1>3
  DEF TypeOK, Active, Interrupt, vars, counters, flags, workerVars, mainVars, history
<1> QED BY <1>1, <1>2, <1>3 DEF Next

LEMMA ActiveStep ==
    ASSUME TypeOK, CreationInv, ActiveInv, [Next]_vars
    PROVE  ActiveInv'
<1> DEFINE R == ActiveWorkers
<1>1. IsFiniteSet(R) /\ Cardinality(R) \in Nat
  BY WorkersFinite, FS_Subset, FS_CardinalityType DEF ActiveWorkers
<1>2. activeWorkers = Cardinality(R) + (IF mainPc = "created" THEN 1 ELSE 0)
  BY DEF ActiveInv
<1>3. SUFFICES activeWorkers' = Cardinality(R') + (IF mainPc' = "created" THEN 1 ELSE 0)
  BY DEF ActiveInv
<1>4. ASSUME NEW w \in Workers, Retire(w)
      PROVE  activeWorkers' = Cardinality(R') + (IF mainPc' = "created" THEN 1 ELSE 0)
  <2>1. R' = R \ {w} /\ w \in R
    BY <1>4 DEF TypeOK, Retire, Goto, ActiveWorkers, Active
  <2>2. activeWorkers' = activeWorkers - 1 /\ mainPc' = mainPc
    BY <1>4 DEF Retire, Deactivate
  <2> HIDE DEF R
  <2>3. Cardinality(R') = Cardinality(R) - 1
    BY <1>1, <2>1, FS_RemoveElement
  <2> QED BY <1>1, <1>2, <2>2, <2>3
<1>5. CASE WorkerCreated
  <2>1. created + 1 \in Workers /\ pc[created + 1] = "absent"
    BY <1>5, SessionTyped DEF WorkerCreated, TypeOK, CreationInv, Creating, Workers
  <2>2. R' = R \union {created + 1} /\ created + 1 \notin R
    BY <1>5, <2>1 DEF WorkerCreated, TypeOK, ActiveWorkers, Active
  <2>3. activeWorkers' = activeWorkers /\ mainPc = "created" /\ mainPc' # "created"
    BY <1>5 DEF WorkerCreated
  <2> HIDE DEF R
  <2>4. Cardinality(R') = Cardinality(R) + 1
    BY <1>1, <2>2, FS_AddElement
  <2> QED BY <1>1, <1>2, <2>3, <2>4
<1>6. CASE CreateWorker \/ CreateFails
  <2>1. R' = R
    BY <1>6 DEF CreateWorker, CreateFails, workerVars, ActiveWorkers, Active
  <2> HIDE DEF R
  <2> QED
    BY <1>1, <1>2, <1>6, <2>1 DEF CreateWorker, CreateFails, Activate, Deactivate
<1>7. ASSUME \A w \in Workers : Active(w)' = Active(w), activeWorkers' = activeWorkers,
             mainPc' = "created" <=> mainPc = "created"
      PROVE  activeWorkers' = Cardinality(R') + (IF mainPc' = "created" THEN 1 ELSE 0)
  <2>1. R' = R
    BY <1>7 DEF ActiveWorkers, Workers
  <2> HIDE DEF R
  <2> QED BY <1>2, <1>7, <2>1
<1> QED BY <1>4, <1>5, <1>6, <1>7, ActiveFrame

(* The next prefix of a job, once the test for overflow is passed.         *)
LEMMA AddWithin ==
    ASSUME session \in Sessions, NEW p \in Prefixes, ~WouldOverflow(p)
    PROVE  Add(p, JobCount) = p + JobCount /\ p + JobCount \in Nat
<1>1. p \in Nat /\ JobCount \in Nat /\ MaxWord \in Nat /\ p + JobCount <= MaxWord
  BY SessionTyped DEF WouldOverflow
<1>2. \A a, m \in Nat : a <= m => a % (m + 1) = a
  OBVIOUS
<1> QED BY <1>1, <1>2 DEF Add

(* The configuration at hand is a leaf of the worker's prefix.             *)
LEMMA FoundTyped ==
    ASSUME TypeOK, PlaceInv, NEW w \in Workers, pc[w] \in Recording
    PROVE  /\ prefix[w] \in Prefixes /\ leaf[w] \in 1 .. Len(Leaves[prefix[w]])
           /\ Found(w) \in Encodings /\ Found(w) \in AllLeaves
<1>1. prefix[w] \in Prefixes /\ Leaves[prefix[w]] \in Seq(Encodings) /\ leaf[w] \in Nat
  BY SessionTyped DEF TypeOK
<1>2. leaf[w] \in 1 .. Len(Leaves[prefix[w]])
  BY <1>1 DEF PlaceInv, Place, Recording, Searching
<1>3. Found(w) \in Items(Leaves[prefix[w]])
  BY <1>2 DEF Found, Items
<1> QED BY <1>1, <1>2, <1>3 DEF Found, AllLeaves

LEMMA CreationStep ==
    ASSUME TypeOK, CreationInv, ActiveInv, [Next]_vars
    PROVE  CreationInv'
<1>0. WorkerCount' = WorkerCount /\ session \in Sessions
  BY SessionStays DEF TypeOK, WorkerCount, JobCount
<1>1. ASSUME NEW w \in Workers, WorkerStep(w) \/ CheckFails(w) \/ SpuriousWakeup(w)
      PROVE  CreationInv'
  <2>1. CASE ClaimJob(w)
    BY <2>1, SessionTyped, <1>0
    DEF CreationInv, TypeOK, Creating, Ended, ActiveWorkers, Active, Workers, ClaimJob,
        Goto, workerVars, counters, flags, mainVars, history
  <2>2. CASE CheckJob(w)
    BY <2>2, SessionTyped, <1>0
    DEF CreationInv, TypeOK, Creating, Ended, ActiveWorkers, Active, Workers, CheckJob,
        Goto, workerVars, counters, flags, mainVars, history
  <2>3. CASE NextPrefix(w)
    BY <2>3, SessionTyped, <1>0
    DEF CreationInv, TypeOK, Creating, Ended, ActiveWorkers, Active, Workers,
        NextPrefix, Goto, counters, flags, workerVars, mainVars, history
  <2>4. CASE CountJob(w)
    BY <2>4, SessionTyped, <1>0
    DEF CreationInv, TypeOK, Creating, Ended, ActiveWorkers, Active, Workers, CountJob,
        Goto, counters, flags, workerVars, mainVars, history
  <2>5. CASE Leave(w)
    BY <2>5, SessionTyped, <1>0
    DEF CreationInv, TypeOK, Creating, Ended, ActiveWorkers, Active, Workers, Leave,
        Goto, counters, flags, workerVars, mainVars, history
  <2>6. CASE Retire(w)
    BY <2>6, SessionTyped, <1>0
    DEF CreationInv, TypeOK, Creating, Ended, ActiveWorkers, Active, Workers, Retire,
        Goto, Deactivate, counters, flags, workerVars, mainVars, history
  <2>7. CASE PollStop(w)
    BY <2>7, SessionTyped, <1>0
    DEF CreationInv, TypeOK, Creating, Ended, ActiveWorkers, Active, Workers, PollStop,
        Goto, counters, flags, workerVars, mainVars, history
  <2>8. CASE VisitLeaf(w)
    BY <2>8, SessionTyped, <1>0
    DEF CreationInv, TypeOK, Creating, Ended, ActiveWorkers, Active, Workers, VisitLeaf,
        Goto, counters, flags, workerVars, mainVars, history
  <2>9. CASE FinishPrefix(w)
    BY <2>9, SessionTyped, <1>0
    DEF CreationInv, TypeOK, Creating, Ended, ActiveWorkers, Active, Workers,
        FinishPrefix, Goto, counters, flags, workerVars, mainVars, history
  <2>10. CASE FetchAndAdd(w)
    BY <2>10, SessionTyped, <1>0
    DEF CreationInv, TypeOK, Creating, Ended, ActiveWorkers, Active, Workers,
        FetchAndAdd, Goto, Numbering, counters, flags, workerVars, mainVars, history
  <2>11. CASE LoadTotal(w)
    BY <2>11, SessionTyped, <1>0
    DEF CreationInv, TypeOK, Creating, Ended, ActiveWorkers, Active, Workers, LoadTotal,
        Goto, counters, flags, workerVars, mainVars, history
  <2>12. CASE Refuse(w)
    BY <2>12, SessionTyped, <1>0
    DEF CreationInv, TypeOK, Creating, Ended, ActiveWorkers, Active, Workers, Refuse,
        Goto, counters, flags, workerVars, mainVars, history
  <2>13. CASE CompareExchange(w)
    BY <2>13, SessionTyped, <1>0
    DEF CreationInv, TypeOK, Creating, Ended, ActiveWorkers, Active, Workers,
        CompareExchange, Goto, Unchanged, Numbering, counters, flags, workerVars,
        mainVars, history
  <2>14. CASE Enqueue(w)
    BY <2>14, SessionTyped, <1>0
    DEF CreationInv, TypeOK, Creating, Ended, ActiveWorkers, Active, Workers, Enqueue,
        Goto, counters, flags, workerVars, mainVars, history
  <2>15. CASE AwaitRoom(w)
    BY <2>15, SessionTyped, <1>0
    DEF CreationInv, TypeOK, Creating, Ended, ActiveWorkers, Active, Workers, AwaitRoom,
        Goto, counters, flags, workerVars, mainVars, history
  <2>16. CASE ReachLimit(w)
    BY <2>16, SessionTyped, <1>0
    DEF CreationInv, TypeOK, Creating, Ended, ActiveWorkers, Active, Workers,
        ReachLimit, Goto, counters, flags, workerVars, mainVars, history
  <2>17. CASE CheckFails(w)
    BY <2>17, SessionTyped, <1>0
    DEF CreationInv, TypeOK, Creating, Ended, ActiveWorkers, Active, Workers,
        CheckFails, Goto, counters, flags, workerVars, mainVars, history
  <2>18. CASE SpuriousWakeup(w)
    BY <2>18, SessionTyped, <1>0
    DEF CreationInv, TypeOK, Creating, Ended, ActiveWorkers, Active, Workers,
        SpuriousWakeup, Goto, counters, flags, workerVars, mainVars, history
  <2> QED BY <1>1, <2>1, <2>2, <2>3, <2>4, <2>5, <2>6, <2>7, <2>8, <2>9, <2>10, <2>11,
      <2>12, <2>13, <2>14, <2>15, <2>16, <2>17, <2>18 DEF WorkerStep
<1>2. CASE MainThread
  <2>1. CASE CreateWorker
    BY <2>1, SessionTyped, <1>0
    DEF CreationInv, TypeOK, Creating, Ended, ActiveWorkers, Active, Workers,
        CreateWorker, Activate, counters, flags, workerVars, mainVars, history
  <2>2. CASE WorkerCreated
    BY SMTT(30), <2>2, SessionTyped, <1>0
    DEF CreationInv, TypeOK, Creating, Ended, ActiveWorkers, Active, Workers,
        WorkerCreated, counters, flags, workerVars, mainVars, history
  <2>3. CASE CreateFails
    BY <2>3, SessionTyped, <1>0
    DEF CreationInv, TypeOK, Creating, Ended, ActiveWorkers, Active, Workers,
        CreateFails, Deactivate, counters, flags, workerVars, mainVars, history
  <2>4. CASE TestActive
    <3>1. activeWorkers = 0 => ActiveWorkers = {}
      BY <2>4, WorkersFinite, FS_Subset, FS_CardinalityType, FS_EmptySet
      DEF ActiveInv, ActiveWorkers, TestActive
    <3> QED BY <2>4, <3>1, <1>0
        DEF CreationInv, Creating, Ended, ActiveWorkers, Active, TestActive, counters,
            flags, workerVars, mainVars
  <2>5. CASE PollInterrupt
    BY <2>5, SessionTyped, <1>0
    DEF CreationInv, TypeOK, Creating, Ended, ActiveWorkers, Active, Workers,
        PollInterrupt, NoticeInterrupt, counters, flags, workerVars, mainVars, history
  <2>6. CASE Pause
    BY <2>6, SessionTyped, <1>0
    DEF CreationInv, TypeOK, Creating, Ended, ActiveWorkers, Active, Workers, Pause,
        counters, flags, workerVars, mainVars, history
  <2>7. CASE DrainOne
    BY <2>7, SessionTyped, <1>0
    DEF CreationInv, TypeOK, Creating, Ended, ActiveWorkers, Active, Workers, DrainOne,
        SignalNotFull, Waiters, Goto, counters, flags, workerVars, mainVars, history
  <2>8. CASE Drained
    BY <2>8, SessionTyped, <1>0, DrainedStep
    DEF CreationInv, TypeOK, Creating, Ended, ActiveWorkers, Active, Workers, Draining,
        counters, flags, workerVars, mainVars, history
  <2>9. CASE JoinWorkers
    BY <2>9, SessionTyped, <1>0
    DEF CreationInv, TypeOK, Creating, Ended, ActiveWorkers, Active, Workers,
        JoinWorkers, counters, flags, workerVars, mainVars, history
  <2>10. CASE Assess
    BY <2>10, SessionTyped, <1>0
    DEF CreationInv, TypeOK, Creating, Ended, ActiveWorkers, Active, Workers, Assess,
        counters, flags, workerVars, mainVars, history
  <2>11. CASE Report
    BY <2>11, SessionTyped, <1>0, ReportStep
    DEF CreationInv, TypeOK, Creating, Ended, ActiveWorkers, Active, Workers, counters,
        flags, workerVars, mainVars, history
  <2> QED BY <1>2, <2>1, <2>2, <2>3, <2>4, <2>5, <2>6, <2>7, <2>8, <2>9, <2>10, <2>11
      DEF MainThread
<1>3. CASE Interrupt \/ UNCHANGED vars
  <2>1. UNCHANGED <<session, pc, mainPc, created, exitStatus, stop>>
    BY <1>3 DEF Interrupt, vars, flags, mainVars
  <2>2. Workers' = Workers /\ WorkerCount' = WorkerCount
    BY <1>0, <2>1 DEF Workers
  <2> QED BY <2>1, <2>2 DEF CreationInv, Ended, ActiveWorkers, Active
<1> QED BY <1>1, <1>2, <1>3 DEF Next

LEMMA BoundedSubset ==
    ASSUME NEW n \in Nat, NEW A, A \subseteq 1 .. n
    PROVE  Cardinality(A) \in Nat /\ Cardinality(A) <= n
<1>1. IsFiniteSet(1 .. n) /\ Cardinality(1 .. n) = n
  BY FS_Interval
<1> QED BY <1>1, FS_Subset, FS_CardinalityType

(* The types, but for the two counters that are counts of sets.            *)
LEMMA TypeStep ==
    ASSUME TypeOK, PlaceInv, NumbersInv, CreationInv, [Next]_vars,
           activeWorkers' \in 0 .. WorkerCount, jobsDone' \in 0 .. JobCount
    PROVE  TypeOK'
<1>0. /\ WorkerCount' = WorkerCount /\ JobCount' = JobCount /\ Prefixes' = Prefixes
      /\ session' = session /\ session \in Sessions
      /\ JobCount \in Nat /\ WorkerCount \in Nat /\ Capacity \in Nat
  BY SessionStays, SessionTyped DEF TypeOK, WorkerCount
<1>9. /\ pc \in [Workers -> WorkerSteps] /\ job \in [Workers -> Nat]
      /\ leaf \in [Workers -> Nat] /\ number \in [Workers -> Nat]
      /\ prefix \in [Workers -> Prefixes] /\ solutionTotal \in Nat
      /\ session \in Sessions
  BY DEF TypeOK
<1>5. /\ Prefixes = 0 .. PrefixCount - 1 /\ PrefixCount \in Nat
      /\ JobCount \in Nat /\ JobCount <= PrefixCount
  BY <1>0, SessionTyped
<1>6. \A w \in Workers : pc[w] = "enqueue" => number[w] \in Nat \ {0}
  BY DEF TypeOK, NumbersInv, Reserved, NumberedSteps, Announcement
<1>7. /\ prefix \in [Workers -> 0 .. PrefixCount - 1] /\ job \in [Workers -> Nat]
      /\ leaf \in [Workers -> Nat]
      /\ PrefixCount \in Nat /\ JobCount \in Nat /\ JobCount <= PrefixCount
  BY <1>9, <1>5
<1>1. ASSUME NEW w \in Workers, WorkerStep(w) \/ CheckFails(w) \/ SpuriousWakeup(w)
      PROVE  TypeOK'
  <2>1. CASE ClaimJob(w)
    BY <2>1, <1>0
    DEF TypeOK, WorkerSteps, MainSteps, ClaimJob, Goto, workerVars, counters, flags,
        mainVars, history
  <2>2. CASE CheckJob(w)
    <3>1. pc' \in [Workers -> WorkerSteps]
      BY <2>2, <1>9 DEF WorkerSteps, CheckJob, Goto, workerVars, workerVars
    <3>2. prefix' \in [Workers -> 0 .. PrefixCount - 1] /\ leaf' \in [Workers -> Nat]
      BY <2>2, <1>7 DEF CheckJob, workerVars
    <3> QED BY SMTT(30), <2>2, <3>1, <3>2, <1>0, <1>5 DEF TypeOK, WorkerSteps, MainSteps, CheckJob,
        counters, flags, workerVars, mainVars, history
  <2>3. CASE NextPrefix(w)
    <3>1. pc' \in [Workers -> WorkerSteps]
      BY <2>3, <1>9 DEF WorkerSteps, NextPrefix, Goto, workerVars
    <3>2. Add(prefix[w], JobCount) = prefix[w] + JobCount \/ WouldOverflow(prefix[w])
      BY <2>3, <1>9, <1>5, AddWithin DEF NextPrefix
    <3>3. prefix' \in [Workers -> 0 .. PrefixCount - 1] /\ leaf' \in [Workers -> Nat]
      BY <2>3, <3>2, <1>7 DEF NextPrefix, InRange, workerVars
    <3> QED BY SMTT(30), <2>3, <3>1, <3>2, <3>3, <1>0, <1>5 DEF TypeOK, WorkerSteps, MainSteps,
        NextPrefix, counters, flags, workerVars, mainVars, history
  <2>4. CASE CountJob(w)
    BY <2>4, <1>0
    DEF TypeOK, WorkerSteps, MainSteps, CountJob, Goto, counters, flags, workerVars,
        mainVars, history
  <2>5. CASE Leave(w)
    BY <2>5, <1>0
    DEF TypeOK, WorkerSteps, MainSteps, Leave, Goto, counters, flags, workerVars,
        mainVars, history
  <2>6. CASE Retire(w)
    BY <2>6, <1>0
    DEF TypeOK, WorkerSteps, MainSteps, Retire, Goto, Deactivate, counters, flags,
        workerVars, mainVars, history
  <2>7. CASE PollStop(w)
    BY <2>7, <1>0
    DEF TypeOK, WorkerSteps, MainSteps, PollStop, Goto, counters, flags, workerVars,
        mainVars, history
  <2>8. CASE VisitLeaf(w)
    BY <2>8, <1>0
    DEF TypeOK, WorkerSteps, MainSteps, VisitLeaf, Goto, counters, flags, workerVars,
        mainVars, history
  <2>9. CASE FinishPrefix(w)
    BY <2>9, <1>0
    DEF TypeOK, WorkerSteps, MainSteps, FinishPrefix, Goto, counters, flags, workerVars,
        mainVars, history
  <2>10. CASE FetchAndAdd(w)
    BY SMTT(30), <2>10, <1>0, FoundTyped
    DEF TypeOK, WorkerSteps, MainSteps, FetchAndAdd, Goto, Numbering, Announcement,
        Recording, counters, flags, workerVars, mainVars, history
  <2>11. CASE LoadTotal(w)
    BY <2>11, <1>0
    DEF TypeOK, WorkerSteps, MainSteps, LoadTotal, Goto, counters, flags, workerVars,
        mainVars, history
  <2>12. CASE Refuse(w)
    BY <2>12, <1>0
    DEF TypeOK, WorkerSteps, MainSteps, Refuse, Goto, counters, flags, workerVars,
        mainVars, history
  <2>13. CASE CompareExchange(w)
    <3>1. pc' \in [Workers -> WorkerSteps]
      BY <2>13, <1>9 DEF WorkerSteps, CompareExchange, Goto, Unchanged, workerVars
    <3>2. solutionTotal' \in Nat /\ number' \in [Workers -> Nat]
      BY <2>13, <1>9 DEF CompareExchange
    <3>3. numbering' \subseteq Announcement
      BY SMTT(30), <2>13, FoundTyped, <1>9 DEF TypeOK, CompareExchange, Numbering, Announcement,
          Recording
    <3> QED BY SMTT(30), <2>13, <3>1, <3>2, <3>3, <1>0, <1>5 DEF TypeOK, WorkerSteps, MainSteps,
        CompareExchange, counters, flags, workerVars, mainVars, history
  <2>14. CASE Enqueue(w)
    <3>1. pc' \in [Workers -> WorkerSteps]
      BY <2>14, <1>9 DEF WorkerSteps, Enqueue, Goto, workerVars
    <3>2. [number |-> number[w], encoding |-> Found(w)] \in Announcement
      BY <2>14, <1>6, FoundTyped DEF Announcement, Recording, Enqueue
    <3>3. queue' \in Seq(Announcement) /\ Len(queue') <= Capacity
      BY <2>14, <3>2, <1>0 DEF TypeOK, Enqueue, Full
    <3> QED BY <2>14, <3>1, <3>2, <3>3, <1>0, <1>5 DEF TypeOK, WorkerSteps, MainSteps,
        Enqueue, counters, flags, workerVars, mainVars, history
  <2>15. CASE AwaitRoom(w)
    BY <2>15, <1>0
    DEF TypeOK, WorkerSteps, MainSteps, AwaitRoom, Goto, counters, flags, workerVars,
        mainVars, history
  <2>16. CASE ReachLimit(w)
    BY <2>16, <1>0
    DEF TypeOK, WorkerSteps, MainSteps, ReachLimit, Goto, counters, flags, workerVars,
        mainVars, history
  <2>17. CASE CheckFails(w)
    BY <2>17, <1>0
    DEF TypeOK, WorkerSteps, MainSteps, CheckFails, Goto, counters, flags, workerVars,
        mainVars, history
  <2>18. CASE SpuriousWakeup(w)
    BY <2>18, <1>0
    DEF TypeOK, WorkerSteps, MainSteps, SpuriousWakeup, Goto, counters, flags,
        workerVars, mainVars, history
  <2> QED BY <1>1, <2>1, <2>2, <2>3, <2>4, <2>5, <2>6, <2>7, <2>8, <2>9, <2>10, <2>11,
      <2>12, <2>13, <2>14, <2>15, <2>16, <2>17, <2>18 DEF WorkerStep
<1>2. CASE MainThread
  <2>1. CASE CreateWorker
    BY <2>1, <1>0
    DEF TypeOK, WorkerSteps, MainSteps, CreateWorker, Activate, counters, flags,
        workerVars, mainVars, history
  <2>2. CASE WorkerCreated
    <3>1. pc' \in [Workers -> WorkerSteps]
      BY <2>2, <1>9 DEF WorkerSteps, WorkerCreated
    <3>2. created' \in 0 .. WorkerCount
      BY <2>2, <1>0 DEF TypeOK, WorkerCreated, CreationInv, Creating
    <3> QED BY <2>2, <3>1, <3>2, <1>0, <1>5 DEF TypeOK, WorkerSteps, MainSteps,
        WorkerCreated, counters, flags, workerVars, mainVars, history
  <2>3. CASE CreateFails
    BY <2>3, <1>0
    DEF TypeOK, WorkerSteps, MainSteps, CreateFails, Deactivate, counters, flags,
        workerVars, mainVars, history
  <2>4. CASE TestActive
    BY <2>4, <1>0
    DEF TypeOK, WorkerSteps, MainSteps, TestActive, counters, flags, workerVars,
        mainVars, history
  <2>5. CASE PollInterrupt
    BY <2>5, <1>0
    DEF TypeOK, WorkerSteps, MainSteps, PollInterrupt, NoticeInterrupt, counters, flags,
        workerVars, mainVars, history
  <2>6. CASE Pause
    BY <2>6, <1>0
    DEF TypeOK, WorkerSteps, MainSteps, Pause, counters, flags, workerVars, mainVars,
        history
  <2>7. CASE DrainOne
    <3>1. pc' \in [Workers -> WorkerSteps]
      BY <2>7, <1>9 DEF WorkerSteps, DrainOne, SignalNotFull, Goto
    <3>2. queue' \in Seq(Announcement) /\ Len(queue') <= Capacity
      BY <2>7, <1>0 DEF TypeOK, DrainOne
    <3>3. printed' \in Seq(Announcement)
      BY <2>7, <1>0 DEF TypeOK, DrainOne
    <3> QED BY <2>7, <3>1, <3>2, <3>3, <1>0, <1>5 DEF TypeOK, WorkerSteps, MainSteps,
        DrainOne, counters, flags, workerVars, mainVars, history
  <2>8. CASE Drained
    BY <2>8, <1>0, DrainedStep
    DEF TypeOK, WorkerSteps, MainSteps, Draining, counters, flags, workerVars, mainVars,
        history
  <2>9. CASE JoinWorkers
    BY <2>9, <1>0
    DEF TypeOK, WorkerSteps, MainSteps, JoinWorkers, counters, flags, workerVars,
        mainVars, history
  <2>10. CASE Assess
    BY <2>10, <1>0
    DEF TypeOK, WorkerSteps, MainSteps, Assess, counters, flags, workerVars, mainVars,
        history
  <2>11. CASE Report
    BY <2>11, <1>0, ReportStep
    DEF TypeOK, WorkerSteps, MainSteps, counters, flags, workerVars, mainVars, history
  <2> QED BY <1>2, <2>1, <2>2, <2>3, <2>4, <2>5, <2>6, <2>7, <2>8, <2>9, <2>10, <2>11
      DEF MainThread
<1>3. CASE Interrupt
  BY <1>3, <1>0 DEF TypeOK, Interrupt, counters, flags, workerVars, mainVars, history
<1>4. CASE UNCHANGED vars
  BY <1>4, <1>0
  DEF TypeOK, WorkerSteps, MainSteps, vars, counters, flags, workerVars, mainVars,
      history
<1> QED BY <1>1, <1>2, <1>3, <1>4 DEF Next

LEMMA PlaceOfMover ==
    ASSUME TypeOK, PlaceInv, [Next]_vars, prefix' \in [Workers -> Prefixes],
           NEW w \in Workers, WorkerStep(w) \/ CheckFails(w) \/ SpuriousWakeup(w)
    PROVE  Place(w)'
<1>0. /\ pc \in [Workers -> WorkerSteps] /\ leaf \in [Workers -> Nat]
      /\ prefix \in [Workers -> Prefixes] /\ Leaves' = Leaves
      /\ \A p \in Prefixes : Len(Leaves[p]) \in Nat
  BY SessionTyped, SessionStays DEF TypeOK
<1>1. CASE ClaimJob(w) \/ CheckJob(w)
  BY <1>1, <1>0
  DEF PlaceInv, Place, Searching, Recording, WorkerSteps, ClaimJob, Goto, workerVars,
      CheckJob
<1>2. CASE NextPrefix(w) \/ CountJob(w)
  BY <1>2, <1>0
  DEF PlaceInv, Place, Searching, Recording, WorkerSteps, NextPrefix, Goto, CountJob,
      workerVars
<1>3. CASE Leave(w) \/ Retire(w)
  BY <1>3, <1>0
  DEF PlaceInv, Place, Searching, Recording, WorkerSteps, Leave, Goto, Retire,
      Deactivate, workerVars
<1>4. CASE PollStop(w) \/ VisitLeaf(w)
  BY <1>4, <1>0
  DEF PlaceInv, Place, Searching, Recording, WorkerSteps, PollStop, Goto, VisitLeaf,
      workerVars
<1>5. CASE FinishPrefix(w) \/ FetchAndAdd(w)
  BY <1>5, <1>0
  DEF PlaceInv, Place, Searching, Recording, WorkerSteps, FinishPrefix, Goto,
      FetchAndAdd, Numbering, workerVars
<1>6. CASE LoadTotal(w) \/ Refuse(w)
  BY <1>6, <1>0
  DEF PlaceInv, Place, Searching, Recording, WorkerSteps, LoadTotal, Goto, Refuse,
      workerVars
<1>7. CASE CompareExchange(w) \/ Enqueue(w)
  BY <1>7, <1>0
  DEF PlaceInv, Place, Searching, Recording, WorkerSteps, CompareExchange, Goto,
      Unchanged, Numbering, Enqueue, workerVars
<1>8. CASE AwaitRoom(w) \/ ReachLimit(w)
  BY <1>8, <1>0
  DEF PlaceInv, Place, Searching, Recording, WorkerSteps, AwaitRoom, Goto, ReachLimit,
      workerVars
<1>9. CASE CheckFails(w) \/ SpuriousWakeup(w)
  BY <1>9, <1>0
  DEF PlaceInv, Place, Searching, Recording, WorkerSteps, CheckFails, Goto,
      SpuriousWakeup, workerVars
<1> QED BY <1>1, <1>2, <1>3, <1>4, <1>5, <1>6, <1>7, <1>8, <1>9 DEF WorkerStep

LEMMA PlaceStep ==
    ASSUME TypeOK, CreationInv, PlaceInv, [Next]_vars, prefix' \in [Workers -> Prefixes]
    PROVE  PlaceInv'
<1>1. Leaves' = Leaves
  BY SessionStays
<1>2. ASSUME NEW w \in Workers, WorkerStep(w) \/ CheckFails(w) \/ SpuriousWakeup(w)
      PROVE  PlaceInv'
  BY <1>1, <1>2, OthersStay, PlaceOfMover DEF PlaceInv, Place, Same, Workers
<1>3. CASE MainThread \/ Interrupt \/ UNCHANGED vars
  BY <1>1, <1>3, MainKeeps DEF PlaceInv, Place, Searching, Recording, workerVars, Workers
<1> QED BY <1>2, <1>3 DEF Next

(* Numbers are given in one way only.                                      *)
LEMMA NumberingFrame ==
    ASSUME TypeOK, [Next]_vars
    PROVE  \/ \E u \in Workers : TakesNumber(u)
           \/ UNCHANGED <<solutionTotal, numbering>>
<1>1. ASSUME NEW w \in Workers, WorkerStep(w) \/ CheckFails(w) \/ SpuriousWakeup(w)
      PROVE  \/ \E u \in Workers : TakesNumber(u)
             \/ UNCHANGED <<solutionTotal, numbering>>
  <2>1. CASE ClaimJob(w) \/ CheckJob(w) \/ NextPrefix(w) \/ CountJob(w)
    BY <2>1
    DEF TypeOK, ClaimJob, Goto, workerVars, CheckJob, NextPrefix, CountJob, counters,
        flags, mainVars, history
  <2>2. CASE Leave(w) \/ Retire(w) \/ PollStop(w) \/ VisitLeaf(w)
    BY <2>2
    DEF TypeOK, Leave, Goto, Retire, Deactivate, PollStop, VisitLeaf, counters, flags,
        mainVars, history
  <2>3. CASE FinishPrefix(w)
    BY <2>3
    DEF TypeOK, FinishPrefix, Goto, counters, flags, mainVars, history
  <2>4. CASE FetchAndAdd(w)
    BY <2>4
    DEF TypeOK, FetchAndAdd, Goto, Numbering, TakesNumber, Unnumbered, AtLimit,
        counters, flags, mainVars, history
  <2>5. CASE LoadTotal(w) \/ Refuse(w)
    BY <2>5
    DEF TypeOK, LoadTotal, Goto, Refuse, counters, flags, mainVars, history
  <2>6. CASE CompareExchange(w)
    BY <2>6
    DEF TypeOK, CompareExchange, Goto, Unchanged, Numbering, TakesNumber, Unnumbered,
        AtLimit, counters, flags, mainVars, history
  <2>7. CASE Enqueue(w) \/ AwaitRoom(w) \/ ReachLimit(w) \/ CheckFails(w)
    BY <2>7
    DEF TypeOK, Enqueue, Goto, AwaitRoom, ReachLimit, CheckFails, counters, flags,
        mainVars, history
  <2>8. CASE SpuriousWakeup(w)
    BY <2>8
    DEF TypeOK, SpuriousWakeup, Goto, counters, flags, mainVars, history
  <2> QED BY <1>1, <2>1, <2>2, <2>3, <2>4, <2>5, <2>6, <2>7, <2>8 DEF WorkerStep
<1>2. CASE MainThread
  <2>1. CASE CreateWorker \/ WorkerCreated \/ CreateFails \/ TestActive
    BY <2>1
    DEF TypeOK, CreateWorker, Activate, WorkerCreated, CreateFails, Deactivate,
        TestActive, counters, flags, mainVars, history
  <2>2. CASE PollInterrupt \/ Pause \/ DrainOne \/ Drained
    BY <2>2, DrainedStep
    DEF TypeOK, PollInterrupt, NoticeInterrupt, Pause, DrainOne, SignalNotFull, Waiters,
        Goto, Draining, counters, flags, mainVars, history
  <2>3. CASE JoinWorkers \/ Assess \/ Report
    BY <2>3, ReportStep
    DEF TypeOK, JoinWorkers, Assess, counters, flags, mainVars, history
  <2> QED BY <1>2, <2>1, <2>2, <2>3 DEF MainThread
<1>3. CASE Interrupt \/ UNCHANGED vars
  BY <1>3
  DEF TypeOK, Interrupt, vars, counters, flags, mainVars, history
<1> QED BY <1>1, <1>2, <1>3 DEF Next

LEMMA ReservedOfMover ==
    ASSUME TypeOK, NumbersInv, [Next]_vars,
           NEW w \in Workers, WorkerStep(w) \/ CheckFails(w) \/ SpuriousWakeup(w)
    PROVE  Reserved(w)'
<1>0. /\ pc \in [Workers -> WorkerSteps] /\ number \in [Workers -> Nat]
      /\ Leaves' = Leaves /\ Limit' = Limit
      /\ solutionTotal \in Nat /\ solutionTotal' >= solutionTotal
  BY SessionStays, Monotone DEF TypeOK
<1>1. CASE ClaimJob(w)
  BY <1>1, <1>0
  DEF NumbersInv, Reserved, WorkerSteps, NumberedSteps, Found, ClaimJob, Goto,
      workerVars, history
<1>2. CASE CheckJob(w)
  BY <1>2, <1>0
  DEF NumbersInv, Reserved, WorkerSteps, NumberedSteps, Found, CheckJob, Goto,
      workerVars, history
<1>3. CASE NextPrefix(w)
  BY <1>3, <1>0
  DEF NumbersInv, Reserved, WorkerSteps, NumberedSteps, Found, NextPrefix, Goto,
      workerVars, history
<1>4. CASE CountJob(w)
  BY <1>4, <1>0
  DEF NumbersInv, Reserved, WorkerSteps, NumberedSteps, Found, CountJob, Goto,
      workerVars, history
<1>5. CASE Leave(w)
  BY <1>5, <1>0
  DEF NumbersInv, Reserved, WorkerSteps, NumberedSteps, Found, Leave, Goto, workerVars,
      history
<1>6. CASE Retire(w)
  BY <1>6, <1>0
  DEF NumbersInv, Reserved, WorkerSteps, NumberedSteps, Found, Retire, Goto, Deactivate,
      workerVars, history
<1>7. CASE PollStop(w)
  BY <1>7, <1>0
  DEF NumbersInv, Reserved, WorkerSteps, NumberedSteps, Found, PollStop, Goto,
      workerVars, history
<1>8. CASE VisitLeaf(w)
  BY <1>8, <1>0
  DEF NumbersInv, Reserved, WorkerSteps, NumberedSteps, Found, VisitLeaf, Goto,
      workerVars, history
<1>9. CASE FinishPrefix(w)
  BY <1>9, <1>0
  DEF NumbersInv, Reserved, WorkerSteps, NumberedSteps, Found, FinishPrefix, Goto,
      workerVars, history
<1>10. CASE FetchAndAdd(w)
  BY <1>10, <1>0
  DEF NumbersInv, Reserved, WorkerSteps, NumberedSteps, Found, FetchAndAdd, Goto,
      Numbering, workerVars, history
<1>11. CASE LoadTotal(w)
  BY <1>11, <1>0
  DEF NumbersInv, Reserved, WorkerSteps, NumberedSteps, Found, LoadTotal, Goto,
      workerVars, history
<1>12. CASE Refuse(w)
  BY <1>12, <1>0
  DEF NumbersInv, Reserved, WorkerSteps, NumberedSteps, Found, Refuse, Goto, workerVars,
      history
<1>13. CASE CompareExchange(w)
  BY <1>13, <1>0
  DEF NumbersInv, Reserved, WorkerSteps, NumberedSteps, Found, CompareExchange, Goto,
      Unchanged, Numbering, workerVars, history
<1>14. CASE Enqueue(w)
  BY <1>14, <1>0
  DEF NumbersInv, Reserved, WorkerSteps, NumberedSteps, Found, Enqueue, Goto,
      workerVars, history
<1>15. CASE AwaitRoom(w)
  BY <1>15, <1>0
  DEF NumbersInv, Reserved, WorkerSteps, NumberedSteps, Found, AwaitRoom, Goto,
      workerVars, history
<1>16. CASE ReachLimit(w)
  BY <1>16, <1>0
  DEF NumbersInv, Reserved, WorkerSteps, NumberedSteps, Found, ReachLimit, Goto,
      workerVars, history
<1>17. CASE CheckFails(w)
  BY <1>17, <1>0
  DEF NumbersInv, Reserved, WorkerSteps, NumberedSteps, Found, CheckFails, Goto,
      workerVars, history
<1>18. CASE SpuriousWakeup(w)
  BY <1>18, <1>0
  DEF NumbersInv, Reserved, WorkerSteps, NumberedSteps, Found, SpuriousWakeup, Goto,
      workerVars, history
<1> QED BY <1>1, <1>2, <1>3, <1>4, <1>5, <1>6, <1>7, <1>8, <1>9, <1>10, <1>11, <1>12,
    <1>13, <1>14, <1>15, <1>16, <1>17, <1>18 DEF WorkerStep

LEMMA NumbersStep ==
    ASSUME TypeOK, TypeOK', CreationInv, PlaceInv, NumbersInv, FreshInv, [Next]_vars
    PROVE  NumbersInv'
<1>1. /\ Leaves' = Leaves /\ Limit' = Limit /\ AllLeaves' = AllLeaves
      /\ solutionTotal \in Nat /\ solutionTotal' \in Nat /\ Limit \in Nat
  <2>1. Leaves' = Leaves /\ Limit' = Limit /\ Prefixes' = Prefixes
    BY SessionStays
  <2>2. session \in Sessions /\ solutionTotal \in Nat /\ solutionTotal' \in Nat
    BY DEF TypeOK
  <2>3. AllLeaves' = AllLeaves
    BY <2>1 DEF AllLeaves
  <2> QED BY <2>1, <2>2, <2>3, SessionTyped
<1>2. /\ solutionTotal' >= solutionTotal /\ numbering \subseteq numbering'
  BY Monotone
<1>3. \A w \in Workers : Reserved(w)'
  <2>1. ASSUME NEW w \in Workers, WorkerStep(w) \/ CheckFails(w) \/ SpuriousWakeup(w)
        PROVE  \A v \in Workers : Reserved(v)'
    <3>1. ASSUME NEW v \in Workers \ {w}
          PROVE  Reserved(v)'
      <4>1. Same(v)
        BY <2>1, OthersStay
      <4>2. Reserved(v) /\ number[v] \in Nat
        BY DEF NumbersInv, TypeOK
      <4> QED BY <1>1, <1>2, <4>1, <4>2 DEF Reserved, Same, Found
    <3> QED BY <2>1, <3>1, ReservedOfMover
  <2>2. CASE MainThread \/ Interrupt \/ UNCHANGED vars
    <3>1. UNCHANGED <<counters, workerVars, history>>
      BY <2>2, MainKeeps
    <3>2. \A v \in Workers : \/ pc'[v] = pc[v]
                             \/ pc[v] = "waiting" /\ pc'[v] = "enqueue"
                             \/ pc'[v] = "claim"
      BY <2>2, MainKeeps
    <3> QED BY <1>1, <3>1, <3>2
            DEF NumbersInv, Reserved, NumberedSteps, Found, counters, workerVars, history
  <2> QED BY <2>1, <2>2 DEF Next
<1>4. ASSUME NEW w \in Workers, TakesNumber(w)
      PROVE  NumbersInv'
  <2> DEFINE new == [number |-> solutionTotal + 1, encoding |-> Found(w)]
  <2>1. numbering' = numbering \union {new} /\ solutionTotal' = solutionTotal + 1
    BY <1>4 DEF TakesNumber
  <2>2. /\ Found(w) \in AllLeaves /\ Found(w) \notin Numbered
    <3>1. pc[w] \in Recording /\ pc[w] \in Searching /\ pc[w] \in Unnumbered
      BY <1>4 DEF TakesNumber, Unnumbered, Recording, Searching
    <3>2. leaf[w] \in 1 .. Len(Leaves[prefix[w]]) /\ Found(w) \in AllLeaves
      BY <3>1, FoundTyped
    <3>3. Ahead(w, leaf[w])
      BY <3>1 DEF Ahead
    <3> QED BY <3>1, <3>2, <3>3 DEF FreshInv, Fresh, Found
  <2>3. \A r \in numbering : r.number <= solutionTotal /\ r.encoding # Found(w)
                             /\ r.number \in Nat
    BY <2>2 DEF NumbersInv, Numbered, TypeOK, Announcement
  <2>4. \A r \in numbering' : r.number <= solutionTotal'
    BY <1>1, <2>1, <2>3
  <2>5. \A r, s \in numbering' : r.number = s.number \/ r.encoding = s.encoding => r = s
    BY <1>1, <2>1, <2>3 DEF NumbersInv
  <2>6. Numbered' \subseteq AllLeaves'
    BY <1>1, <2>1, <2>2 DEF NumbersInv, Numbered
  <2>7. Limit' # 0 => solutionTotal' <= Limit'
    BY <1>1, <1>4, <2>1 DEF TakesNumber, AtLimit
  <2> QED BY <1>3, <2>4, <2>5, <2>6, <2>7 DEF NumbersInv
<1>5. CASE UNCHANGED <<solutionTotal, numbering>>
  BY <1>1, <1>3, <1>5 DEF NumbersInv, Numbered
<1> QED BY <1>4, <1>5, NumberingFrame

(* The ring hands its first solution to the printed ones.                  *)
LEMMA MoveHead ==
    ASSUME NEW S, NEW p \in Seq(S), NEW q \in Seq(S), q # <<>>
    PROVE  Append(p, Head(q)) \o Tail(q) = p \o q
  OBVIOUS

LEMMA AppendToSecond ==
    ASSUME NEW S, NEW p \in Seq(S), NEW q \in Seq(S), NEW x \in S
    PROVE  p \o Append(q, x) = Append(p \o q, x)
  OBVIOUS

LEMMA LineTyped ==
    ASSUME TypeOK
    PROVE  Line \in Seq(Announcement) /\ Len(Line) \in Nat
  BY DEF TypeOK, Line

(* The line grows at its end, and no other way.                           *)
LEMMA LineFrame ==
    ASSUME TypeOK, PlaceInv, NumbersInv, [Next]_vars
    PROVE  Line' = Line \/ \E u \in Workers : Puts(u)
<1>1. ASSUME NEW w \in Workers, WorkerStep(w) \/ CheckFails(w) \/ SpuriousWakeup(w)
      PROVE  Line' = Line \/ \E u \in Workers : Puts(u)
  <2>1. CASE ClaimJob(w) \/ CheckJob(w) \/ NextPrefix(w) \/ CountJob(w) \/ Leave(w) \/
      Retire(w)
    BY <2>1
    DEF Line, ClaimJob, Goto, workerVars, CheckJob, NextPrefix, CountJob, Leave, Retire,
        Deactivate, mainVars
  <2>2. CASE PollStop(w) \/ VisitLeaf(w) \/ FinishPrefix(w) \/ FetchAndAdd(w) \/
      LoadTotal(w) \/ Refuse(w)
    BY <2>2
    DEF Line, PollStop, Goto, VisitLeaf, FinishPrefix, FetchAndAdd, Numbering,
        LoadTotal, Refuse, mainVars, workerVars
  <2>3. CASE CompareExchange(w)
    BY <2>3
    DEF Line, CompareExchange, Goto, Unchanged, Numbering, mainVars, workerVars
  <2>4. CASE Enqueue(w)
    <3> DEFINE new == [number |-> number[w], encoding |-> Found(w)]
    <3>1. CASE ToPrint(w)
      <4>1. new \in Announcement
        BY <2>4 DEF Enqueue, NumbersInv, Reserved, NumberedSteps, TypeOK
      <4>2. printed' = printed /\ queue' = Append(queue, new)
        BY <2>4, <3>1 DEF Enqueue, mainVars
      <4>3. Line' = Append(Line, new)
        <5> HIDE DEF new
        <5> QED BY SMTT(30), <4>1, <4>2, AppendToSecond DEF Line, TypeOK
      <4> QED BY <2>4, <3>1, <4>3 DEF Puts, Enqueue, Goto, workerVars, counters, history
    <3>2. CASE ~ToPrint(w)
      BY <2>4, <3>2 DEF Enqueue, Line, mainVars
    <3> QED BY <3>1, <3>2
  <2>5. CASE AwaitRoom(w) \/ ReachLimit(w) \/ CheckFails(w) \/ SpuriousWakeup(w)
    BY <2>5
    DEF Line, AwaitRoom, Goto, ReachLimit, CheckFails, SpuriousWakeup, mainVars,
        workerVars
  <2> QED BY <1>1, <2>1, <2>2, <2>3, <2>4, <2>5 DEF WorkerStep
<1>2. CASE MainThread
  <2>1. CASE CreateWorker \/ WorkerCreated \/ CreateFails \/ TestActive \/ PollInterrupt
      \/ Pause
    BY <2>1
    DEF Line, CreateWorker, Activate, WorkerCreated, CreateFails, Deactivate,
        TestActive, PollInterrupt, NoticeInterrupt, Pause, mainVars, workerVars
  <2>2. CASE DrainOne
    BY <2>2, MoveHead DEF TypeOK, DrainOne, Line
  <2>3. CASE Drained \/ JoinWorkers \/ Assess \/ Report
    BY <2>3, DrainedStep, ReportStep
    DEF Line, Draining, JoinWorkers, Assess, mainVars, workerVars
  <2> QED BY <1>2, <2>1, <2>2, <2>3 DEF MainThread
<1>3. CASE Interrupt \/ UNCHANGED vars
  BY <1>3
  DEF Line, Interrupt, vars, mainVars, workerVars
<1> QED BY <1>1, <1>2, <1>3 DEF Next

LEMMA KeepsOfMover ==
    ASSUME TypeOK, PlaceInv, NumbersInv, LineInv, [Next]_vars,
           NEW w \in Workers, WorkerStep(w) \/ CheckFails(w) \/ SpuriousWakeup(w)
    PROVE  TakesNumber(w) \/ Puts(w) \/ Keeps(w)
<1>0. pc \in [Workers -> WorkerSteps] /\ number \in [Workers -> Nat]
  BY DEF TypeOK
<1>1. CASE ClaimJob(w) \/ CheckJob(w)
  BY <1>1, <1>0
  DEF LineInv, WorkerSteps, NumberedSteps, Handing, Keeps, ClaimJob, Goto, workerVars,
      CheckJob
<1>2. CASE NextPrefix(w) \/ CountJob(w)
  BY <1>2, <1>0
  DEF LineInv, WorkerSteps, NumberedSteps, Handing, Keeps, NextPrefix, Goto, CountJob,
      workerVars
<1>3. CASE Leave(w) \/ Retire(w)
  BY <1>3, <1>0
  DEF LineInv, WorkerSteps, NumberedSteps, Handing, Keeps, Leave, Goto, Retire,
      Deactivate, workerVars
<1>4. CASE PollStop(w) \/ VisitLeaf(w)
  BY <1>4, <1>0
  DEF LineInv, WorkerSteps, NumberedSteps, Handing, Keeps, PollStop, Goto, VisitLeaf,
      workerVars
<1>5. CASE FinishPrefix(w)
  BY <1>5, <1>0
  DEF LineInv, WorkerSteps, NumberedSteps, Handing, Keeps, FinishPrefix, Goto,
      workerVars
<1>6. CASE FetchAndAdd(w)
  BY <1>6 DEF FetchAndAdd, TakesNumber, Unnumbered, AtLimit, Numbering, Goto, counters, flags
<1>7. CASE LoadTotal(w) \/ Refuse(w)
  BY <1>7, <1>0
  DEF LineInv, WorkerSteps, NumberedSteps, Handing, Keeps, LoadTotal, Goto, Refuse,
      workerVars
<1>8. CASE CompareExchange(w)
  BY <1>8, <1>0 DEF CompareExchange, TakesNumber, Unnumbered, Unchanged, Numbering, Goto, counters, flags, Keeps,
      WorkerSteps, NumberedSteps, Handing
<1>9. CASE Enqueue(w)
  <2>1. CASE ToPrint(w)
    <3>1. Line' # Line
      <4>1. queue' = Append(queue, [number |-> number[w], encoding |-> Found(w)])
        BY <1>9, <2>1 DEF Enqueue
      <4> QED BY <1>9, <4>1 DEF Enqueue, mainVars, TypeOK, Line
    <3>2. PICK v \in Workers : Puts(v)
      BY <3>1, LineFrame
    <3>3. v = w
      BY <1>9, <3>2, <1>0 DEF Enqueue, Goto, Puts, WorkerSteps
    <3> QED BY <3>2, <3>3
  <2>2. CASE ~ToPrint(w)
    BY <1>9, <2>2, <1>0 DEF Enqueue, Goto, Keeps, NumberedSteps, Handing, workerVars, WorkerSteps
  <2> QED BY <2>1, <2>2
<1>10. CASE AwaitRoom(w) \/ ReachLimit(w)
  BY <1>10, <1>0
  DEF LineInv, WorkerSteps, NumberedSteps, Handing, Keeps, AwaitRoom, Goto, ReachLimit,
      workerVars
<1>11. CASE CheckFails(w) \/ SpuriousWakeup(w)
  BY <1>11, <1>0
  DEF LineInv, WorkerSteps, NumberedSteps, Handing, Keeps, CheckFails, Goto,
      SpuriousWakeup, workerVars
<1> QED BY <1>1, <1>2, <1>3, <1>4, <1>5, <1>6, <1>7, <1>8, <1>9, <1>10, <1>11 DEF
    WorkerStep

(* Every worker gets a number, puts it on the line or keeps it.            *)
LEMMA EachKeeps ==
    ASSUME TypeOK, CreationInv, PlaceInv, NumbersInv, LineInv, [Next]_vars, NEW v \in Workers
    PROVE  TakesNumber(v) \/ Puts(v) \/ Keeps(v)
<1>1. ASSUME NEW w \in Workers, WorkerStep(w) \/ CheckFails(w) \/ SpuriousWakeup(w)
      PROVE  TakesNumber(v) \/ Puts(v) \/ Keeps(v)
  <2>1. CASE v = w
    BY <1>1, <2>1, KeepsOfMover
  <2>2. CASE v # w
    <3>1. Same(v)
      BY <1>1, <2>2, OthersStay
    <3> QED BY <3>1 DEF Same, Keeps, LineInv
  <2> QED BY <2>1, <2>2
<1>2. CASE MainThread \/ Interrupt \/ UNCHANGED vars
  <2>1. number'[v] = number[v]
    BY <1>2, MainKeeps DEF workerVars
  <2>2. \/ pc'[v] = pc[v]
        \/ pc[v] = "waiting" /\ pc'[v] = "enqueue"
        \/ pc'[v] = "claim" /\ pc[v] = "absent"
    BY <1>2, MainKeeps
  <2> QED BY <2>1, <2>2 DEF Keeps, NumberedSteps, Handing, LineInv
<1> QED BY <1>1, <1>2 DEF Next

(* The main thread judges an empty ring: it has emptied it itself, and     *)
(* nobody is left to fill it.                                              *)
LEMMA EmptyAtLast ==
    ASSUME TypeOK, CreationInv, LineInv, [Next]_vars
    PROVE  mainPc' \in {"assess", "report", "done"} => queue' = <<>>
<1>1. ASSUME NEW w \in Workers, WorkerStep(w) \/ CheckFails(w) \/ SpuriousWakeup(w)
      PROVE  mainPc' \in {"assess", "report", "done"} => queue' = <<>>
  <2>1. CASE ClaimJob(w) \/ CheckJob(w) \/ NextPrefix(w) \/ CountJob(w) \/ Leave(w)
    BY <2>1
    DEF LineInv, ClaimJob, Goto, workerVars, CheckJob, NextPrefix, CountJob, Leave,
        mainVars
  <2>2. CASE Retire(w) \/ PollStop(w) \/ VisitLeaf(w) \/ FinishPrefix(w) \/
      FetchAndAdd(w)
    BY <2>2
    DEF LineInv, Retire, Goto, Deactivate, PollStop, VisitLeaf, FinishPrefix,
        FetchAndAdd, Numbering, mainVars
  <2>3. CASE LoadTotal(w) \/ Refuse(w) \/ CompareExchange(w)
    BY <2>3
    DEF LineInv, LoadTotal, Goto, Refuse, CompareExchange, Unchanged, Numbering,
        mainVars
  <2>4. CASE Enqueue(w)
    BY <2>4 DEF Enqueue, CreationInv, ActiveWorkers, Active, Ended, mainVars
  <2>5. CASE AwaitRoom(w) \/ ReachLimit(w) \/ CheckFails(w) \/ SpuriousWakeup(w)
    BY <2>5
    DEF LineInv, AwaitRoom, Goto, ReachLimit, CheckFails, SpuriousWakeup, mainVars
  <2> QED BY <1>1, <2>1, <2>2, <2>3, <2>4, <2>5 DEF WorkerStep
<1>2. CASE MainThread
  <2>1. CASE CreateWorker \/ WorkerCreated \/ CreateFails \/ TestActive \/ PollInterrupt
    BY <2>1
    DEF LineInv, CreateWorker, Activate, WorkerCreated, CreateFails, Deactivate,
        TestActive, PollInterrupt, NoticeInterrupt, mainVars
  <2>2. CASE Pause
    BY <2>2
    DEF LineInv, Pause, mainVars
  <2>3. CASE DrainOne
    BY <2>3 DEF DrainOne, Draining
  <2>4. CASE Drained
    BY <2>4, DrainedStep DEF Draining
  <2>5. CASE JoinWorkers \/ Assess \/ Report
    BY <2>5, ReportStep
    DEF LineInv, JoinWorkers, Assess, mainVars
  <2> QED BY <1>2, <2>1, <2>2, <2>3, <2>4, <2>5 DEF MainThread
<1>3. CASE Interrupt \/ UNCHANGED vars
  BY <1>3
  DEF LineInv, Interrupt, vars, mainVars
<1> QED BY <1>1, <1>2, <1>3 DEF Next

LEMMA LineStep ==
    ASSUME TypeOK, TypeOK', CreationInv, PlaceInv, NumbersInv, NumbersInv', LineInv, [Next]_vars
    PROVE  LineInv'
<1>1. /\ PrintLimit' = PrintLimit /\ PrintLimit \in Nat
      /\ solutionTotal \in Nat /\ solutionTotal' \in Nat
      /\ Line \in Seq(Announcement) /\ numbering \subseteq numbering'
      /\ \A w \in Workers : number[w] \in Nat /\ number'[w] \in Nat
  BY SessionStays, SessionTyped, LineTyped, Monotone DEF TypeOK
<1>0. \A r \in numbering : r.number \in 1 .. solutionTotal
  <2>1. \A r \in numbering : r.number \in Nat \ {0} /\ r.number <= solutionTotal
    BY DEF TypeOK, NumbersInv, Announcement
  <2> QED BY <1>1, <2>1
<1>2. \A v \in Workers : TakesNumber(v) \/ Puts(v) \/ Keeps(v)
  BY EachKeeps
<1>3. \A v \in Workers : pc[v] \in NumberedSteps =>
          /\ number[v] \in 1 .. solutionTotal
          /\ [number |-> number[v], encoding |-> Found(v)] \in numbering
  <2>1. ASSUME NEW v \in Workers, pc[v] \in NumberedSteps
        PROVE  [number |-> number[v], encoding |-> Found(v)] \in numbering
    BY <2>1 DEF NumbersInv, Reserved
  <2>2. ASSUME NEW v \in Workers, pc[v] \in NumberedSteps
        PROVE  number[v] \in 1 .. solutionTotal
    BY <1>0, <2>1, <2>2
  <2> QED BY <2>1, <2>2
<1>4. \A i \in 1 .. Len(Line) : Line[i].number \in 1 .. solutionTotal
  BY <1>0 DEF LineInv
<1>5. \A v, w \in Workers :
          pc'[v] \in NumberedSteps /\ pc'[w] \in NumberedSteps /\ number'[v] = number'[w]
              => v = w
  <2>1. ASSUME NEW v \in Workers, TakesNumber(v), NEW w \in Workers, v # w,
               pc'[w] \in NumberedSteps
        PROVE  number'[v] # number'[w]
    <3>1. pc'[w] = pc[w] /\ number'[w] = number[w] /\ number'[v] = solutionTotal + 1
      BY <2>1 DEF TakesNumber, TypeOK
    <3>2. pc[w] \in NumberedSteps
      BY <2>1, <3>1
    <3>3. number[w] \in 1 .. solutionTotal
      BY <1>3, <3>2
    <3> QED BY <1>1, <3>1, <3>3
  <2>2. ASSUME NEW v \in Workers, Puts(v), NEW w \in Workers, pc'[w] \in NumberedSteps
        PROVE  pc[w] \in NumberedSteps /\ number'[w] = number[w]
    BY <2>2 DEF Puts, TypeOK, NumberedSteps
  <2> QED BY <1>2, <2>1, <2>2 DEF Keeps, LineInv
<1>6. \A w \in Workers : pc'[w] = "waiting" => ToPrint(w)'
  <2>1. ASSUME NEW w \in Workers, pc'[w] = "waiting"
        PROVE  ToPrint(w) /\ number'[w] = number[w]
    <3>1. ~TakesNumber(w) /\ ~Puts(w)
      BY <2>1 DEF TakesNumber, Puts, TypeOK
    <3> QED BY <1>2, <2>1, <3>1 DEF Keeps, NumberedSteps
  <2> QED BY <1>1, <2>1 DEF ToPrint
<1>7. mainPc' \in {"assess", "report", "done"} => queue' = <<>>
  BY EmptyAtLast
<1>8. ASSUME NEW w \in Workers, Puts(w)
      PROVE  LineInv'
  <2> DEFINE new == [number |-> number[w], encoding |-> Found(w)]
  <2>1. /\ Line' = Append(Line, new) /\ new \in numbering /\ new \in Announcement
        /\ new.number = number[w] /\ number[w] <= PrintLimit
        /\ ~OnLine(number[w])
    BY <1>3, <1>8 DEF Puts, ToPrint, NumberedSteps, TypeOK, LineInv, Handing
  <2> HIDE DEF new
  <2>2. /\ Len(Line') = Len(Line) + 1 /\ Line'[Len(Line) + 1] = new
        /\ \A i \in 1 .. Len(Line) : Line'[i] = Line[i]
    BY <1>1, <2>1
  <2>3. \A n \in Nat : OnLine(n)' <=> OnLine(n) \/ n = number[w]
    BY <1>1, <2>1, <2>2 DEF OnLine
  <2>4. \A i, j \in 1 .. Len(Line') : Line'[i].number = Line'[j].number => i = j
    BY <1>1, <2>1, <2>2 DEF LineInv, OnLine
  <2>5. \A i \in 1 .. Len(Line') : Line'[i] \in numbering' /\ Line'[i].number <= PrintLimit'
    BY <1>1, <2>1, <2>2 DEF LineInv
  <2>6. \A v \in Workers : pc'[v] \in Handing =>
            v # w /\ pc[v] \in Handing /\ number'[v] = number[v] /\ number[v] # number[w]
    BY <1>8 DEF Puts, TypeOK, Handing, NumberedSteps, LineInv
  <2>7. \A v \in Workers : pc[v] \in Handing /\ v # w =>
            pc'[v] \in Handing /\ number'[v] = number[v]
    BY <1>8 DEF Puts, TypeOK, Handing
  <2>8. \A v \in Workers : pc'[v] \in Handing => ~OnLine(number[v])' 
    BY <1>1, <2>3, <2>6 DEF LineInv
  <2>9. \A n \in 1 .. Smaller(solutionTotal', PrintLimit') : OnLine(n)' \/ InHand(n)'
    <3> SUFFICES ASSUME NEW n \in 1 .. Smaller(solutionTotal, PrintLimit)
                 PROVE  OnLine(n)' \/ InHand(n)'
      BY <1>1, <1>8 DEF Puts
    <3>1. n \in Nat
      BY <1>1 DEF Smaller
    <3> QED BY <2>3, <2>7, <3>1 DEF LineInv, InHand
  <2> QED BY <1>5, <1>6, <1>7, <2>4, <2>5, <2>8, <2>9 DEF LineInv
<1>9. ASSUME Line' = Line
      PROVE  LineInv'
  <2>1. \A v \in Workers : ~Puts(v)
    BY <1>1, <1>9 DEF Puts
  <2>2. \A n : OnLine(n)' <=> OnLine(n)
    BY <1>9 DEF OnLine
  <2>3. ASSUME NEW v \in Workers, pc'[v] \in Handing
        PROVE  ~OnLine(number'[v])
    <3>1. CASE TakesNumber(v)
      <4>1. number'[v] = solutionTotal + 1
        BY <3>1 DEF TakesNumber, TypeOK
      <4> QED BY <1>1, <1>4, <4>1 DEF OnLine
    <3>2. CASE Keeps(v)
      BY <2>3, <3>2 DEF Keeps, LineInv, Handing, NumberedSteps
    <3> QED BY <1>2, <2>1, <3>1, <3>2
  <2>4. ASSUME NEW n \in 1 .. Smaller(solutionTotal', PrintLimit)
        PROVE  OnLine(n) \/ InHand(n)'
    <3>1. CASE n <= solutionTotal
      <4>1. n \in 1 .. Smaller(solutionTotal, PrintLimit) /\ n <= PrintLimit
        BY <1>1, <3>1 DEF Smaller
      <4>2. ASSUME NEW v \in Workers, pc[v] \in Handing, number[v] = n
            PROVE  InHand(n)'
        <5>1. Keeps(v)
          BY <1>2, <2>1, <4>2 DEF TakesNumber, Unnumbered, Handing
        <5>2. pc'[v] \in Handing /\ number'[v] = n
          BY <4>1, <4>2, <5>1 DEF Keeps, ToPrint, Handing, NumberedSteps
        <5> QED BY <5>2 DEF InHand
      <4> QED BY <4>1, <4>2 DEF LineInv, InHand
    <3>2. CASE n > solutionTotal
      <4>1. PICK w \in Workers : TakesNumber(w)
        BY <1>1, <3>2, NumberingFrame DEF Smaller
      <4>2. solutionTotal' = solutionTotal + 1 /\ number'[w] = solutionTotal + 1
            /\ pc'[w] = "enqueue"
        BY <4>1 DEF TakesNumber, TypeOK
      <4>3. n = number'[w]
        BY <1>1, <3>2, <4>2 DEF Smaller
      <4> QED BY <4>2, <4>3 DEF InHand, Handing
    <3> QED BY <1>1, <3>1, <3>2 DEF Smaller
  <2>5. /\ \A i, j \in 1 .. Len(Line') : Line'[i].number = Line'[j].number => i = j
        /\ \A i \in 1 .. Len(Line') : Line'[i] \in numbering' /\ Line'[i].number <= PrintLimit'
    BY <1>1, <1>9 DEF LineInv
  <2>6. \A v \in Workers : pc'[v] \in Handing => ~OnLine(number[v])'
    BY <1>9, <2>3 DEF OnLine
  <2>7. \A n \in 1 .. Smaller(solutionTotal', PrintLimit') : OnLine(n)' \/ InHand(n)'
    BY <1>1, <2>2, <2>4
  <2> QED BY <1>5, <1>6, <1>7, <2>5, <2>6, <2>7 DEF LineInv
<1> QED BY <1>8, <1>9, LineFrame

(* Only Enqueue, AwaitRoom and DrainOne bear on the ring and its waiters.  *)
LEMMA RingFrame ==
    ASSUME TypeOK, CreationInv, [Next]_vars
    PROVE  \/ \E u \in Workers : Enqueue(u) \/ AwaitRoom(u)
           \/ DrainOne
           \/ /\ queue' = queue
              /\ \A v \in Workers : /\ pc[v] = "enqueue" => pc'[v] = "enqueue"
                                    /\ pc[v] = "enqueue" => number'[v] = number[v]
                                    /\ pc'[v] = "waiting" => pc[v] = "waiting" 
<1>1. ASSUME NEW w \in Workers, WorkerStep(w) \/ CheckFails(w) \/ SpuriousWakeup(w)
      PROVE  \/ \E u \in Workers : Enqueue(u) \/ AwaitRoom(u)
             \/ DrainOne
             \/ /\ queue' = queue
                /\ \A v \in Workers : /\ pc[v] = "enqueue" => pc'[v] = "enqueue"
                                      /\ pc[v] = "enqueue" => number'[v] = number[v]
                                      /\ pc'[v] = "waiting" => pc[v] = "waiting" 
  <2>1. CASE ClaimJob(w) \/ CheckJob(w) \/ NextPrefix(w)
    BY <2>1
    DEF TypeOK, ClaimJob, Goto, workerVars, CheckJob, NextPrefix, counters, flags,
        mainVars, history
  <2>2. CASE CountJob(w) \/ Leave(w) \/ Retire(w)
    BY <2>2
    DEF TypeOK, CountJob, Goto, Leave, Retire, Deactivate, counters, flags, workerVars,
        mainVars, history
  <2>3. CASE PollStop(w) \/ VisitLeaf(w) \/ FinishPrefix(w)
    BY <2>3
    DEF TypeOK, PollStop, Goto, VisitLeaf, FinishPrefix, counters, flags, workerVars,
        mainVars, history
  <2>4. CASE FetchAndAdd(w) \/ LoadTotal(w) \/ Refuse(w)
    BY <2>4
    DEF TypeOK, FetchAndAdd, Goto, Numbering, LoadTotal, Refuse, counters, flags,
        workerVars, mainVars, history
  <2>5. CASE CompareExchange(w)
    BY <2>5
    DEF TypeOK, CompareExchange, Goto, Unchanged, Numbering, counters, flags,
        workerVars, mainVars, history
  <2>6. CASE Enqueue(w)
    BY <2>6
  <2>7. CASE AwaitRoom(w)
    BY <2>7
  <2>8. CASE ReachLimit(w) \/ CheckFails(w) \/ SpuriousWakeup(w)
    BY <2>8
    DEF TypeOK, ReachLimit, Goto, CheckFails, SpuriousWakeup, counters, flags,
        workerVars, mainVars, history
  <2> QED BY <1>1, <2>1, <2>2, <2>3, <2>4, <2>5, <2>6, <2>7, <2>8 DEF WorkerStep
<1>2. CASE MainThread
  <2>1. CASE CreateWorker
    BY <2>1
    DEF TypeOK, CreateWorker, Activate, counters, flags, workerVars, mainVars, history
  <2>2. CASE WorkerCreated
    <3>1. queue' = queue /\ number' = number
      BY <2>2 DEF WorkerCreated, workerVars
    <3>2. \A v \in Workers : pc'[v] = pc[v] \/ (pc[v] = "absent" /\ pc'[v] = "claim")
      BY <1>2, MainKeeps, <2>2 DEF WorkerCreated
    <3> QED BY <3>1, <3>2
  <2>3. CASE CreateFails \/ TestActive \/ PollInterrupt
    BY <2>3
    DEF TypeOK, CreateFails, Deactivate, TestActive, PollInterrupt, NoticeInterrupt,
        counters, flags, workerVars, mainVars, history
  <2>4. CASE Pause
    BY <2>4
    DEF TypeOK, Pause, counters, flags, workerVars, mainVars, history
  <2>5. CASE DrainOne
    BY <2>5
  <2>6. CASE Drained \/ JoinWorkers \/ Assess
    BY <2>6, DrainedStep
    DEF TypeOK, Draining, JoinWorkers, Assess, counters, flags, workerVars, mainVars,
        history
  <2>7. CASE Report
    BY <2>7, ReportStep
    DEF TypeOK, counters, flags, workerVars, mainVars, history
  <2> QED BY <1>2, <2>1, <2>2, <2>3, <2>4, <2>5, <2>6, <2>7 DEF MainThread
<1>3. CASE Interrupt \/ UNCHANGED vars
  BY <1>3
  DEF TypeOK, Interrupt, vars, counters, flags, workerVars, mainVars, history
<1> QED BY <1>1, <1>2, <1>3 DEF Next

LEMMA RingStep ==
    ASSUME TypeOK, TypeOK', CreationInv, CreationInv', LineInv, NoStrandedWaiter, [Next]_vars
    PROVE  NoStrandedWaiter'
<1> DEFINE D == Depositing
           Left == Len(queue) + Cardinality(D)
<1>1. /\ IsFiniteSet(D) /\ Cardinality(D) \in Nat
      /\ IsFiniteSet(D') /\ Cardinality(D') \in Nat
  BY WorkersFinite, FS_Subset, FS_CardinalityType DEF Depositing
<1>2. /\ Len(queue) \in Nat /\ Len(queue') \in Nat /\ Capacity \in Nat
      /\ PrintLimit' = PrintLimit
  <2>1. queue \in Seq(Announcement) /\ queue' \in Seq(Announcement) /\ session \in Sessions
    BY DEF TypeOK
  <2> QED BY <2>1, SessionStays, SessionTyped
<1>3. Waiters # {} => Left >= Capacity
  BY DEF NoStrandedWaiter
<1>4. Waiters' # {} => mainPc' \notin Ended
  BY DEF CreationInv, ActiveWorkers, Active, Waiters
<1>5. SUFFICES Waiters' # {} => Left' >= Capacity
  BY <1>4 DEF NoStrandedWaiter, Ended
<1>6. ASSUME NEW w \in Workers, Enqueue(w)
      PROVE  Waiters' # {} => Left' >= Capacity
  <2>1. Waiters' = Waiters
    BY <1>6 DEF Enqueue, Goto, Waiters, TypeOK
  <2>2. CASE ToPrint(w)
    <3>1. Len(queue') = Len(queue) + 1
      BY <1>6, <2>2 DEF Enqueue, TypeOK
    <3>2. D' = D \ {w} /\ w \in D
      BY <1>2, <1>6, <2>2 DEF Enqueue, Goto, Depositing, ToPrint, TypeOK, workerVars
    <3> HIDE DEF D
    <3>3. Cardinality(D') = Cardinality(D) - 1
      BY <1>1, <3>2, FS_RemoveElement
    <3> QED BY <1>1, <1>2, <1>3, <2>1, <3>1, <3>3
  <2>3. CASE ~ToPrint(w)
    <3>1. queue' = queue
      BY <1>6, <2>3 DEF Enqueue
    <3>2. D' = D
      BY <1>2, <1>6, <2>3 DEF Enqueue, Goto, Depositing, ToPrint, TypeOK, workerVars
    <3> HIDE DEF D
    <3> QED BY <1>3, <2>1, <3>1, <3>2
  <2> QED BY <2>2, <2>3
<1>7. ASSUME NEW w \in Workers, AwaitRoom(w)
      PROVE  Waiters' # {} => Left' >= Capacity
  BY <1>1, <1>2, <1>7 DEF AwaitRoom, Full
<1>8. CASE DrainOne
  <2>1. queue # <<>> /\ queue' = Tail(queue)
    BY <1>8 DEF DrainOne
  <2>2. Len(queue') = Len(queue) - 1
    BY <2>1 DEF TypeOK
  <2>3. CASE Waiters = {}
    BY <1>8, <2>3 DEF DrainOne, SignalNotFull, Waiters
  <2>4. CASE Waiters # {}
    <3>1. PICK w \in Waiters : Goto(w, "enqueue")
      BY <1>8, <2>4 DEF DrainOne, SignalNotFull
    <3>2. w \in Workers /\ pc[w] = "waiting" /\ ToPrint(w)
      BY DEF Waiters, LineInv
    <3>3. D' = D \union {w} /\ w \notin D
      BY <1>2, <1>8, <3>1, <3>2 DEF DrainOne, Goto, Depositing, ToPrint, TypeOK, workerVars
    <3> HIDE DEF D
    <3>4. Cardinality(D') = Cardinality(D) + 1
      BY <1>1, <3>3, FS_AddElement
    <3> QED BY <1>1, <1>2, <1>3, <2>2, <2>4, <3>4
  <2> QED BY <2>3, <2>4
<1>9. ASSUME queue' = queue,
             \A v \in Workers : /\ pc[v] = "enqueue" => pc'[v] = "enqueue"
                                /\ pc[v] = "enqueue" => number'[v] = number[v]
                                /\ pc'[v] = "waiting" => pc[v] = "waiting"
      PROVE  Waiters' # {} => Left' >= Capacity
  <2>1. D \subseteq D'
    BY <1>2, <1>9 DEF Depositing, ToPrint, Workers
  <2>2. Waiters' # {} => Waiters # {}
    BY <1>9 DEF Waiters, Workers
  <2> HIDE DEF D
  <2>3. Cardinality(D) <= Cardinality(D')
    BY <1>1, <2>1, FS_Subset
  <2> QED BY <1>1, <1>2, <1>3, <1>9, <2>2, <2>3
<1> QED BY <1>6, <1>7, <1>8, <1>9, RingFrame

(* A worker that takes a step is active, so main has not left its loop.    *)
LEMMA MoverActive ==
    ASSUME CreationInv,
           NEW w \in Workers, WorkerStep(w) \/ CheckFails(w) \/ SpuriousWakeup(w)
    PROVE  Active(w) /\ mainPc \notin Ended
<1>1. pc[w] # "absent" /\ pc[w] # "exited"
  BY DEF WorkerStep, ClaimJob, CheckJob, NextPrefix, CountJob, Leave, Retire, PollStop,
      VisitLeaf, FinishPrefix, FetchAndAdd, LoadTotal, Refuse, CompareExchange, Enqueue,
      AwaitRoom, ReachLimit, CheckFails, SpuriousWakeup
<1> QED BY <1>1 DEF CreationInv, ActiveWorkers, Active

LEMMA HitLimitStays ==
    ASSUME TypeOK, TypeOK', NumbersInv, [Next]_vars, HitLimit
    PROVE  HitLimit'
<1>1. Limit' = Limit /\ Limit \in Nat /\ solutionTotal \in Nat /\ solutionTotal' \in Nat
  BY SessionStays, SessionTyped DEF TypeOK
<1>2. solutionTotal' >= solutionTotal
  BY Monotone
<1> QED BY <1>1, <1>2 DEF HitLimit

LEMMA StopStep ==
    ASSUME TypeOK, TypeOK', CreationInv, NumbersInv, StopInv, [Next]_vars
    PROVE  StopInv'
<1>0. /\ HitLimit => HitLimit'
      /\ WorkerCount' = WorkerCount /\ CheckMayFail' = CheckMayFail
      /\ created \in Nat /\ WorkerCount \in Nat
      /\ {stop, stop', interrupted, interrupted', internalError, internalError'} \subseteq BOOLEAN
  <2>1. CheckMayFail' = CheckMayFail /\ WorkerCount' = WorkerCount
    BY SessionStays DEF CheckMayFail, WorkerCount
  <2>2. WorkerCount \in Nat /\ created \in Nat
    BY SessionTyped DEF TypeOK
  <2> QED BY <2>1, <2>2, HitLimitStays DEF TypeOK
<1>1. ASSUME NEW w \in Workers, WorkerStep(w) \/ CheckFails(w) \/ SpuriousWakeup(w)
      PROVE  StopInv'
  <2>1. CASE ClaimJob(w) \/ CheckJob(w)
    BY <2>1, <1>0
    DEF StopInv, Creating, ClaimJob, Goto, workerVars, CheckJob, flags, mainVars
  <2>2. CASE NextPrefix(w) \/ CountJob(w)
    BY <2>2, <1>0
    DEF StopInv, Creating, NextPrefix, Goto, CountJob, flags, workerVars, mainVars
  <2>3. CASE Leave(w) \/ Retire(w)
    BY <2>3, <1>0
    DEF StopInv, Creating, Leave, Goto, Retire, Deactivate, flags, workerVars, mainVars
  <2>4. CASE PollStop(w) \/ VisitLeaf(w)
    BY <2>4, <1>0
    DEF StopInv, Creating, PollStop, Goto, VisitLeaf, flags, workerVars, mainVars
  <2>5. CASE FinishPrefix(w) \/ FetchAndAdd(w)
    BY <2>5, <1>0
    DEF StopInv, Creating, FinishPrefix, Goto, FetchAndAdd, Numbering, flags,
        workerVars, mainVars
  <2>6. CASE LoadTotal(w)
    BY <2>6, <1>0
    DEF StopInv, Creating, LoadTotal, Goto, flags, workerVars, mainVars
  <2>7. CASE Refuse(w)
    <3>1. HitLimit
      <4>1. number[w] <= solutionTotal /\ AtLimit(number[w]) /\ number[w] \in Nat
        BY <2>7 DEF Refuse, NumbersInv, Reserved, TypeOK
      <4>2. solutionTotal \in Nat /\ Limit \in Nat
        BY SessionTyped DEF TypeOK
      <4> QED BY <4>1, <4>2 DEF AtLimit, HitLimit
    <3> QED BY <2>7, <1>0, <3>1 DEF StopInv, Refuse, workerVars, mainVars
  <2>8. CASE CompareExchange(w) \/ Enqueue(w)
    BY <2>8, <1>0
    DEF StopInv, Creating, CompareExchange, Goto, Unchanged, Numbering, Enqueue, flags,
        workerVars, mainVars
  <2>9. CASE AwaitRoom(w)
    BY <2>9, <1>0
    DEF StopInv, Creating, AwaitRoom, Goto, flags, workerVars, mainVars
  <2>10. CASE ReachLimit(w)
    <3>1. AtLimit(number[w]) => HitLimit
      <4>1. [number |-> number[w], encoding |-> Found(w)] \in numbering
        BY <2>10 DEF ReachLimit, NumbersInv, Reserved, NumberedSteps
      <4>2. number[w] <= solutionTotal /\ number[w] \in Nat /\ solutionTotal \in Nat
        BY <4>1 DEF NumbersInv, TypeOK
      <4>3. Limit \in Nat
        BY SessionTyped DEF TypeOK
      <4> QED BY <4>2, <4>3 DEF AtLimit, HitLimit
    <3> QED BY <2>10, <1>0, <3>1 DEF StopInv, ReachLimit, workerVars, mainVars
  <2>11. CASE CheckFails(w)
    BY <2>11, <1>0
    DEF StopInv, Creating, CheckFails, Goto, TypeOK, flags, workerVars, mainVars
  <2>12. CASE SpuriousWakeup(w)
    BY <2>12, <1>0
    DEF StopInv, Creating, SpuriousWakeup, Goto, flags, workerVars, mainVars
  <2> QED BY <1>1, <2>1, <2>2, <2>3, <2>4, <2>5, <2>6, <2>7, <2>8, <2>9, <2>10, <2>11,
      <2>12 DEF WorkerStep
<1>2. CASE MainThread
  <2>1. CASE CreateWorker
    BY <2>1, <1>0
    DEF StopInv, Creating, CreateWorker, Activate, flags, workerVars, mainVars
  <2>2. CASE WorkerCreated
    BY <2>2, <1>0
    DEF StopInv, Creating, WorkerCreated, TypeOK, flags, workerVars, mainVars
  <2>3. CASE CreateFails
    BY <2>3, <1>0
    DEF StopInv, Creating, CreateFails, Deactivate, CreationInv, flags, workerVars,
        mainVars
  <2>4. CASE TestActive \/ PollInterrupt
    BY <2>4, <1>0
    DEF StopInv, Creating, TestActive, PollInterrupt, NoticeInterrupt, flags,
        workerVars, mainVars
  <2>5. CASE Pause \/ DrainOne
    BY <2>5, <1>0
    DEF StopInv, Creating, Pause, DrainOne, SignalNotFull, Waiters, Goto, flags,
        workerVars, mainVars
  <2>6. CASE Drained \/ JoinWorkers
    BY <2>6, <1>0, DrainedStep
    DEF StopInv, Creating, Draining, JoinWorkers, flags, workerVars, mainVars
  <2>7. CASE Assess \/ Report
    BY <2>7, <1>0, ReportStep
    DEF StopInv, Creating, Assess, flags, workerVars, mainVars
  <2> QED BY <1>2, <2>1, <2>2, <2>3, <2>4, <2>5, <2>6, <2>7 DEF MainThread
<1>3. CASE Interrupt \/ UNCHANGED vars
  BY <1>3, <1>0
  DEF StopInv, Creating, Interrupt, vars, flags, workerVars, mainVars
<1> QED BY <1>1, <1>2, <1>3 DEF Next

(* Jobs are taken and returned by ClaimJob, CheckJob and CountJob only.     *)
LEMMA JobFrame ==
    ASSUME TypeOK, CreationInv, [Next]_vars
    PROVE  \/ \E u \in Workers : ClaimJob(u) \/ CheckJob(u) \/ CountJob(u)
           \/ /\ UNCHANGED <<nextJob, jobsDone>>
              /\ \A v \in Workers : /\ pc'[v] \in InJob <=> pc[v] \in InJob
                                    /\ job'[v] = job[v]
<1>1. ASSUME NEW w \in Workers, WorkerStep(w) \/ CheckFails(w) \/ SpuriousWakeup(w)
      PROVE  \/ \E u \in Workers : ClaimJob(u) \/ CheckJob(u) \/ CountJob(u)
             \/ /\ UNCHANGED <<nextJob, jobsDone>>
                /\ \A v \in Workers : /\ pc'[v] \in InJob <=> pc[v] \in InJob
                                      /\ job'[v] = job[v]
  <2>1. CASE ClaimJob(w)
    BY <2>1
  <2>2. CASE CheckJob(w)
    BY <2>2
  <2>3. CASE NextPrefix(w)
    BY <2>3
    DEF TypeOK, InJob, Working, Searching, Recording, NextPrefix, Goto, counters,
        workerVars
  <2>4. CASE CountJob(w)
    BY <2>4
  <2>5. CASE Leave(w)
    BY <2>5
    DEF TypeOK, InJob, Working, Searching, Recording, Leave, Goto, counters, workerVars
  <2>6. CASE Retire(w)
    BY <2>6
    DEF TypeOK, InJob, Working, Searching, Recording, Retire, Goto, Deactivate,
        counters, workerVars
  <2>7. CASE PollStop(w)
    BY <2>7
    DEF TypeOK, InJob, Working, Searching, Recording, PollStop, Goto, counters,
        workerVars
  <2>8. CASE VisitLeaf(w)
    BY <2>8
    DEF TypeOK, InJob, Working, Searching, Recording, VisitLeaf, Goto, counters,
        workerVars
  <2>9. CASE FinishPrefix(w)
    BY <2>9
    DEF TypeOK, InJob, Working, Searching, Recording, FinishPrefix, Goto, counters,
        workerVars
  <2>10. CASE FetchAndAdd(w)
    BY <2>10
    DEF TypeOK, InJob, Working, Searching, Recording, FetchAndAdd, Goto, Numbering,
        counters, workerVars
  <2>11. CASE LoadTotal(w)
    BY <2>11
    DEF TypeOK, InJob, Working, Searching, Recording, LoadTotal, Goto, counters,
        workerVars
  <2>12. CASE Refuse(w)
    BY <2>12
    DEF TypeOK, InJob, Working, Searching, Recording, Refuse, Goto, counters, workerVars
  <2>13. CASE CompareExchange(w)
    BY <2>13
    DEF TypeOK, InJob, Working, Searching, Recording, CompareExchange, Goto, Unchanged,
        Numbering, counters, workerVars
  <2>14. CASE Enqueue(w)
    BY <2>14
    DEF TypeOK, InJob, Working, Searching, Recording, Enqueue, Goto, counters,
        workerVars
  <2>15. CASE AwaitRoom(w)
    BY <2>15
    DEF TypeOK, InJob, Working, Searching, Recording, AwaitRoom, Goto, counters,
        workerVars
  <2>16. CASE ReachLimit(w)
    BY <2>16
    DEF TypeOK, InJob, Working, Searching, Recording, ReachLimit, Goto, counters,
        workerVars
  <2>17. CASE CheckFails(w)
    BY <2>17
    DEF TypeOK, InJob, Working, Searching, Recording, CheckFails, Goto, counters,
        workerVars
  <2>18. CASE SpuriousWakeup(w)
    BY <2>18
    DEF TypeOK, InJob, Working, Searching, Recording, SpuriousWakeup, Goto, counters,
        workerVars
  <2> QED BY <1>1, <2>1, <2>2, <2>3, <2>4, <2>5, <2>6, <2>7, <2>8, <2>9, <2>10, <2>11,
      <2>12, <2>13, <2>14, <2>15, <2>16, <2>17, <2>18 DEF WorkerStep
<1>2. CASE MainThread
  <2>1. CASE CreateWorker
    BY <2>1
    DEF TypeOK, InJob, Working, Searching, Recording, CreateWorker, Activate, counters,
        workerVars
  <2>2. CASE WorkerCreated
    <3>1. UNCHANGED <<nextJob, jobsDone, job>>
      BY <2>2 DEF WorkerCreated, counters, workerVars
    <3>2. \A v \in Workers : pc'[v] = pc[v] \/ (pc[v] = "absent" /\ pc'[v] = "claim")
      BY <1>2, MainKeeps, <2>2 DEF WorkerCreated
    <3> QED BY <3>1, <3>2 DEF InJob, Working, Searching, Recording
  <2>3. CASE CreateFails
    BY <2>3
    DEF TypeOK, InJob, Working, Searching, Recording, CreateFails, Deactivate, counters,
        workerVars
  <2>4. CASE TestActive
    BY <2>4
    DEF TypeOK, InJob, Working, Searching, Recording, TestActive, counters, workerVars
  <2>5. CASE PollInterrupt
    BY <2>5
    DEF TypeOK, InJob, Working, Searching, Recording, PollInterrupt, NoticeInterrupt,
        counters, workerVars
  <2>6. CASE Pause
    BY <2>6
    DEF TypeOK, InJob, Working, Searching, Recording, Pause, counters, workerVars
  <2>7. CASE DrainOne
    BY <2>7
    DEF TypeOK, InJob, Working, Searching, Recording, DrainOne, SignalNotFull, Waiters,
        Goto, counters, workerVars
  <2>8. CASE Drained
    BY <2>8, DrainedStep
    DEF TypeOK, InJob, Working, Searching, Recording, Draining, counters, workerVars
  <2>9. CASE JoinWorkers
    BY <2>9
    DEF TypeOK, InJob, Working, Searching, Recording, JoinWorkers, counters, workerVars
  <2>10. CASE Assess
    BY <2>10
    DEF TypeOK, InJob, Working, Searching, Recording, Assess, counters, workerVars
  <2>11. CASE Report
    BY <2>11, ReportStep
    DEF TypeOK, InJob, Working, Searching, Recording, counters, workerVars
  <2> QED BY <1>2, <2>1, <2>2, <2>3, <2>4, <2>5, <2>6, <2>7, <2>8, <2>9, <2>10, <2>11
      DEF MainThread
<1>3. CASE Interrupt \/ UNCHANGED vars
  BY <1>3
  DEF TypeOK, InJob, Working, Searching, Recording, Interrupt, vars, counters,
      workerVars
<1> QED BY <1>1, <1>2, <1>3 DEF Next

LEMMA DrawnOfMover ==
    ASSUME TypeOK, TypeOK', JobInv, [Next]_vars,
           NEW w \in Workers, WorkerStep(w) \/ CheckFails(w) \/ SpuriousWakeup(w)
    PROVE  Drawn(w)'
<1>0. /\ pc \in [Workers -> WorkerSteps] /\ job \in [Workers -> Nat]
      /\ prefix \in [Workers -> Prefixes] /\ prefix' \in [Workers -> Prefixes]
      /\ Prefixes' = Prefixes /\ JobCount' = JobCount /\ JobCount \in Nat \ {0}
      /\ \A j : JobPrefixes(j)' = JobPrefixes(j)
      /\ \A p \in Prefixes : p \in Nat
      /\ nextJob \in Nat /\ session \in Sessions
      /\ {stop, stop', interrupted, interrupted'} \subseteq BOOLEAN
  <2>1. session \in Sessions
    BY DEF TypeOK
  <2>2. Prefixes' = Prefixes /\ JobCount' = JobCount
    BY SessionStays
  <2>3. \A j : JobPrefixes(j)' = JobPrefixes(j)
    BY <2>2 DEF JobPrefixes
  <2>4. JobCount \in Nat \ {0} /\ \A p \in Prefixes : p \in Nat
    BY <2>1, SessionTyped
  <2> QED BY <2>1, <2>2, <2>3, <2>4 DEF TypeOK
<1>1. CASE ClaimJob(w)
  BY <1>1, <1>0
  DEF JobInv, Drawn, WorkerSteps, InJob, Working, Searching, Recording, Gone, Quiet,
      ClaimJob, Goto, workerVars, counters, flags, mainVars
<1>2. CASE CheckJob(w)
  <2>1. /\ pc' = [pc EXCEPT ![w] = "search"] \/ pc' = [pc EXCEPT ![w] = "leave"]
        /\ job' = job /\ nextJob' = nextJob /\ job[w] < nextJob
        /\ stop' = stop /\ interrupted' = interrupted
    BY <1>2 DEF CheckJob, Goto, counters, flags, workerVars, mainVars, JobInv, Drawn, InJob
  <2>2. CASE pc' = [pc EXCEPT ![w] = "search"]
    <3>1. pc[w] # "search" /\ pc[w] # "leave"
      BY <1>2 DEF CheckJob
    <3>2. job[w] < JobCount /\ prefix' = [prefix EXCEPT ![w] = job[w]]
      BY <1>2, <1>0, <2>2, <3>1 DEF CheckJob, Goto
    <3>3. prefix'[w] = job[w] /\ job[w] % JobCount = job[w]
      BY <1>0, <3>2, SmallRemainder
    <3> QED BY <1>0, <2>1, <2>2, <3>3
            DEF Drawn, JobPrefixes, Gone
  <2>3. CASE pc' = [pc EXCEPT ![w] = "leave"]
    <3>1. job[w] >= JobCount \/ interrupted \/ stop
      BY <1>2, <1>0, <2>3 DEF CheckJob, Goto
    <3> QED BY <1>0, <2>1, <2>3, <3>1
            DEF Drawn, InJob, Working, Searching, Recording, Quiet
  <2> QED BY <2>1, <2>2, <2>3
<1>3. CASE NextPrefix(w)
  <2>1. /\ pc' = [pc EXCEPT ![w] = "search"] \/ pc' = [pc EXCEPT ![w] = "jobDone"]
        /\ job' = job /\ nextJob' = nextJob /\ job[w] < nextJob
        /\ prefix[w] % JobCount = job[w]
    BY <1>3 DEF NextPrefix, Goto, counters, JobInv, Drawn, InJob, Working, JobPrefixes
  <2>2. prefix'[w] = prefix[w] \/ prefix'[w] = prefix[w] + JobCount
    BY <1>3, <1>0, AddWithin DEF NextPrefix
  <2>3. prefix'[w] % JobCount = job[w]
    BY <1>0, <2>1, <2>2, StrideKeepsRemainder
  <2> QED BY <1>0, <2>1, <2>3 DEF Drawn, JobPrefixes, Gone
<1>4. CASE CountJob(w)
  BY <1>4, <1>0
  DEF JobInv, Drawn, WorkerSteps, InJob, Working, Searching, Recording, Gone, Quiet,
      CountJob, Goto, counters, flags, workerVars, mainVars
<1>5. CASE Leave(w)
  BY <1>5, <1>0
  DEF JobInv, Drawn, WorkerSteps, InJob, Working, Searching, Recording, Gone, Quiet,
      Leave, Goto, counters, flags, workerVars, mainVars
<1>6. CASE Retire(w)
  BY <1>6, <1>0
  DEF JobInv, Drawn, WorkerSteps, InJob, Working, Searching, Recording, Gone, Quiet,
      Retire, Goto, Deactivate, counters, flags, workerVars, mainVars
<1>7. CASE PollStop(w)
  BY <1>7, <1>0
  DEF JobInv, Drawn, WorkerSteps, InJob, Working, Searching, Recording, Gone, Quiet,
      PollStop, Goto, counters, flags, workerVars, mainVars
<1>8. CASE VisitLeaf(w)
  BY <1>8, <1>0
  DEF JobInv, Drawn, WorkerSteps, InJob, Working, Searching, Recording, Gone, Quiet,
      VisitLeaf, Goto, counters, flags, workerVars, mainVars
<1>9. CASE FinishPrefix(w)
  BY <1>9, <1>0
  DEF JobInv, Drawn, WorkerSteps, InJob, Working, Searching, Recording, Gone, Quiet,
      FinishPrefix, Goto, counters, flags, workerVars, mainVars
<1>10. CASE FetchAndAdd(w)
  BY <1>10, <1>0
  DEF JobInv, Drawn, WorkerSteps, InJob, Working, Searching, Recording, Gone, Quiet,
      FetchAndAdd, Goto, Numbering, counters, flags, workerVars, mainVars
<1>11. CASE LoadTotal(w)
  BY <1>11, <1>0
  DEF JobInv, Drawn, WorkerSteps, InJob, Working, Searching, Recording, Gone, Quiet,
      LoadTotal, Goto, counters, flags, workerVars, mainVars
<1>12. CASE Refuse(w)
  BY <1>12, <1>0
  DEF JobInv, Drawn, WorkerSteps, InJob, Working, Searching, Recording, Gone, Quiet,
      Refuse, Goto, counters, flags, workerVars, mainVars
<1>13. CASE CompareExchange(w)
  BY <1>13, <1>0
  DEF JobInv, Drawn, WorkerSteps, InJob, Working, Searching, Recording, Gone, Quiet,
      CompareExchange, Goto, Unchanged, Numbering, counters, flags, workerVars, mainVars
<1>14. CASE Enqueue(w)
  BY <1>14, <1>0
  DEF JobInv, Drawn, WorkerSteps, InJob, Working, Searching, Recording, Gone, Quiet,
      Enqueue, Goto, counters, flags, workerVars, mainVars
<1>15. CASE AwaitRoom(w)
  BY <1>15, <1>0
  DEF JobInv, Drawn, WorkerSteps, InJob, Working, Searching, Recording, Gone, Quiet,
      AwaitRoom, Goto, counters, flags, workerVars, mainVars
<1>16. CASE ReachLimit(w)
  BY <1>16, <1>0
  DEF JobInv, Drawn, WorkerSteps, InJob, Working, Searching, Recording, Gone, Quiet,
      ReachLimit, Goto, counters, flags, workerVars, mainVars
<1>17. CASE CheckFails(w)
  BY <1>17, <1>0
  DEF JobInv, Drawn, WorkerSteps, InJob, Working, Searching, Recording, Gone, Quiet,
      CheckFails, Goto, counters, flags, workerVars, mainVars
<1>18. CASE SpuriousWakeup(w)
  BY <1>18, <1>0
  DEF JobInv, Drawn, WorkerSteps, InJob, Working, Searching, Recording, Gone, Quiet,
      SpuriousWakeup, Goto, counters, flags, workerVars, mainVars
<1> QED BY <1>1, <1>2, <1>3, <1>4, <1>5, <1>6, <1>7, <1>8, <1>9, <1>10, <1>11, <1>12,
    <1>13, <1>14, <1>15, <1>16, <1>17, <1>18 DEF WorkerStep

LEMMA JobsFinite ==
    ASSUME session \in Sessions
    PROVE  IsFiniteSet(Jobs) /\ Cardinality(Jobs) = JobCount
<1>1. JobCount \in Nat \ {0}
  BY SessionTyped
<1>2. IsFiniteSet(0 .. JobCount - 1) /\ Cardinality(0 .. JobCount - 1) = JobCount
  BY <1>1, FS_Interval
<1> QED BY <1>2 DEF Jobs

LEMMA ReturnedFinite ==
    ASSUME session \in Sessions
    PROVE  /\ IsFiniteSet(Returned) /\ Cardinality(Returned) \in Nat
           /\ Cardinality(Returned) <= JobCount
<1>1. Returned \subseteq Jobs
  BY DEF Returned
<1> QED BY <1>1, JobsFinite, FS_Subset, FS_CardinalityType

(* A worker in a job searches one of the numbered jobs, and nobody else's. *)
LEMMA JobTyped ==
    ASSUME TypeOK, JobInv, NEW w \in Workers, pc[w] \in Working
    PROVE  job[w] \in Jobs /\ job[w] < nextJob /\ prefix[w] % JobCount = job[w]
<1>1. prefix[w] \in Nat /\ prefix[w] % JobCount = job[w] /\ job[w] < nextJob
  BY SessionTyped DEF JobInv, Drawn, JobPrefixes, InJob, TypeOK
<1>2. JobCount \in Nat \ {0}
  BY SessionTyped DEF TypeOK
<1> QED BY <1>1, <1>2, Division DEF Jobs

LEMMA JobStep ==
    ASSUME TypeOK, TypeOK', CreationInv, JobInv, StopInv, [Next]_vars
    PROVE  JobInv'
<1>1. /\ JobCount' = JobCount /\ JobCount \in Nat \ {0} /\ Jobs' = Jobs
      /\ session \in Sessions /\ session' \in Sessions
      /\ \A j : JobPrefixes(j)' = JobPrefixes(j)
  <2>1. session \in Sessions /\ session' \in Sessions
    BY DEF TypeOK
  <2>2. JobCount' = JobCount /\ Prefixes' = Prefixes
    BY SessionStays
  <2> QED BY <2>1, <2>2, SessionTyped DEF Jobs, JobPrefixes
<1>2. /\ nextJob \in Nat /\ nextJob' \in Nat /\ jobsDone \in Nat
      /\ \A w \in Workers : job[w] \in Nat
      /\ {stop, stop', interrupted, interrupted'} \subseteq BOOLEAN
      /\ (stop => stop') /\ (interrupted => interrupted')
  <2>1. (stop => stop') /\ (interrupted => interrupted')
    BY Monotone
  <2>2. jobsDone \in 0 .. JobCount /\ \A w \in Workers : job[w] \in Nat
    BY DEF TypeOK
  <2> QED BY <1>1, <2>1, <2>2 DEF TypeOK
<1>3. \A w \in Workers : Drawn(w)'
  <2>1. ASSUME NEW w \in Workers, WorkerStep(w) \/ CheckFails(w) \/ SpuriousWakeup(w)
        PROVE  \A v \in Workers : Drawn(v)'
    <3>1. ASSUME NEW v \in Workers \ {w}
          PROVE  Drawn(v)'
      <4>1. Same(v) /\ Drawn(v) /\ nextJob' >= nextJob
        BY <2>1, OthersStay, Monotone DEF JobInv
      <4> QED BY <1>1, <1>2, <4>1 DEF Drawn, Same, Quiet
    <3> QED BY <2>1, <3>1, DrawnOfMover
  <2>2. CASE MainThread \/ Interrupt \/ UNCHANGED vars
    <3>1. UNCHANGED <<counters, workerVars>>
      BY <2>2, MainKeeps
    <3>2. \A v \in Workers : \/ pc'[v] = pc[v]
                             \/ pc[v] = "waiting" /\ pc'[v] = "enqueue"
                             \/ pc'[v] = "claim"
      BY <2>2, MainKeeps
    <3> QED BY <1>1, <1>2, <3>1, <3>2 DEF JobInv, Drawn, InJob, Working, Searching,
                Recording, Gone, Quiet, counters, workerVars
  <2> QED BY <2>1, <2>2 DEF Next
<1>4. IsFiniteSet(Returned) /\ Cardinality(Returned) \in Nat
  BY <1>1, ReturnedFinite
<1>5. ASSUME NEW w \in Workers, ClaimJob(w)
      PROVE  JobInv'
  <2>1. /\ pc' = [pc EXCEPT ![w] = "check"] /\ job' = [job EXCEPT ![w] = nextJob]
        /\ nextJob' = nextJob + 1 /\ pc[w] \notin InJob
        /\ UNCHANGED <<jobsDone, stop, interrupted>>
    BY <1>5 DEF ClaimJob, Goto, InJob, Working, Searching, Recording, flags, mainVars
  <2>2. \A v \in Workers : IF v = w THEN pc'[v] \in InJob /\ job'[v] = nextJob
                                    ELSE pc'[v] = pc[v] /\ job'[v] = job[v]
    BY <2>1 DEF TypeOK, InJob
  <2>3. \A v \in Workers : pc[v] \in InJob => job[v] < nextJob
    BY DEF JobInv, Drawn
  <2>4. \A v, u \in Workers :
            pc'[v] \in InJob /\ pc'[u] \in InJob /\ job'[v] = job'[u] => v = u
    BY <1>2, <2>2, <2>3 DEF JobInv
  <2>5. \A j \in Jobs : Held(j)' <=> Held(j) \/ j = nextJob
    BY <2>1, <2>2 DEF Held
  <2>6. Returned' = Returned
    BY <1>1, <1>2, <2>1, <2>5 DEF Returned, Jobs
  <2> QED BY <1>3, <2>1, <2>4, <2>6 DEF JobInv, Quiet
<1>6. ASSUME NEW w \in Workers, CheckJob(w)
      PROVE  JobInv'
  <2>1. /\ job' = job /\ pc[w] = "check"
        /\ UNCHANGED <<jobsDone, nextJob, stop, interrupted>>
        /\ \A v \in Workers \ {w} : pc'[v] = pc[v]
        /\ pc'[w] = "search" \/ pc'[w] = "leave"
        /\ pc'[w] = "leave" => job[w] >= JobCount \/ interrupted \/ stop
    BY <1>6 DEF CheckJob, Goto, TypeOK, counters, flags, mainVars
  <2>2. pc[w] \in InJob /\ (pc'[w] = "search" => pc'[w] \in InJob)
    BY <2>1 DEF InJob, Working, Searching
  <2>3. \A v, u \in Workers :
            pc'[v] \in InJob /\ pc'[u] \in InJob /\ job'[v] = job'[u] => v = u
    BY <2>1, <2>2 DEF JobInv
  <2>4. CASE pc'[w] = "search" \/ job[w] >= JobCount
    <3>1. \A j \in Jobs : Held(j)' <=> Held(j)
      BY <1>1, <1>2, <2>1, <2>2, <2>4 DEF Held, Jobs
    <3>2. Returned' = Returned
      BY <1>1, <2>1, <3>1 DEF Returned
    <3> QED BY <1>3, <2>1, <2>3, <3>2 DEF JobInv, Quiet
  <2>5. CASE interrupted \/ stop
    <3>1. \A j \in Jobs : Held(j)' => Held(j)
      BY <2>1, <2>2 DEF Held
    <3>2. Returned \subseteq Returned'
      BY <1>1, <2>1, <3>1 DEF Returned
    <3>3. Cardinality(Returned) <= Cardinality(Returned')
      <4>1. IsFiniteSet(Returned')
        <5>1. Returned' \subseteq Jobs
          BY <1>1 DEF Returned
        <5> QED BY <1>1, <5>1, JobsFinite, FS_Subset
      <4> QED BY <3>2, <4>1, FS_Subset
    <3>4. Cardinality(Returned') \in Nat
      <4>1. Returned' \subseteq Jobs
        BY <1>1 DEF Returned
      <4> QED BY <1>1, <4>1, JobsFinite, FS_Subset, FS_CardinalityType
    <3> QED BY <1>2, <1>3, <1>4, <2>1, <2>3, <2>5, <3>3, <3>4 DEF JobInv, Quiet
  <2> QED BY <2>1, <2>4, <2>5
<1>7. ASSUME NEW w \in Workers, CountJob(w)
      PROVE  JobInv'
  <2>1. /\ job' = job /\ pc[w] = "jobDone" /\ pc'[w] = "claim"
        /\ UNCHANGED <<nextJob, stop, interrupted>>
        /\ \A v \in Workers \ {w} : pc'[v] = pc[v]
        /\ jobsDone' = IF ShouldStop(w) THEN jobsDone ELSE jobsDone + 1
    BY <1>7 DEF CountJob, Goto, TypeOK, workerVars, flags, mainVars
  <2>2. pc[w] \in Working /\ pc[w] \in InJob /\ pc'[w] \notin InJob
    BY <2>1 DEF InJob, Working, Searching, Recording
  <2>3. job[w] \in Jobs /\ job[w] < nextJob
    BY <2>2, JobTyped
  <2>4. \A v, u \in Workers :
            pc'[v] \in InJob /\ pc'[u] \in InJob /\ job'[v] = job'[u] => v = u
    BY <2>1, <2>2 DEF JobInv
  <2>5. \A j \in Jobs : Held(j)' <=> Held(j) /\ j # job[w]
    <3>1. \A v \in Workers : pc[v] \in InJob /\ job[v] = job[w] => v = w
      BY <2>2 DEF JobInv
    <3> QED BY <2>1, <2>2, <3>1 DEF Held
  <2>6. Held(job[w])
    BY <2>2 DEF Held
  <2>7. Returned' = Returned \union {job[w]} /\ job[w] \notin Returned
    BY <1>1, <2>1, <2>3, <2>5, <2>6 DEF Returned
  <2>8. Cardinality(Returned') = Cardinality(Returned) + 1
    BY <1>4, <2>7, FS_AddElement
  <2>9. Quiet => ~ShouldStop(w)
    BY DEF Quiet, ShouldStop, StopInv
  <2> QED BY <1>2, <1>3, <1>4, <2>1, <2>4, <2>8, <2>9 DEF JobInv, Quiet
<1>8. ASSUME UNCHANGED <<nextJob, jobsDone>>,
             \A v \in Workers : /\ pc'[v] \in InJob <=> pc[v] \in InJob
                                /\ job'[v] = job[v]
      PROVE  JobInv'
  <2>1. \A j \in Jobs : Held(j)' <=> Held(j)
    BY <1>8 DEF Held, Workers
  <2>2. Returned' = Returned
    BY <1>1, <1>8, <2>1 DEF Returned
  <2>3. \A v, u \in Workers :
            pc'[v] \in InJob /\ pc'[u] \in InJob /\ job'[v] = job'[u] => v = u
    BY <1>8 DEF JobInv
  <2> QED BY <1>2, <1>3, <1>8, <2>2, <2>3 DEF JobInv, Quiet
<1> QED BY <1>5, <1>6, <1>7, <1>8, JobFrame

(* When all workers have gone and nothing has stopped them, every job was  *)
(* taken, returned and counted.                                            *)
LEMMA AllReturned ==
    ASSUME TypeOK, CreationInv, JobInv, ActiveWorkers = {}, created = WorkerCount, Quiet
    PROVE  Returned = Jobs /\ jobsDone = JobCount
<1>1. /\ WorkerCount \in Nat \ {0} /\ WorkerCount <= Threads /\ Threads \in Nat
      /\ JobCount \in Nat /\ session \in Sessions
  BY SessionTyped DEF TypeOK
<1>2. \A w \in Workers : pc[w] \in {"absent", "exited"}
  BY DEF ActiveWorkers, Active
<1>3. 1 \in Workers /\ pc[1] = "exited"
  BY <1>1, <1>2 DEF Workers, CreationInv
<1>4. nextJob >= JobCount
  BY <1>3 DEF JobInv, Drawn, Gone
<1>5. \A j \in Jobs : ~Held(j)
  BY <1>2 DEF Held, InJob, Working, Searching, Recording
<1>6. Returned = Jobs
  BY <1>1, <1>4, <1>5 DEF Returned, Jobs, TypeOK
<1> QED BY <1>1, <1>6, JobsFinite DEF JobInv

(* From the end of the main loop on, what the verdict is made from stays.  *)
LEMMA EndedStays ==
    ASSUME TypeOK, CreationInv, [Next]_vars, mainPc \in Ended
    PROVE  /\ UNCHANGED <<counters, internalError, created, workerVars, history>>
           /\ mainPc' \in Ended
<1>1. \A w \in Workers : ~(WorkerStep(w) \/ CheckFails(w) \/ SpuriousWakeup(w))
  BY MoverActive
<1>2. MainThread \/ Interrupt \/ UNCHANGED vars
  BY <1>1 DEF Next
<1>3. UNCHANGED <<counters, internalError, workerVars, history>>
  BY <1>2, MainKeeps
<1>4. created' = created /\ mainPc' \in Ended
  BY <1>2, DrainedStep, ReportStep
     DEF MainThread, Ended, Draining, CreateWorker, WorkerCreated, CreateFails, TestActive,
         PollInterrupt, Pause, DrainOne, JoinWorkers, Assess, Interrupt, vars, mainVars
<1> QED BY <1>3, <1>4

LEMMA VerdictStep ==
    ASSUME TypeOK, TypeOK', CreationInv, NumbersInv, JobInv, StopInv, VerdictInv, [Next]_vars
    PROVE  VerdictInv'
<1>0. /\ WorkerCount' = WorkerCount /\ Limit' = Limit /\ JobCount' = JobCount
      /\ created \in Nat /\ WorkerCount \in Nat
  BY SessionStays, SessionTyped DEF TypeOK, WorkerCount
<1>1. ASSUME NEW w \in Workers, WorkerStep(w) \/ CheckFails(w) \/ SpuriousWakeup(w)
      PROVE  VerdictInv'
  <2>1. mainPc \notin {"report", "done"} /\ status = "running"
    BY <1>1, MoverActive DEF Ended, VerdictInv
  <2>2. UNCHANGED <<mainPc, created, interrupted, exitStatus, status>>
    BY <1>1, OthersStay
  <2>3. internalError => internalError'
    BY Monotone
  <2> QED BY <1>0, <2>1, <2>2, <2>3 DEF VerdictInv
<1>2. CASE MainThread
  <2>0. internalError' = internalError /\ solutionTotal' = solutionTotal
    BY <1>2, MainKeeps DEF counters
  <2>a. HitLimit' = HitLimit
    BY <1>0, <2>0 DEF HitLimit
  <2>1. CASE CreateWorker \/ TestActive \/ PollInterrupt \/ Pause \/ DrainOne \/ JoinWorkers
    BY <1>0, <2>0, <2>a, <2>1
       DEF VerdictInv, CreateWorker, TestActive, PollInterrupt, Pause, DrainOne, JoinWorkers,
           Draining, mainVars
  <2>2. CASE WorkerCreated
    BY <1>0, <2>0, <2>a, <2>2 DEF VerdictInv, WorkerCreated, CreationInv, Creating, TypeOK
  <2>3. CASE CreateFails
    BY <1>0, <2>0, <2>a, <2>3 DEF VerdictInv, CreateFails, CreationInv, Creating
  <2>4. CASE Drained
    BY <1>0, <2>0, <2>a, <2>4, DrainedStep DEF VerdictInv, Draining, mainVars
  <2>5. CASE Assess
    <3>1. /\ mainPc = "assess" /\ mainPc' = "report"
          /\ UNCHANGED <<created, interrupted, status>>
          /\ exitStatus' =
                 IF internalError \/ (~HitLimit /\ ~interrupted /\ jobsDone # JobCount)
                 THEN "failure" ELSE exitStatus
      BY <2>5 DEF Assess
    <3>2. status = "running" /\ exitStatus # "sigint"
      BY <3>1 DEF VerdictInv
    <3>3. exitStatus' = "failure" => internalError \/ created < WorkerCount
      <4>1. SUFFICES ASSUME ~internalError, created = WorkerCount, ~HitLimit, ~interrupted
                     PROVE  jobsDone = JobCount
        BY <1>0, <3>1 DEF VerdictInv, TypeOK
      <4>2. Quiet
        BY <1>0, <4>1 DEF Quiet, StopInv
      <4>3. ActiveWorkers = {}
        BY <3>1 DEF CreationInv, Ended
      <4> QED BY <4>1, <4>2, <4>3, AllReturned
    <3> QED BY <1>0, <2>0, <3>1, <3>2, <3>3 DEF VerdictInv
  <2>6. CASE Report
    <3>1. /\ mainPc = "report" /\ mainPc' = "done" /\ UNCHANGED <<created, interrupted>>
          /\ exitStatus' \in {exitStatus, "sigint"}
          /\ exitStatus = "failure" => exitStatus' = "failure"
      BY <2>6, ReportStep
    <3>2. status' = IF interrupted THEN "interrupted"
                    ELSE IF exitStatus = "failure" THEN "failed"
                    ELSE IF HitLimit THEN "solutionLimit" ELSE "complete"
      BY <2>6, ReportStep
    <3>3. ~interrupted => exitStatus' = exitStatus
      BY <2>6, ReportStep
    <3> QED BY <1>0, <2>0, <2>a, <3>1, <3>2, <3>3 DEF VerdictInv
  <2> QED BY <1>2, <2>1, <2>2, <2>3, <2>4, <2>5, <2>6 DEF MainThread
<1>3. CASE Interrupt \/ UNCHANGED vars
  <2>1. /\ UNCHANGED <<mainPc, created, exitStatus, status, internalError, solutionTotal>>
        /\ interrupted' = interrupted \/ mainPc # "done"
    BY <1>3 DEF Interrupt, vars, counters, flags, mainVars
  <2> QED BY <1>0, <2>1 DEF VerdictInv, HitLimit
<1> QED BY <1>1, <1>2, <1>3 DEF Next

LEMMA MovesOfMover ==
    ASSUME TypeOK, [Next]_vars,
           NEW w \in Workers, WorkerStep(w) \/ CheckFails(w) \/ SpuriousWakeup(w)
    PROVE  Moves(w)
<1>0. /\ pc \in [Workers -> WorkerSteps] /\ job \in [Workers -> Nat]
      /\ leaf \in [Workers -> Nat] /\ prefix \in [Workers -> Prefixes]
      /\ prefix[w] \in Prefixes /\ session \in Sessions
  BY DEF TypeOK
<1>1. CASE ClaimJob(w)
  BY <1>1, <1>0
  DEF Moves, Proceeds, Begins, Draws, WorkerSteps, Working, Searching, Recording,
      Unnumbered, Quiet, ShouldStop, ClaimJob, Goto, workerVars
<1>2. CASE CheckJob(w)
  <2>1. CASE pc' = [pc EXCEPT ![w] = "leave"]
    BY <1>0, <2>1 DEF Moves, Working, Searching, Recording
  <2>2. CASE /\ pc' = [pc EXCEPT ![w] = "search"] /\ leaf' = [leaf EXCEPT ![w] = 0]
             /\ prefix' = [prefix EXCEPT ![w] = job[w]] /\ ~(job[w] >= JobCount)
    <3>1. job' = job /\ pc[w] = "check"
      BY <1>2 DEF CheckJob
    <3>2. JobCount \in Nat /\ job[w] \in Nat /\ DOMAIN prefix = Workers
      BY <1>0, SessionTyped
    <3>3. job[w] < JobCount
      BY <2>2, <3>2
    <3>4. prefix'[w] = job[w]
      BY <2>2, <3>2
    <3>5. Begins(w)
      BY <1>0, <2>2, <3>1, <3>3, <3>4 DEF Begins
    <3> QED BY <1>0, <2>2, <3>5 DEF Moves
  <2> QED BY <1>2, <2>1, <2>2 DEF CheckJob, Goto
<1>3. CASE NextPrefix(w)
  <2>1. CASE pc' = [pc EXCEPT ![w] = "jobDone"] /\ prefix' = prefix /\ leaf' = leaf
    BY <1>3, <1>0, <2>1 DEF NextPrefix, Moves, Proceeds, Working, Searching, Recording, Unnumbered
  <2>2. CASE /\ pc' = [pc EXCEPT ![w] = "search"] /\ leaf' = [leaf EXCEPT ![w] = 0]
             /\ prefix' = [prefix EXCEPT ![w] = Add(prefix[w], JobCount)]
             /\ ~ShouldStop(w) /\ ~WouldOverflow(prefix[w])
    <3>1. Add(prefix[w], JobCount) = prefix[w] + JobCount
      BY <1>0, <2>2, AddWithin
    <3>2. Quiet /\ job' = job /\ pc[w] = "prefixDone"
      BY <1>3, <2>2 DEF NextPrefix, Quiet, ShouldStop
    <3>3. Begins(w)
      BY <1>0, <2>2, <3>1, <3>2 DEF Begins
    <3> QED BY <1>0, <2>2, <3>3 DEF Moves
  <2> QED BY <1>3, <2>1, <2>2 DEF NextPrefix, Goto
<1>4. CASE CountJob(w)
  BY <1>4, <1>0
  DEF Moves, Proceeds, Begins, Draws, WorkerSteps, Working, Searching, Recording,
      Unnumbered, Quiet, ShouldStop, CountJob, Goto, workerVars
<1>5. CASE Leave(w)
  BY <1>5, <1>0
  DEF Moves, Proceeds, Begins, Draws, WorkerSteps, Working, Searching, Recording,
      Unnumbered, Quiet, ShouldStop, Leave, Goto, workerVars
<1>6. CASE Retire(w)
  BY <1>6, <1>0
  DEF Moves, Proceeds, Begins, Draws, WorkerSteps, Working, Searching, Recording,
      Unnumbered, Quiet, ShouldStop, Retire, Goto, Deactivate, workerVars
<1>7. CASE PollStop(w)
  BY <1>7, <1>0
  DEF Moves, Proceeds, Begins, Draws, WorkerSteps, Working, Searching, Recording,
      Unnumbered, Quiet, ShouldStop, PollStop, Goto, workerVars
<1>8. CASE VisitLeaf(w)
  BY <1>8, <1>0
  DEF Moves, Proceeds, Begins, Draws, WorkerSteps, Working, Searching, Recording,
      Unnumbered, Quiet, ShouldStop, VisitLeaf, Goto, workerVars
<1>9. CASE FinishPrefix(w)
  BY <1>9, <1>0
  DEF Moves, Proceeds, Begins, Draws, WorkerSteps, Working, Searching, Recording,
      Unnumbered, Quiet, ShouldStop, FinishPrefix, Goto, workerVars
<1>10. CASE FetchAndAdd(w)
  BY <1>10, <1>0
  DEF Moves, Proceeds, Begins, Draws, WorkerSteps, Working, Searching, Recording,
      Unnumbered, Quiet, ShouldStop, FetchAndAdd, Goto, Numbering, workerVars
<1>11. CASE LoadTotal(w)
  BY <1>11, <1>0
  DEF Moves, Proceeds, Begins, Draws, WorkerSteps, Working, Searching, Recording,
      Unnumbered, Quiet, ShouldStop, LoadTotal, Goto, workerVars
<1>12. CASE Refuse(w)
  BY <1>12, <1>0
  DEF Moves, Proceeds, Begins, Draws, WorkerSteps, Working, Searching, Recording,
      Unnumbered, Quiet, ShouldStop, Refuse, Goto, workerVars
<1>13. CASE CompareExchange(w)
  BY <1>13, <1>0
  DEF Moves, Proceeds, Begins, Draws, WorkerSteps, Working, Searching, Recording,
      Unnumbered, Quiet, ShouldStop, CompareExchange, Goto, Unchanged, Numbering,
      workerVars
<1>14. CASE Enqueue(w)
  BY <1>14, <1>0
  DEF Moves, Proceeds, Begins, Draws, WorkerSteps, Working, Searching, Recording,
      Unnumbered, Quiet, ShouldStop, Enqueue, Goto, workerVars
<1>15. CASE AwaitRoom(w)
  BY <1>15, <1>0
  DEF Moves, Proceeds, Begins, Draws, WorkerSteps, Working, Searching, Recording,
      Unnumbered, Quiet, ShouldStop, AwaitRoom, Goto, workerVars
<1>16. CASE ReachLimit(w)
  BY <1>16, <1>0
  DEF Moves, Proceeds, Begins, Draws, WorkerSteps, Working, Searching, Recording,
      Unnumbered, Quiet, ShouldStop, ReachLimit, Goto, workerVars
<1>17. CASE CheckFails(w)
  BY <1>17, <1>0
  DEF Moves, Proceeds, Begins, Draws, WorkerSteps, Working, Searching, Recording,
      Unnumbered, Quiet, ShouldStop, CheckFails, Goto, workerVars
<1>18. CASE SpuriousWakeup(w)
  BY <1>18, <1>0
  DEF Moves, Proceeds, Begins, Draws, WorkerSteps, Working, Searching, Recording,
      Unnumbered, Quiet, ShouldStop, SpuriousWakeup, Goto, workerVars
<1> QED BY <1>1, <1>2, <1>3, <1>4, <1>5, <1>6, <1>7, <1>8, <1>9, <1>10, <1>11, <1>12,
    <1>13, <1>14, <1>15, <1>16, <1>17, <1>18 DEF WorkerStep

(* How a worker can come to be where it is after a step.                   *)
LEMMA EachMoves ==
    ASSUME TypeOK, CreationInv, [Next]_vars, NEW v \in Workers
    PROVE  Moves(v)
<1>1. ASSUME NEW w \in Workers, WorkerStep(w) \/ CheckFails(w) \/ SpuriousWakeup(w)
      PROVE  Moves(v)
  <2>1. CASE v = w
    BY <1>1, <2>1, MovesOfMover
  <2>2. CASE v # w
    <3>1. Same(v)
      BY <1>1, <2>2, OthersStay
    <3> QED BY <3>1 DEF Same, Moves, Proceeds
  <2> QED BY <2>1, <2>2
<1>2. CASE MainThread \/ Interrupt \/ UNCHANGED vars
  <2>1. number'[v] = number[v] /\ job'[v] = job[v] /\ prefix'[v] = prefix[v] /\ leaf'[v] = leaf[v]
    BY <1>2, MainKeeps DEF workerVars
  <2>2. \/ pc'[v] = pc[v]
        \/ pc[v] = "waiting" /\ pc'[v] = "enqueue"
        \/ pc'[v] = "claim" /\ pc[v] = "absent"
    BY <1>2, MainKeeps
  <2> QED BY <2>1, <2>2 DEF Moves, Proceeds, Working, Searching, Recording, Unnumbered
<1> QED BY <1>1, <1>2 DEF Next

(* A prefix is searched by FinishPrefix only.                             *)
LEMMA SearchedFrame ==
    ASSUME TypeOK, [Next]_vars
    PROVE  searched' = searched \/ \E u \in Workers : FinishPrefix(u)
<1>1. ASSUME NEW w \in Workers, WorkerStep(w) \/ CheckFails(w) \/ SpuriousWakeup(w)
      PROVE  searched' = searched \/ \E u \in Workers : FinishPrefix(u)
  <2>1. CASE ClaimJob(w) \/ CheckJob(w) \/ NextPrefix(w) \/ CountJob(w) \/ Leave(w) \/
      Retire(w)
    BY <2>1
    DEF history, ClaimJob, Goto, workerVars, CheckJob, NextPrefix, CountJob, Leave,
        Retire, Deactivate
  <2>2. CASE PollStop(w) \/ VisitLeaf(w)
    BY <2>2
    DEF history, PollStop, Goto, VisitLeaf
  <2>3. CASE FinishPrefix(w)
    BY <2>3
  <2>4. CASE FetchAndAdd(w) \/ LoadTotal(w) \/ Refuse(w) \/ CompareExchange(w) \/
      Enqueue(w) \/ AwaitRoom(w)
    BY <2>4
    DEF history, FetchAndAdd, Goto, Numbering, LoadTotal, Refuse, CompareExchange,
        Unchanged, Enqueue, AwaitRoom
  <2>5. CASE ReachLimit(w) \/ CheckFails(w) \/ SpuriousWakeup(w)
    BY <2>5
    DEF history, ReachLimit, Goto, CheckFails, SpuriousWakeup
  <2> QED BY <1>1, <2>1, <2>2, <2>3, <2>4, <2>5 DEF WorkerStep
<1>2. CASE MainThread
  <2>1. CASE CreateWorker \/ WorkerCreated \/ CreateFails \/ TestActive \/ PollInterrupt
      \/ Pause
    BY <2>1
    DEF history, CreateWorker, Activate, WorkerCreated, CreateFails, Deactivate,
        TestActive, PollInterrupt, NoticeInterrupt, Pause
  <2>2. CASE DrainOne \/ Drained \/ JoinWorkers \/ Assess \/ Report
    BY <2>2, DrainedStep, ReportStep
    DEF history, DrainOne, SignalNotFull, Waiters, Goto, Draining, JoinWorkers, Assess
  <2> QED BY <1>2, <2>1, <2>2 DEF MainThread
<1>3. CASE Interrupt \/ UNCHANGED vars
  BY <1>3
  DEF history, Interrupt, vars
<1> QED BY <1>1, <1>2, <1>3 DEF Next

(* Who takes a number numbers what it has found.                           *)
LEMMA NumberedGrows ==
    ASSUME NEW w \in Workers, TakesNumber(w)
    PROVE  Numbered' = Numbered \union {Found(w)}
<1> DEFINE r == [number |-> solutionTotal + 1, encoding |-> Found(w)]
<1>1. numbering' = numbering \union {r} /\ r.encoding = Found(w)
  BY DEF TakesNumber
<1> HIDE DEF r
<1> QED BY <1>1 DEF Numbered

(* What nobody works on is not touched.                                    *)
LEMMA UntouchedStays ==
    ASSUME TypeOK, PlaceInv, [Next]_vars, NEW p \in Prefixes, Untouched(p),
           \A w \in Workers : pc[w] \in Searching => prefix[w] # p
    PROVE  Untouched(p)'
<1>1. Leaves' = Leaves /\ session \in Sessions
  BY SessionStays DEF TypeOK
<1>2. searched'[p] = 0
  <2>1. ASSUME NEW w \in Workers, FinishPrefix(w)
        PROVE  searched'[p] = searched[p]
    BY <2>1 DEF FinishPrefix, TypeOK, Searching
  <2> QED BY <2>1, SearchedFrame DEF Untouched
<1>3. ASSUME NEW i \in 1 .. Len(Leaves[p])
      PROVE  Leaves[p][i] \notin Numbered'
  <2>1. Leaves[p][i] \notin Numbered
    BY DEF Untouched
  <2>2. ASSUME NEW w \in Workers, TakesNumber(w)
        PROVE  Leaves[p][i] \notin Numbered'
    <3>1. Numbered' = Numbered \union {Found(w)}
      BY <2>2, NumberedGrows
    <3>2. pc[w] \in Recording /\ pc[w] \in Searching
      BY <2>2 DEF TakesNumber, Unnumbered, Recording, Searching
    <3>3. prefix[w] \in Prefixes /\ leaf[w] \in 1 .. Len(Leaves[prefix[w]]) /\ prefix[w] # p
      BY <3>2, FoundTyped
    <3>4. Leaves[p][i] # Found(w)
      BY <1>1, <3>3, LeavesDistinct DEF Found
    <3> QED BY <2>1, <3>1, <3>4
  <2>3. CASE UNCHANGED <<solutionTotal, numbering>>
    BY <2>1, <2>3 DEF Numbered
  <2> QED BY <2>2, <2>3, NumberingFrame
<1> QED BY <1>1, <1>2, <1>3 DEF Untouched

(* A prefix of a job is searched by the worker that has the job.           *)
LEMMA OnePerPrefix ==
    ASSUME TypeOK, JobInv, NEW v \in Workers, NEW w \in Workers,
           pc[v] \in InJob, pc[w] \in Searching, prefix[w] \in JobPrefixes(job[v])
    PROVE  v = w
<1>1. pc[w] \in InJob /\ prefix[w] \in JobPrefixes(job[w])
  BY DEF JobInv, Drawn, InJob, Working
<1>2. job[v] = job[w]
  BY <1>1 DEF JobPrefixes
<1> QED BY <1>1, <1>2 DEF JobInv

LEMMA UntouchedInJob ==
    ASSUME TypeOK, PlaceInv, JobInv, [Next]_vars,
           NEW v \in Workers, pc[v] \in InJob, NEW p \in JobPrefixes(job[v]),
           pc[v] \in Searching => prefix[v] # p, Untouched(p)
    PROVE  Untouched(p)'
<1>1. \A w \in Workers : pc[w] \in Searching => prefix[w] # p
  BY OnePerPrefix
<1>2. p \in Prefixes
  BY DEF JobPrefixes
<1> QED BY <1>1, <1>2, UntouchedStays

LEMMA UntouchedUndrawn ==
    ASSUME TypeOK, PlaceInv, JobInv, FreshInv, [Next]_vars,
           NEW p \in Prefixes, p % JobCount >= nextJob
    PROVE  Untouched(p)'
<1>1. \A w \in Workers : pc[w] \in Searching => prefix[w] # p
  <2>1. SUFFICES ASSUME NEW w \in Workers, pc[w] \in Searching, prefix[w] = p
                 PROVE  FALSE
    OBVIOUS
  <2>2. prefix[w] % JobCount = job[w] /\ job[w] < nextJob
    BY <2>1, JobTyped DEF Working
  <2>3. nextJob \in Nat /\ job[w] \in Nat
    BY DEF TypeOK
  <2> QED BY <2>1, <2>2, <2>3
<1> QED BY <1>1, UntouchedStays DEF FreshInv

(* A worker that goes on at its prefix leaves what lies ahead as it was.   *)
LEMMA AheadStays ==
    ASSUME TypeOK, TypeOK', PlaceInv, JobInv, FreshInv, [Next]_vars,
           NEW v \in Workers, Proceeds(v), pc'[v] \in Searching
    PROVE  /\ searched'[prefix[v]] = 0
           /\ \A i \in 1 .. Len(Leaves[prefix[v]]) :
                  Ahead(v, i)' => Leaves[prefix[v]][i] \notin Numbered'
<1>0. /\ pc[v] \in Searching /\ pc[v] \in InJob /\ prefix[v] \in JobPrefixes(job[v])
      /\ prefix[v] \in Prefixes /\ session \in Sessions
  BY DEF Proceeds, InJob, JobInv, Drawn, Working, TypeOK
<1>a. \A w \in Workers : pc[w] \in Searching /\ prefix[w] = prefix[v] => w = v
  BY <1>0, OnePerPrefix
<1>b. Fresh(v)
  BY DEF FreshInv
<1>1. searched'[prefix[v]] = 0
  <2>1. searched[prefix[v]] = 0 /\ searched \in [Prefixes -> Nat]
    BY <1>0, <1>b DEF Fresh, TypeOK
  <2>2. ASSUME NEW w \in Workers, FinishPrefix(w)
        PROVE  searched'[prefix[v]] = 0
    <3>1. pc[w] = "search" /\ pc'[w] = "prefixDone"
      BY <2>2 DEF FinishPrefix, Goto, TypeOK
    <3>2. w # v
      BY <3>1 DEF Searching, Recording
    <3>3. prefix[w] # prefix[v]
      BY <1>a, <3>1, <3>2 DEF Searching
    <3>4. searched' = [searched EXCEPT ![prefix[w]] = @ + 1]
      BY <2>2 DEF FinishPrefix
    <3> QED BY <1>0, <2>1, <3>3, <3>4
  <2> QED BY <2>1, <2>2, SearchedFrame
<1>2. ASSUME NEW i \in 1 .. Len(Leaves[prefix[v]]), Ahead(v, i)'
      PROVE  Leaves[prefix[v]][i] \notin Numbered'
  <2>0. leaf[v] \in Nat /\ leaf'[v] \in Nat /\ i \in Nat
    <3>1. leaf \in [Workers -> Nat] /\ leaf' \in [Workers -> Nat]
      BY DEF TypeOK
    <3> QED BY <3>1
  <2>1. Ahead(v, i)
    BY <1>2, <2>0 DEF Ahead, Proceeds, Unnumbered
  <2>2. Leaves[prefix[v]][i] \notin Numbered
    BY <1>0, <1>b, <2>1 DEF Fresh
  <2>3. ASSUME NEW w \in Workers, TakesNumber(w)
        PROVE  Leaves[prefix[v]][i] # Found(w)
    <3>1. SUFFICES ASSUME Leaves[prefix[v]][i] = Leaves[prefix[w]][leaf[w]]
                   PROVE  FALSE
      BY DEF Found
    <3>2. pc[w] \in Recording /\ pc[w] \in Searching /\ pc'[w] = "enqueue"
      BY <2>3 DEF TakesNumber, Unnumbered, Recording, Searching, TypeOK
    <3>3. prefix[w] \in Prefixes /\ leaf[w] \in 1 .. Len(Leaves[prefix[w]])
      BY <3>2, FoundTyped
    <3>4. prefix[v] = prefix[w] /\ i = leaf[w]
      BY <1>0, <3>1, <3>3, LeavesDistinct
    <3>5. w = v
      BY <1>a, <3>2, <3>4
    <3> QED BY <1>2, <2>0, <3>2, <3>4, <3>5 DEF Ahead, Proceeds, Unnumbered
  <2>4. \A w \in Workers : TakesNumber(w) => Numbered' = Numbered \union {Found(w)}
    BY NumberedGrows
  <2>5. CASE UNCHANGED <<solutionTotal, numbering>>
    BY <2>2, <2>5 DEF Numbered
  <2> QED BY <2>2, <2>3, <2>4, <2>5, NumberingFrame
<1> QED BY <1>1, <1>2

LEMMA FreshOfEach ==
    ASSUME TypeOK, TypeOK', CreationInv, PlaceInv, JobInv, JobInv', FreshInv, [Next]_vars,
           NEW v \in Workers
    PROVE  Fresh(v)'
<1>0. /\ JobCount' = JobCount /\ Leaves' = Leaves /\ Prefixes' = Prefixes
      /\ JobCount \in Nat \ {0}
      /\ Moves(v) /\ Fresh(v) /\ prefix[v] \in Nat /\ job[v] \in Nat /\ nextJob \in Nat
  <2>1. /\ JobCount' = JobCount /\ Leaves' = Leaves /\ Prefixes' = Prefixes
    BY SessionStays
  <2>2. JobCount \in Nat \ {0} /\ prefix[v] \in Nat
    BY SessionTyped DEF TypeOK
  <2> QED BY <2>1, <2>2, EachMoves DEF FreshInv, TypeOK
<1>b. \A j : JobPrefixes(j)' = JobPrefixes(j)
  BY <1>0 DEF JobPrefixes
<1>1. ASSUME pc'[v] = "check", NEW p \in JobPrefixes(job'[v])
      PROVE  Untouched(p)'
  <2>1. CASE Draws(v)
    <3>1. p \in Prefixes /\ p % JobCount >= nextJob
      BY <1>0, <1>1, <2>1 DEF Draws, JobPrefixes
    <3> QED BY <3>1, UntouchedUndrawn
  <2>2. CASE pc[v] = "check" /\ job'[v] = job[v]
    <3>1. pc[v] \in InJob /\ pc[v] \notin Searching /\ p \in JobPrefixes(job[v])
      BY <1>1, <2>2 DEF InJob, Searching, Recording
    <3>2. Untouched(p)
      BY <2>2, <3>1, <1>0 DEF Fresh
    <3> QED BY <3>1, <3>2, UntouchedInJob
  <2> QED BY <1>0, <1>1, <2>1, <2>2 DEF Moves
<1>2. ASSUME pc'[v] \in Working, Proceeds(v), NEW p \in JobPrefixes(job'[v]), p > prefix'[v]
      PROVE  Untouched(p)'
  <2>1. /\ pc[v] \in Working /\ pc[v] \in InJob /\ p \in JobPrefixes(job[v])
        /\ p > prefix[v] /\ p # prefix[v]
    BY <1>0, <1>2 DEF Proceeds, InJob, JobPrefixes
  <2>2. Untouched(p)
    BY <1>0, <2>1 DEF Fresh
  <2> QED BY <2>1, <2>2, UntouchedInJob
<1>3. ASSUME Begins(v), NEW p \in JobPrefixes(job'[v]), p >= prefix'[v]
      PROVE  Untouched(p)'
  <2>1. /\ pc[v] \in InJob /\ pc[v] \notin Searching /\ p \in JobPrefixes(job[v])
    BY <1>3 DEF Begins, InJob, Working, Searching, Recording
  <2>2. CASE pc[v] = "check"
    BY <1>0, <2>1, <2>2, UntouchedInJob DEF Fresh
  <2>3. CASE pc[v] = "prefixDone" /\ prefix'[v] = prefix[v] + JobCount
    <3>1. p \in Nat
      BY <2>1, SessionTyped DEF JobPrefixes, TypeOK
    <3>2. p > prefix[v] /\ pc[v] \in Working
      BY <1>0, <1>3, <2>3, <3>1 DEF Working
    <3> QED BY <1>0, <2>1, <3>2, UntouchedInJob DEF Fresh
  <2> QED BY <1>3, <2>2, <2>3 DEF Begins
<1>4. ASSUME pc'[v] \in Working, NEW p \in JobPrefixes(job'[v]), p > prefix'[v]
      PROVE  Untouched(p)'
  <2>1. p >= prefix'[v]
    <3>1. p \in Nat /\ prefix'[v] \in Nat
      BY <1>0, <1>4, SessionTyped DEF JobPrefixes, TypeOK
    <3> QED BY <1>4, <3>1
  <2> QED BY <1>0, <1>2, <1>3, <1>4, <2>1 DEF Moves
<1>5. ASSUME pc'[v] \in Searching
      PROVE  /\ searched'[prefix'[v]] = 0
             /\ \A i \in 1 .. Len(Leaves[prefix'[v]]) :
                    Ahead(v, i)' => Leaves[prefix'[v]][i] \notin Numbered'
  <2>1. CASE Proceeds(v)
    <3>1. prefix'[v] = prefix[v]
      BY <2>1 DEF Proceeds
    <3> QED BY <1>5, <2>1, <3>1, AheadStays
  <2>2. CASE Begins(v)
    <3>1. prefix'[v] \in JobPrefixes(job'[v])
      BY <1>b, <1>5 DEF JobInv, Drawn, Working
    <3>2. prefix'[v] \in Nat
      BY <1>0, SessionTyped DEF TypeOK
    <3>3. PICK q \in JobPrefixes(job'[v]) : q = prefix'[v]
      BY <3>1
    <3>4. q >= prefix'[v]
      BY <3>2, <3>3
    <3>5. Untouched(q)'
      BY <2>2, <3>4, <1>3
    <3> QED BY <1>0, <3>3, <3>5 DEF Untouched
  <2> QED BY <1>0, <1>5, <2>1, <2>2 DEF Moves, Working
<1> QED BY <1>0, <1>b, <1>1, <1>4, <1>5 DEF Fresh

LEMMA FreshStep ==
    ASSUME TypeOK, TypeOK', CreationInv, PlaceInv, JobInv, JobInv', FreshInv, [Next]_vars
    PROVE  FreshInv'
<1>1. ASSUME NEW p \in Prefixes, p % JobCount >= nextJob'
      PROVE  Untouched(p)'
  <2>1. p \in Nat /\ JobCount \in Nat \ {0} /\ nextJob \in Nat /\ nextJob' \in Nat
    BY SessionTyped DEF TypeOK
  <2>2. p % JobCount \in Nat
    BY <2>1, Division
  <2>3. nextJob' >= nextJob
    BY Monotone
  <2>4. p % JobCount >= nextJob
    BY <1>1, <2>1, <2>2, <2>3
  <2> QED BY <2>4, UntouchedUndrawn
<1>2. JobCount' = JobCount /\ Prefixes' = Prefixes
  BY SessionStays
<1> QED BY <1>1, <1>2, FreshOfEach DEF FreshInv

(* How a worker that searches gets past a configuration or ends a prefix.  *)
LEMMA SearchOfMover ==
    ASSUME TypeOK, NumbersInv, StopInv, [Next]_vars,
           NEW w \in Workers, WorkerStep(w) \/ CheckFails(w) \/ SpuriousWakeup(w)
    PROVE  /\ pc[w] \in Unnumbered /\ pc'[w] \notin Unnumbered => TakesNumber(w) \/ HitLimit
           /\ pc'[w] = "prefixDone" => pc[w] = "prefixDone" \/ FinishPrefix(w) \/ ~Quiet'
           /\ pc'[w] = "jobDone" =>
                  pc[w] = "jobDone" \/ NextPrefix(w)
<1>0. /\ pc \in [Workers -> WorkerSteps] /\ number[w] \in Nat /\ solutionTotal \in Nat
      /\ session \in Sessions /\ (failed[w] => stop)
  BY DEF TypeOK, StopInv
<1>1. CASE ClaimJob(w)
  BY <1>1, <1>0
  DEF Unnumbered, Quiet, ShouldStop, ClaimJob, Goto, workerVars, flags, mainVars
<1>2. CASE CheckJob(w)
  BY <1>2, <1>0
  DEF Unnumbered, Quiet, ShouldStop, CheckJob, Goto, workerVars, flags, mainVars
<1>3. CASE NextPrefix(w)
  BY <1>3, <1>0
  DEF Unnumbered, Quiet, ShouldStop, NextPrefix, Goto, flags, mainVars
<1>4. CASE CountJob(w)
  BY <1>4, <1>0
  DEF Unnumbered, Quiet, ShouldStop, CountJob, Goto, flags, mainVars
<1>5. CASE Leave(w)
  BY <1>5, <1>0
  DEF Unnumbered, Quiet, ShouldStop, Leave, Goto, flags, mainVars
<1>6. CASE Retire(w)
  BY <1>6, <1>0
  DEF Unnumbered, Quiet, ShouldStop, Retire, Goto, Deactivate, flags, mainVars
<1>7. CASE PollStop(w)
  BY <1>7, <1>0
  DEF Unnumbered, Quiet, ShouldStop, PollStop, Goto, flags, mainVars
<1>8. CASE VisitLeaf(w)
  BY <1>8, <1>0
  DEF Unnumbered, Quiet, ShouldStop, VisitLeaf, Goto, flags, mainVars
<1>9. CASE FinishPrefix(w)
  BY <1>9, <1>0
  DEF Unnumbered, Quiet, ShouldStop, FinishPrefix, Goto, flags, mainVars
<1>10. CASE FetchAndAdd(w)
  <2>1. TakesNumber(w)
    <3>1. ~AtLimit(solutionTotal)
      BY <1>10 DEF FetchAndAdd, AtLimit
    <3> QED BY <1>10, <3>1 DEF FetchAndAdd, TakesNumber, Unnumbered, Goto, Numbering
  <2> QED BY <1>0, <1>10, <2>1 DEF FetchAndAdd, Goto
<1>11. CASE LoadTotal(w)
  BY <1>11, <1>0
  DEF Unnumbered, Quiet, ShouldStop, LoadTotal, Goto, flags, mainVars
<1>12. CASE Refuse(w)
  <2>1. AtLimit(number[w]) /\ pc[w] = "exchange"
    BY <1>12 DEF Refuse
  <2>2. number[w] <= solutionTotal
    BY <2>1 DEF NumbersInv, Reserved
  <2>3. HitLimit
    BY <1>0, <2>1, <2>2, SessionTyped DEF AtLimit, HitLimit
  <2> QED BY <1>0, <1>12, <2>3 DEF Refuse, Goto
<1>13. CASE CompareExchange(w)
  <2>1. CASE Goto(w, "load")
    BY <1>13, <1>0, <2>1 DEF Goto, Unnumbered
  <2>2. CASE /\ Unchanged(w) /\ solutionTotal' = number[w] + 1
             /\ number' = [number EXCEPT ![w] = @ + 1]
             /\ Numbering(w, number[w] + 1) /\ Goto(w, "enqueue")
    <3>1. TakesNumber(w)
      BY <1>13, <2>2 DEF CompareExchange, TakesNumber, Unchanged, Unnumbered, Goto, Numbering
    <3> QED BY <1>0, <2>2, <3>1 DEF Goto
  <2> QED BY <1>13, <2>1, <2>2 DEF CompareExchange
<1>14. CASE Enqueue(w)
  BY <1>14, <1>0
  DEF Unnumbered, Quiet, ShouldStop, Enqueue, Goto, flags, mainVars
<1>15. CASE AwaitRoom(w)
  BY <1>15, <1>0
  DEF Unnumbered, Quiet, ShouldStop, AwaitRoom, Goto, flags, mainVars
<1>16. CASE ReachLimit(w)
  BY <1>16, <1>0
  DEF Unnumbered, Quiet, ShouldStop, ReachLimit, Goto, flags, mainVars
<1>17. CASE CheckFails(w)
  BY <1>17, <1>0
  DEF Unnumbered, Quiet, ShouldStop, CheckFails, Goto, flags, mainVars
<1>18. CASE SpuriousWakeup(w)
  BY <1>18, <1>0
  DEF Unnumbered, Quiet, ShouldStop, SpuriousWakeup, Goto, flags, mainVars
<1> QED BY <1>1, <1>2, <1>3, <1>4, <1>5, <1>6, <1>7, <1>8, <1>9, <1>10, <1>11, <1>12,
    <1>13, <1>14, <1>15, <1>16, <1>17, <1>18 DEF WorkerStep

LEMMA EachSearches ==
    ASSUME TypeOK, CreationInv, NumbersInv, StopInv, [Next]_vars, NEW v \in Workers
    PROVE  /\ pc[v] \in Unnumbered /\ pc'[v] \notin Unnumbered => TakesNumber(v) \/ HitLimit
           /\ pc'[v] = "prefixDone" => pc[v] = "prefixDone" \/ FinishPrefix(v) \/ ~Quiet'
           /\ pc'[v] = "jobDone" => pc[v] = "jobDone" \/ NextPrefix(v)
<1>1. ASSUME NEW w \in Workers, WorkerStep(w) \/ CheckFails(w) \/ SpuriousWakeup(w)
      PROVE  v = w \/ pc'[v] = pc[v]
  BY <1>1, OthersStay DEF Same
<1>2. CASE MainThread \/ Interrupt \/ UNCHANGED vars
  <2>1. \/ pc'[v] = pc[v]
        \/ pc[v] = "waiting" /\ pc'[v] = "enqueue"
        \/ pc'[v] = "claim" /\ pc[v] = "absent"
    BY <1>2, MainKeeps
  <2> QED BY <2>1 DEF Unnumbered
<1>3. ASSUME WorkerStep(v) \/ CheckFails(v) \/ SpuriousWakeup(v)
      PROVE  /\ pc[v] \in Unnumbered /\ pc'[v] \notin Unnumbered => TakesNumber(v) \/ HitLimit
             /\ pc'[v] = "prefixDone" => pc[v] = "prefixDone" \/ FinishPrefix(v) \/ ~Quiet'
             /\ pc'[v] = "jobDone" => pc[v] = "jobDone" \/ NextPrefix(v)
  BY <1>3, SearchOfMover
<1> QED BY <1>1, <1>2, <1>3 DEF Next

(* A worker that goes out of its job with nothing asking it to has ended   *)
(* its job and counts it.                                                  *)
LEMMA JobLeft ==
    ASSUME TypeOK, CreationInv, JobInv, [Next]_vars, Quiet,
           NEW w \in Workers, pc[w] \in InJob, job[w] \in Jobs,
           ~(pc'[w] \in InJob /\ job'[w] = job[w])
    PROVE  pc[w] = "jobDone"
<1>0. pc \in [Workers -> WorkerSteps] /\ JobCount \in Nat /\ job[w] \in Nat
  BY SessionTyped DEF TypeOK
<1>1. PICK u \in Workers : ClaimJob(u) \/ CheckJob(u) \/ CountJob(u)
  BY JobFrame
<1>2. u = w
  <2>1. CASE u # w
    <3>1. Same(w)
      BY <1>1, <2>1, OthersStay DEF WorkerStep
    <3> QED BY <3>1 DEF Same
  <2> QED BY <2>1
<1>3. ~ClaimJob(w)
  BY DEF ClaimJob, InJob, Working, Searching, Recording
<1>4. ~CheckJob(w)
  <2>1. SUFFICES ASSUME CheckJob(w)
                 PROVE  FALSE
    OBVIOUS
  <2>2. ~(job[w] >= JobCount) /\ ~interrupted /\ ~stop
    BY <1>0 DEF Jobs, Quiet
  <2>3. Goto(w, "search") /\ job' = job
    BY <2>1, <2>2 DEF CheckJob
  <2> QED BY <1>0, <2>3 DEF Goto, InJob, Working, Searching
<1> QED BY <1>1, <1>2, <1>3, <1>4 DEF CountJob

(* A prefix is searched once, and what is covered stays covered.           *)
LEMMA SearchedStays ==
    ASSUME TypeOK, FreshInv, [Next]_vars
    PROVE  /\ \A w \in Workers : FinishPrefix(w) => searched'[prefix[w]] = 1
           /\ \A p \in Prefixes : searched[p] = 1 => searched'[p] = 1
           /\ \A p \in Prefixes :
                  searched'[p] # 0 =>
                      \/ searched[p] # 0
                      \/ \E w \in Workers : FinishPrefix(w) /\ prefix[w] = p
<1>0. searched \in [Prefixes -> Nat] /\ \A w \in Workers : prefix[w] \in Prefixes
  BY DEF TypeOK
<1>1. ASSUME NEW w \in Workers, FinishPrefix(w)
      PROVE  /\ searched[prefix[w]] = 0
             /\ searched' = [searched EXCEPT ![prefix[w]] = 1]
  <2>1. searched[prefix[w]] = 0
    BY <1>1 DEF FreshInv, Fresh, FinishPrefix, Searching
  <2>2. searched' = [searched EXCEPT ![prefix[w]] = @ + 1]
    BY <1>1 DEF FinishPrefix
  <2> QED BY <1>0, <2>1, <2>2
<1> QED BY <1>0, <1>1, SearchedFrame

LEMMA CoveredStays ==
    ASSUME TypeOK, TypeOK', NumbersInv, [Next]_vars, NEW e, Covered(e)
    PROVE  Covered(e)'
<1>1. HitLimit => HitLimit'
  BY HitLimitStays
<1>2. Numbered \subseteq Numbered'
  BY Monotone DEF Numbered
<1> QED BY <1>1, <1>2 DEF Covered

(* A job that ends by itself has no further prefix.                        *)
LEMMA NothingLeft ==
    ASSUME session \in Sessions, NEW p \in Prefixes, NEW q \in Prefixes,
           WouldOverflow(p) \/ ~InRange(Add(p, JobCount)), q % JobCount = p % JobCount
    PROVE  q <= p
<1>1. /\ PrefixCount \in Nat /\ MaxWord \in Nat /\ JobCount \in Nat \ {0}
      /\ PrefixCount <= MaxWord /\ JobCount <= PrefixCount
      /\ p \in 0 .. PrefixCount - 1 /\ q \in 0 .. PrefixCount - 1
  BY SessionTyped
<1>2. p \in Nat /\ q \in Nat /\ q < PrefixCount
  BY <1>1
<1>3. p + JobCount >= PrefixCount
  <2>1. CASE WouldOverflow(p)
    <3>1. p > MaxWord - JobCount
      BY <2>1 DEF WouldOverflow
    <3> QED BY <1>1, <1>2, <3>1
  <2>2. CASE ~WouldOverflow(p) /\ ~InRange(Add(p, JobCount))
    <3>1. Add(p, JobCount) = p + JobCount
      BY <2>2, AddWithin
    <3>2. ~(p + JobCount < PrefixCount)
      BY <2>2, <3>1 DEF InRange
    <3> QED BY <1>1, <1>2, <3>2
  <2> QED BY <2>1, <2>2
<1>4. ~(p < q)
  <2>1. p < q => p + JobCount <= q
    BY <1>1, <1>2, StrideApart
  <2> QED BY <1>1, <1>2, <1>3, <2>1
<1> QED BY <1>2, <1>4

LEMMA SearchedIsCovered ==
    ASSUME TypeOK, TypeOK', PlaceInv, NumbersInv, FreshInv, ProgressInv, [Next]_vars,
           NEW p \in Prefixes, searched'[p] # 0, NEW i \in 1 .. Len(Leaves[p])
    PROVE  Covered(Leaves[p][i])'
<1>1. Covered(Leaves[p][i])
  <2>1. CASE searched[p] # 0
    BY <2>1 DEF ProgressInv
  <2>2. ASSUME NEW w \in Workers, FinishPrefix(w), prefix[w] = p
        PROVE  Covered(Leaves[p][i])
    <3>1. pc[w] = "search" /\ leaf[w] = Len(Leaves[p])
      BY <2>2 DEF FinishPrefix
    <3>2. Ahead(w, i) \/ Covered(Leaves[p][i])
      BY <2>2, <3>1 DEF ProgressInv, Progress, Searching
    <3>3. ~Ahead(w, i)
      <4>1. leaf[w] \in Nat /\ i \in 1 .. leaf[w]
        BY <3>1 DEF TypeOK
      <4> QED BY <3>1, <4>1 DEF Ahead, Unnumbered
    <3> QED BY <3>2, <3>3
  <2> QED BY <2>1, <2>2, SearchedStays
<1>2. Leaves' = Leaves
  BY SessionStays
<1> QED BY <1>1, <1>2, CoveredStays

(* Behind a worker that goes on at its prefix or begins one every leaf is  *)
(* covered; *)
LEMMA BehindIsCovered ==
    ASSUME TypeOK, TypeOK', CreationInv, PlaceInv, NumbersInv, StopInv, ProgressInv,
           [Next]_vars, NEW v \in Workers, pc'[v] \in Searching,
           NEW i \in 1 .. leaf'[v]
    PROVE  (Ahead(v, i) \/ Covered(Leaves[prefix[v]][i]))'
<1>0. /\ leaf[v] \in Nat /\ leaf'[v] \in Nat /\ i \in Nat /\ i >= 1 /\ i <= leaf'[v]
      /\ Leaves' = Leaves
  <2>1. leaf[v] \in Nat /\ leaf'[v] \in Nat
    BY DEF TypeOK
  <2> QED BY <2>1, SessionStays
<1>1. CASE Begins(v)
  BY <1>0, <1>1 DEF Begins
<1>2. CASE Proceeds(v)
  <2>1. pc[v] \in Searching /\ prefix'[v] = prefix[v]
    BY <1>2 DEF Proceeds
  <2>2. ASSUME Covered(Leaves[prefix[v]][i])
        PROVE  Covered(Leaves[prefix[v]][i])'
    <3>1. PICK e : e = Leaves[prefix[v]][i]
      OBVIOUS
    <3>2. Covered(e)'
      BY <2>2, <3>1, CoveredStays
    <3> QED BY <1>0, <2>1, <3>1, <3>2 DEF Covered
  <2>3. CASE pc[v] = "search" /\ pc'[v] = "load" /\ leaf'[v] = leaf[v] + 1
    <3>1. CASE i = leaf'[v]
      BY <2>3, <3>1 DEF Ahead, Unnumbered
    <3>2. CASE i <= leaf[v]
      <4>1. i \in 1 .. leaf[v] /\ ~Ahead(v, i)
        BY <1>0, <2>3, <3>2 DEF Ahead, Unnumbered
      <4> QED BY <2>1, <2>2, <4>1 DEF ProgressInv, Progress
    <3> QED BY <1>0, <2>3, <3>1, <3>2
  <2>4. CASE leaf'[v] = leaf[v]
    <3>1. Ahead(v, i) \/ Covered(Leaves[prefix[v]][i])
      BY <1>0, <2>1, <2>4 DEF ProgressInv, Progress
    <3>2. CASE Ahead(v, i)
      <4>1. pc[v] \in Unnumbered /\ i = leaf[v]
        BY <1>0, <2>4, <3>2 DEF Ahead
      <4>2. CASE pc'[v] \in Unnumbered
        BY <2>4, <4>1, <4>2 DEF Ahead
      <4>3. CASE TakesNumber(v)
        <5>1. Found(v) \in Numbered'
          BY <4>3, NumberedGrows
        <5>2. Leaves[prefix'[v]][i] = Found(v)
          BY <2>1, <4>1 DEF Found
        <5>3. Leaves'[prefix'[v]][i] \in Numbered'
          BY <1>0, <5>1, <5>2
        <5> QED BY <5>3 DEF Covered
      <4>4. CASE HitLimit
        BY <4>4, HitLimitStays DEF Covered
      <4>5. pc'[v] \in Unnumbered \/ TakesNumber(v) \/ HitLimit
        BY <4>1, EachSearches
      <4> QED BY <4>2, <4>3, <4>4, <4>5
    <3> QED BY <2>2, <3>1, <3>2
  <2> QED BY <1>2, <2>3, <2>4 DEF Proceeds
<1> QED BY <1>1, <1>2, EachMoves DEF Moves, Working

(* and every earlier prefix of the job is searched.                        *)
LEMMA EarlierIsSearched ==
    ASSUME TypeOK, TypeOK', CreationInv, JobInv, FreshInv, ProgressInv,
           [Next]_vars, NEW v \in Workers, pc'[v] \in Working,
           NEW p \in JobPrefixes(job'[v]), p < prefix'[v]
    PROVE  searched'[p] = 1
<1>0. /\ p \in Prefixes /\ p \in Nat /\ p % JobCount = job'[v] /\ JobCount \in Nat \ {0}
      /\ prefix[v] \in Nat /\ job[v] \in Nat
  BY SessionTyped DEF JobPrefixes, TypeOK
<1>1. CASE Proceeds(v)
  <2>1. pc[v] \in Working /\ p \in JobPrefixes(job[v]) /\ p < prefix[v]
    BY <1>0, <1>1 DEF Proceeds, JobPrefixes
  <2> QED BY <1>0, <2>1, SearchedStays DEF ProgressInv, Progress
<1>2. CASE Begins(v) /\ pc[v] = "check"
  <2>1. job[v] < JobCount /\ p < job[v] /\ p % JobCount = job[v]
    BY <1>0, <1>2 DEF Begins
  <2>2. p % JobCount = p
    BY <1>0, <2>1, SmallRemainder
  <2> QED BY <1>0, <2>1, <2>2
<1>3. CASE Begins(v) /\ pc[v] = "prefixDone"
  <2>1. /\ pc[v] \in Working /\ p \in JobPrefixes(job[v]) /\ p < prefix[v] + JobCount
        /\ Quiet /\ p % JobCount = job[v]
    BY <1>0, <1>3 DEF Begins, JobPrefixes, Working
  <2>2. CASE p < prefix[v]
    BY <1>0, <2>1, <2>2, SearchedStays DEF ProgressInv, Progress
  <2>3. CASE p = prefix[v]
    BY <1>0, <1>3, <2>1, <2>3, SearchedStays DEF ProgressInv, Progress
  <2>4. CASE prefix[v] < p
    <3>1. prefix[v] % JobCount = job[v]
      BY <2>1, JobTyped
    <3>2. prefix[v] + JobCount <= p
      BY <1>0, <2>1, <2>4, <3>1, StrideApart
    <3> QED BY <1>0, <2>1, <3>2
  <2> QED BY <1>0, <2>2, <2>3, <2>4
<1> QED BY <1>1, <1>2, <1>3, EachMoves DEF Moves, Begins

LEMMA ProgressOfEach ==
    ASSUME TypeOK, TypeOK', CreationInv, PlaceInv, NumbersInv, JobInv, JobInv', FreshInv,
           StopInv, ProgressInv, [Next]_vars, NEW v \in Workers
    PROVE  Progress(v)'
<1>0. /\ Prefixes' = Prefixes /\ JobCount' = JobCount /\ Leaves' = Leaves
      /\ session \in Sessions /\ (Quiet' => Quiet) /\ \A j : JobPrefixes(j)' = JobPrefixes(j)
  <2>1. /\ Prefixes' = Prefixes /\ JobCount' = JobCount /\ Leaves' = Leaves
        /\ session \in Sessions
    BY SessionStays DEF TypeOK
  <2>2. Quiet' => Quiet
    BY Monotone DEF Quiet, TypeOK
  <2> QED BY <2>1, <2>2 DEF JobPrefixes
<1>1. ASSUME pc'[v] = "prefixDone"
      PROVE  ~Quiet' \/ searched'[prefix'[v]] = 1
  <2>1. Proceeds(v) /\ prefix'[v] = prefix[v] /\ prefix[v] \in Prefixes
    BY <1>1, EachMoves DEF Moves, Begins, Proceeds, Working, TypeOK
  <2>2. CASE pc[v] = "prefixDone"
    BY <1>0, <2>1, <2>2, SearchedStays DEF ProgressInv, Progress
  <2>3. CASE FinishPrefix(v)
    BY <2>1, <2>3, SearchedStays
  <2> QED BY <1>1, <2>2, <2>3, EachSearches
<1>2. ASSUME pc'[v] = "jobDone", Quiet', NEW p \in JobPrefixes(job'[v])
      PROVE  searched'[p] = 1
  <2>0. Quiet /\ p \in Prefixes
    BY <1>0, <1>2 DEF JobPrefixes
  <2>1. Proceeds(v) /\ job'[v] = job[v] /\ prefix[v] \in Prefixes /\ p \in JobPrefixes(job[v])
    BY <1>2, EachMoves DEF Moves, Begins, Proceeds, Working, TypeOK
  <2>2. CASE pc[v] = "jobDone"
    BY <2>0, <2>1, <2>2, SearchedStays DEF ProgressInv, Progress
  <2>3. CASE NextPrefix(v)
    <3>1. /\ pc[v] = "prefixDone" /\ pc[v] \in Working
          /\ (ShouldStop(v) \/ WouldOverflow(prefix[v]) \/ ~InRange(Add(prefix[v], JobCount)))
      BY <1>2, <2>3 DEF NextPrefix, Goto, TypeOK, Working
    <3>2. ~ShouldStop(v)
      BY <2>0 DEF Quiet, ShouldStop, StopInv
    <3>3. p % JobCount = prefix[v] % JobCount
      BY <2>1, <3>1, JobTyped DEF JobPrefixes
    <3>4. p <= prefix[v]
      BY <1>0, <2>0, <2>1, <3>1, <3>2, <3>3, NothingLeft
    <3>5. p < prefix[v] \/ p = prefix[v]
      BY <1>0, <2>0, <2>1, <3>4, SessionTyped
    <3>6. searched[p] = 1
      BY <2>0, <2>1, <3>1, <3>5 DEF ProgressInv, Progress
    <3> QED BY <2>0, <3>6, SearchedStays
  <2> QED BY <1>2, <2>2, <2>3, EachSearches
<1>3. pc'[v] \in Working =>
          \A p \in JobPrefixes(job'[v]) : p < prefix'[v] => searched'[p] = 1
  BY EarlierIsSearched
<1>4. pc'[v] \in Searching =>
          \A i \in 1 .. leaf'[v] : (Ahead(v, i) \/ Covered(Leaves[prefix[v]][i]))'
  BY BehindIsCovered
<1> QED BY <1>0, <1>1, <1>2, <1>3, <1>4 DEF Progress

(* A job is given back when it is searched, unless the workers are to stop.*)
LEMMA ReturnedIsSearched ==
    ASSUME TypeOK, TypeOK', CreationInv, JobInv, FreshInv, ProgressInv, [Next]_vars,
           Quiet', NEW j \in Returned', NEW p \in JobPrefixes(j)
    PROVE  searched'[p] = 1
<1>0. /\ Quiet /\ p \in Prefixes /\ j \in Jobs /\ j < nextJob' /\ ~Held(j)'
      /\ j \in Nat /\ nextJob \in Nat /\ nextJob' \in Nat
  <2>1. Quiet
    BY Monotone DEF Quiet, TypeOK
  <2>2. p \in Prefixes /\ j \in Jobs' /\ j < nextJob' /\ ~Held(j)'
    BY DEF Returned, JobPrefixes
  <2>3. Jobs' = Jobs
    BY SessionStays DEF Jobs
  <2>4. j \in Nat
    BY <2>2, <2>3, SessionTyped DEF Jobs, TypeOK
  <2> QED BY <2>1, <2>2, <2>3, <2>4 DEF TypeOK
<1>1. CASE j \in Returned
  BY <1>0, <1>1, SearchedStays DEF ProgressInv
<1>2. CASE Held(j)
  <2>1. PICK w \in Workers : pc[w] \in InJob /\ job[w] = j
    BY <1>2 DEF Held
  <2>2. ~(pc'[w] \in InJob /\ job'[w] = job[w])
    BY <1>0, <2>1 DEF Held
  <2>3. pc[w] = "jobDone"
    BY <1>0, <2>1, <2>2, JobLeft
  <2>4. searched[p] = 1
    BY <1>0, <2>1, <2>3 DEF ProgressInv, Progress
  <2> QED BY <1>0, <2>4, SearchedStays
<1>3. CASE j >= nextJob
  <2>1. PICK w \in Workers : ClaimJob(w) \/ CheckJob(w) \/ CountJob(w)
    BY <1>0, <1>3, JobFrame
  <2>2. ClaimJob(w)
    BY <1>0, <1>3, <2>1 DEF CheckJob, CountJob, counters
  <2>3. /\ pc' = [pc EXCEPT ![w] = "check"] /\ job' = [job EXCEPT ![w] = nextJob]
        /\ nextJob' = nextJob + 1
    BY <2>2 DEF ClaimJob, Goto
  <2>4. pc'[w] = "check" /\ job'[w] = nextJob
    BY <2>3 DEF TypeOK
  <2>5. j = nextJob
    BY <1>0, <1>3, <2>3
  <2> QED BY <1>0, <2>4, <2>5 DEF Held, InJob
<1> QED BY <1>0, <1>1, <1>2, <1>3 DEF Returned

LEMMA ProgressStep ==
    ASSUME TypeOK, TypeOK', CreationInv, PlaceInv, NumbersInv, JobInv, JobInv', FreshInv,
           StopInv, ProgressInv, [Next]_vars
    PROVE  ProgressInv'
<1>1. Prefixes' = Prefixes /\ JobCount' = JobCount /\ Leaves' = Leaves
  BY SessionStays
<1>2. \A j : JobPrefixes(j)' = JobPrefixes(j)
  BY <1>1 DEF JobPrefixes
<1>3. \A p \in Prefixes :
          searched'[p] # 0 => \A i \in 1 .. Len(Leaves[p]) : Covered(Leaves[p][i])'
  BY SearchedIsCovered
<1>4. (\A p \in Prefixes :
           searched[p] # 0 => \A i \in 1 .. Len(Leaves[p]) : Covered(Leaves[p][i]))'
  BY <1>1, <1>3 DEF Covered
<1>5. \A w \in Workers : Progress(w)'
  BY ProgressOfEach
<1>6. (Quiet => \A j \in Returned : \A p \in JobPrefixes(j) : searched[p] = 1)'
  BY <1>2, ReturnedIsSearched
<1> QED BY <1>4, <1>5, <1>6 DEF ProgressInv

(* The two counts stay within their bounds.                                *)
LEMMA JobsDoneWithin ==
    ASSUME TypeOK, CreationInv, JobInv, [Next]_vars
    PROVE  jobsDone' \in 0 .. JobCount
<1>0. /\ jobsDone \in 0 .. JobCount /\ JobCount \in Nat /\ session \in Sessions
      /\ jobsDone <= Cardinality(Returned)
  BY SessionTyped DEF TypeOK, JobInv
<1>1. ASSUME NEW w \in Workers, CountJob(w)
      PROVE  jobsDone' \in 0 .. JobCount
  <2>1. pc[w] = "jobDone" /\ jobsDone' \in {jobsDone, jobsDone + 1}
    BY <1>1 DEF CountJob
  <2>2. job[w] \in Jobs /\ job[w] \notin Returned
    BY <2>1, JobTyped DEF Working, Returned, Held, InJob
  <2>3. Returned \subseteq Jobs \ {job[w]}
    BY <2>2 DEF Returned
  <2>4. /\ IsFiniteSet(Jobs \ {job[w]})
        /\ Cardinality(Jobs \ {job[w]}) = JobCount - 1
    BY <1>0, <2>2, JobsFinite, FS_RemoveElement
  <2>5. Cardinality(Returned) \in Nat /\ Cardinality(Returned) <= JobCount - 1
    BY <1>0, <2>3, <2>4, FS_Subset, ReturnedFinite
  <2> QED BY <1>0, <2>1, <2>5
<1>2. ASSUME NEW w \in Workers, ClaimJob(w) \/ CheckJob(w)
      PROVE  jobsDone' = jobsDone
  BY <1>2 DEF ClaimJob, CheckJob, counters
<1>3. CASE UNCHANGED <<nextJob, jobsDone>>
  BY <1>0, <1>3
<1> QED BY <1>0, <1>1, <1>2, <1>3, JobFrame

LEMMA CreatedWithin ==
    ASSUME TypeOK, CreationInv, [Next]_vars
    PROVE  created' \in 0 .. WorkerCount
<1>0. created \in 0 .. WorkerCount /\ WorkerCount \in Nat
  BY SessionTyped DEF TypeOK
<1>1. CASE WorkerCreated
  BY <1>0, <1>1 DEF WorkerCreated, CreationInv, Creating
<1>2. CASE MainThread /\ ~WorkerCreated
  <2>1. created' = created
    BY <1>2, DrainedStep, ReportStep
       DEF MainThread, CreateWorker, CreateFails, TestActive, PollInterrupt, Pause, DrainOne,
           JoinWorkers, Assess, mainVars
  <2> QED BY <1>0, <2>1
<1>3. CASE Interrupt \/ UNCHANGED vars
  BY <1>0, <1>3 DEF Interrupt, vars, mainVars
<1>4. ASSUME NEW w \in Workers, WorkerStep(w) \/ CheckFails(w) \/ SpuriousWakeup(w)
      PROVE  created' \in 0 .. WorkerCount
  BY <1>0, <1>4, OthersStay
<1> QED BY <1>1, <1>2, <1>3, <1>4 DEF Next

LEMMA ActiveWithin ==
    ASSUME ActiveInv, CreationInv, created \in 0 .. WorkerCount, session \in Sessions
    PROVE  activeWorkers \in 0 .. WorkerCount
<1>1. ActiveWorkers \subseteq 1 .. created
  BY SessionTyped DEF ActiveWorkers, Active, CreationInv, Workers
<1>2. created \in Nat /\ WorkerCount \in Nat
  BY SessionTyped
<1>3. Cardinality(ActiveWorkers) \in Nat /\ Cardinality(ActiveWorkers) <= created
  BY <1>1, <1>2, BoundedSubset
<1>4. mainPc = "created" => created < WorkerCount
  BY DEF CreationInv, Creating
<1> QED BY <1>2, <1>3, <1>4 DEF ActiveInv

-----------------------------------------------------------------------------
LEMMA IInvInit == Init => IInv
<1> SUFFICES ASSUME Init
             PROVE  IInv
  OBVIOUS
<1>0. /\ session \in Sessions /\ JobCount \in Nat \ {0} /\ WorkerCount \in Nat \ {0}
      /\ Capacity \in Nat \ {0} /\ PrefixCount \in Nat \ {0} /\ Threads \in Nat
      /\ Prefixes = 0 .. PrefixCount - 1 /\ PrintLimit \in Nat
  BY SessionTyped DEF Init
<1>1. TypeOK
  <2>1. <<>> \in Seq(Announcement) /\ Len(<<>>) = 0
    OBVIOUS
  <2>2. queue \in Seq(Announcement) /\ printed \in Seq(Announcement) /\ Len(queue) <= Capacity
    BY <1>0, <2>1 DEF Init
  <2>3. /\ pc \in [Workers -> WorkerSteps] /\ job \in [Workers -> Nat]
        /\ leaf \in [Workers -> Nat] /\ number \in [Workers -> Nat]
        /\ failed \in [Workers -> BOOLEAN]
    BY DEF Init, WorkerSteps
  <2>4. prefix \in [Workers -> Prefixes]
    BY <1>0 DEF Init
  <2>5. searched \in [Prefixes -> Nat]
    BY DEF Init
  <2>6. /\ nextJob \in Nat /\ jobsDone \in 0 .. JobCount /\ solutionTotal \in Nat
        /\ activeWorkers \in 0 .. WorkerCount /\ created \in 0 .. WorkerCount
    BY <1>0 DEF Init
  <2> QED BY <1>0, <2>2, <2>3, <2>4, <2>5, <2>6 DEF Init, TypeOK, MainSteps
<1>2. \A w \in Workers : pc[w] = "absent"
  BY DEF Init
<1>3. NoStrandedWaiter
  BY <1>2 DEF NoStrandedWaiter, Waiters
<1>4. ActiveWorkers = {}
  BY <1>2 DEF ActiveWorkers, Active
<1>5. CreationInv
  BY <1>0, <1>2 DEF Init, CreationInv, Creating, Ended, Workers
<1>6. ActiveInv
  BY <1>4, FS_EmptySet DEF Init, ActiveInv
<1>7. PlaceInv
  BY <1>2 DEF PlaceInv, Place, Searching, Recording
<1>8. NumbersInv
  BY <1>0, <1>2, SessionTyped DEF Init, NumbersInv, Reserved, Numbered, NumberedSteps
<1>9. LineInv
  <2>1. Len(Line) = 0
    BY DEF Init, Line
  <2>2. 1 .. Smaller(solutionTotal, PrintLimit) = {} /\ 1 .. Len(Line) = {}
    BY <1>0, <2>1 DEF Init, Smaller
  <2>3. mainPc \notin {"assess", "report", "done"}
    BY DEF Init
  <2> QED BY <1>2, <2>2, <2>3 DEF LineInv, NumberedSteps, Handing
<1>10. JobInv
  <2>1. Returned = {}
    BY <1>0 DEF Init, Returned, Jobs
  <2> QED BY <1>0, <1>2, <2>1, FS_EmptySet
          DEF Init, JobInv, Drawn, InJob, Working, Searching, Recording, Gone
<1>11. FreshInv
  <2>1. \A p \in Prefixes : Untouched(p)
    BY DEF Init, Untouched, Numbered
  <2> QED BY <1>2, <2>1 DEF FreshInv, Fresh, Working, Searching, Recording
<1>12. ProgressInv
  <2>1. Returned = {}
    BY <1>0 DEF Init, Returned, Jobs
  <2>2. \A p \in Prefixes : searched[p] = 0
    BY DEF Init
  <2> QED BY <1>2, <2>1, <2>2 DEF ProgressInv, Progress, Working, Searching, Recording
<1>13. StopInv
  BY DEF Init, StopInv
<1>14. VerdictInv
  BY DEF Init, VerdictInv
<1> QED BY <1>1, <1>3, <1>5, <1>6, <1>7, <1>8, <1>9, <1>10, <1>11, <1>12, <1>13, <1>14
        DEF IInv, RingInvariant

LEMMA ActiveWithinNext ==
    (ActiveInv /\ CreationInv /\ created \in 0 .. WorkerCount /\ session \in Sessions
        => activeWorkers \in 0 .. WorkerCount)'
<1>1. ActiveInv /\ CreationInv /\ created \in 0 .. WorkerCount /\ session \in Sessions
        => activeWorkers \in 0 .. WorkerCount
  BY ActiveWithin
<1> QED BY <1>1, PTL

LEMMA IInvStep == IInv /\ [Next]_vars => IInv'
<1> SUFFICES ASSUME IInv, [Next]_vars
             PROVE  IInv'
  OBVIOUS
<1>0. /\ TypeOK /\ NoStrandedWaiter /\ CreationInv /\ ActiveInv /\ PlaceInv /\ NumbersInv
      /\ LineInv /\ JobInv /\ FreshInv /\ ProgressInv /\ StopInv /\ VerdictInv
  BY DEF IInv, RingInvariant
<1>1. CreationInv' /\ ActiveInv'
  BY <1>0, CreationStep, ActiveStep
<1>2. activeWorkers' \in 0 .. WorkerCount
  <2>1. session' = session /\ session \in Sessions
    BY <1>0, SessionStays DEF TypeOK
  <2>2. WorkerCount' = WorkerCount
    BY <2>1 DEF WorkerCount, JobCount, PrefixCount
  <2>3. created' \in 0 .. WorkerCount
    BY <1>0, CreatedWithin
  <2> QED BY <1>1, <2>1, <2>2, <2>3, ActiveWithinNext
<1>3. jobsDone' \in 0 .. JobCount
  BY <1>0, JobsDoneWithin
<1>4. TypeOK'
  BY <1>0, <1>2, <1>3, TypeStep
<1>5. PlaceInv'
  <2>1. prefix' \in [Workers -> Prefixes]
    BY <1>4, SessionStays DEF TypeOK
  <2> QED BY <1>0, <2>1, PlaceStep
<1>6. NumbersInv'
  BY <1>0, <1>4, NumbersStep
<1>7. LineInv'
  BY <1>0, <1>4, <1>6, LineStep
<1>8. NoStrandedWaiter'
  BY <1>0, <1>1, <1>4, RingStep
<1>9. JobInv'
  BY <1>0, <1>4, JobStep
<1>10. FreshInv'
  BY <1>0, <1>4, <1>9, FreshStep
<1>11. ProgressInv'
  BY <1>0, <1>4, <1>9, ProgressStep
<1>12. StopInv' /\ VerdictInv'
  BY <1>0, <1>4, StopStep, VerdictStep
<1> QED BY <1>1, <1>4, <1>5, <1>6, <1>7, <1>8, <1>9, <1>10, <1>11, <1>12
        DEF IInv, RingInvariant

-----------------------------------------------------------------------------
(* The inductive invariant holds in every reachable state.                 *)
THEOREM Invariance == Spec => []IInv
  BY IInvInit, IInvStep, PTL DEF Spec

(* The ring never holds more than its capacity, and no worker waits for    *)
(* room that nobody will announce.                                         *)
THEOREM WaitersSafe == Spec => []RingInvariant
<1>1. IInv => RingInvariant
  BY DEF IInv
<1> QED BY <1>1, Invariance, PTL

LEMMA PrintedOfLine ==
    ASSUME TypeOK
    PROVE  /\ Len(Line) = Len(printed) + Len(queue)
           /\ \A i \in 1 .. Len(printed) : i \in 1 .. Len(Line) /\ Line[i] = printed[i]
           /\ queue = <<>> => Line = printed
<1>1. /\ printed \in Seq(Announcement) /\ queue \in Seq(Announcement)
      /\ Len(printed) \in Nat /\ Len(queue) \in Nat
  BY DEF TypeOK
<1> QED BY <1>1 DEF Line

LEMMA PrintedFromInvariant == IInv => PrintedExactlyOnce
<1> SUFFICES ASSUME IInv
             PROVE  PrintedExactlyOnce
  OBVIOUS
<1>0. TypeOK /\ CreationInv /\ NumbersInv /\ LineInv
  BY DEF IInv, RingInvariant
<1>1. \A i, j \in 1 .. Len(printed) : printed[i].number = printed[j].number => i = j
  BY <1>0, PrintedOfLine DEF LineInv
<1>2. \A i \in 1 .. Len(printed) : printed[i] \in numbering /\ printed[i].number <= PrintLimit
  BY <1>0, PrintedOfLine DEF LineInv
<1>3. Items(printed) \subseteq numbering
  BY <1>2 DEF Items
<1>4. ASSUME mainPc = "done"
      PROVE  {r.number : r \in Items(printed)} = 1 .. Smaller(solutionTotal, PrintLimit)
  <2>1. queue = <<>> /\ Line = printed
    BY <1>0, <1>4, PrintedOfLine DEF LineInv
  <2>2. \A n : ~InHand(n)
    BY <1>0, <1>4 DEF CreationInv, Ended, ActiveWorkers, Active, InHand, Handing
  <2>3. ASSUME NEW n \in 1 .. Smaller(solutionTotal, PrintLimit)
        PROVE  n \in {r.number : r \in Items(printed)}
    <3>1. PICK i \in 1 .. Len(printed) : printed[i].number = n
      BY <1>0, <2>1, <2>2 DEF LineInv, OnLine
    <3>2. printed[i] \in Items(printed)
      BY DEF Items
    <3> QED BY <3>1, <3>2
  <2>4. ASSUME NEW r \in Items(printed)
        PROVE  r.number \in 1 .. Smaller(solutionTotal, PrintLimit)
    <3>1. r \in numbering /\ r.number <= PrintLimit
      BY <1>2 DEF Items
    <3>2. r.number \in Nat \ {0} /\ r.number <= solutionTotal
      BY <1>0, <3>1 DEF TypeOK, Announcement, NumbersInv
    <3>3. solutionTotal \in Nat /\ PrintLimit \in Nat
      BY <1>0, SessionTyped DEF TypeOK
    <3> QED BY <3>1, <3>2, <3>3 DEF Smaller
  <2> QED BY <2>3, <2>4
<1> QED BY <1>1, <1>3, <1>4 DEF PrintedExactlyOnce

(* The configurations numbered up to --print-limit are printed, once each, *)
(* through a ring of any size.                                             *)
THEOREM PrintedSafe == Spec => []PrintedExactlyOnce
  BY PrintedFromInvariant, Invariance, PTL

LEMMA CompleteFromInvariant ==
    ASSUME IInv, status = "complete"
    PROVE  /\ Numbered = AllLeaves /\ \A p \in Prefixes : searched[p] = 1
           /\ created = WorkerCount /\ ~internalError
<1>0. /\ TypeOK /\ CreationInv /\ NumbersInv /\ JobInv /\ ProgressInv /\ StopInv /\ VerdictInv
      /\ session \in Sessions
  BY DEF IInv, RingInvariant, TypeOK
<1>1. mainPc = "done" /\ exitStatus # "failure" /\ ~interrupted /\ ~HitLimit
  BY <1>0 DEF VerdictInv
<1>2. ActiveWorkers = {} /\ ~internalError
  BY <1>0, <1>1 DEF CreationInv, Ended, VerdictInv
<1>3. created = WorkerCount
  <2>1. ~(created < WorkerCount)
    BY <1>0, <1>1 DEF CreationInv, Creating
  <2> QED BY <1>0, <2>1, SessionTyped DEF TypeOK
<1>4. Quiet
  <2>1. ~(created < WorkerCount)
    BY <1>3, <1>0, SessionTyped
  <2> QED BY <1>0, <1>1, <1>2, <2>1 DEF StopInv, Quiet
<1>5. Returned = Jobs
  BY <1>0, <1>2, <1>3, <1>4, AllReturned
<1>6. ASSUME NEW p \in Prefixes
      PROVE  searched[p] = 1
  <2>1. p \in Nat /\ JobCount \in Nat \ {0}
    BY <1>0, SessionTyped
  <2>2. p % JobCount \in Jobs
    BY <2>1, Division DEF Jobs
  <2>3. p \in JobPrefixes(p % JobCount)
    BY DEF JobPrefixes
  <2> QED BY <1>0, <1>4, <1>5, <2>2, <2>3 DEF ProgressInv
<1>7. AllLeaves \subseteq Numbered
  <2>1. SUFFICES ASSUME NEW p \in Prefixes, NEW i \in 1 .. Len(Leaves[p])
                 PROVE  Leaves[p][i] \in Numbered
    BY DEF AllLeaves, Items
  <2>2. searched[p] # 0
    BY <1>6
  <2>3. Covered(Leaves[p][i])
    BY <1>0, <2>2 DEF ProgressInv
  <2> QED BY <1>1, <2>3 DEF Covered
<1> QED BY <1>0, <1>2, <1>3, <1>6, <1>7 DEF NumbersInv

LEMMA StatusFromInvariant == IInv => StatusIsHonest
<1> SUFFICES ASSUME IInv
             PROVE  StatusIsHonest
  OBVIOUS
<1>1. TypeOK /\ NumbersInv /\ VerdictInv /\ session \in Sessions
  BY DEF IInv, RingInvariant, TypeOK
<1>2. status = "failed" => internalError \/ created < WorkerCount
  BY <1>1 DEF VerdictInv
<1>3. ASSUME status = "solutionLimit"
      PROVE  solutionTotal = Limit
  <2>1. Limit # 0 /\ solutionTotal >= Limit /\ solutionTotal <= Limit
    BY <1>1, <1>3 DEF VerdictInv, HitLimit, NumbersInv
  <2> QED BY <1>1, <2>1, SessionTyped DEF TypeOK
<1> QED BY <1>2, <1>3, CompleteFromInvariant DEF StatusIsHonest

LEMMA StatusFromInvariantNext == IInv' => StatusIsHonest'
<1>1. IInv => StatusIsHonest
  BY StatusFromInvariant
<1> QED BY <1>1, PTL

(* What main reports is true of the search: "complete" of every prefix and *)
(* every configuration, whatever the workers did in between.               *)
THEOREM StatusSafe == Spec => []StatusIsHonest
  BY StatusFromInvariant, Invariance, PTL

-----------------------------------------------------------------------------
(* The driver implements a session.                                        *)

LEMMA SessionInit == Init => Session!Init
<1> SUFFICES ASSUME Init
             PROVE  Session!Init
  OBVIOUS
<1>1. Numbered = {}
  BY DEF Init, Numbered
<1> QED BY <1>1 DEF Init, Session!Init

LEMMA LimitReached ==
    ASSUME session \in Sessions, solutionTotal \in Nat
    PROVE  /\ Session!AtLimit <=> AtLimit(solutionTotal)
           /\ Session!AtLimit <=> HitLimit
  BY DEF Session!AtLimit, AtLimit, HitLimit

LEMMA FindImplements ==
    ASSUME IInv, [Next]_vars, NEW w \in Workers, TakesNumber(w)
    PROVE  Found(w) \in AllLeaves /\ Session!Find(Found(w))
<1>0. /\ TypeOK /\ CreationInv /\ PlaceInv /\ FreshInv /\ VerdictInv
      /\ session \in Sessions /\ solutionTotal \in Nat
  BY DEF IInv, RingInvariant, TypeOK
<1>1. pc[w] \in Unnumbered /\ pc[w] \in Recording /\ pc[w] \in Searching /\ Active(w)
  BY DEF TakesNumber, Unnumbered, Recording, Searching, Active
<1>2. /\ prefix[w] \in Prefixes /\ leaf[w] \in 1 .. Len(Leaves[prefix[w]])
      /\ Found(w) \in AllLeaves
  BY <1>0, <1>1, FoundTyped
<1>3. Found(w) \notin Numbered
  BY <1>0, <1>1, <1>2 DEF FreshInv, Fresh, Ahead, Found
<1>4. mainPc # "done"
  BY <1>0, <1>1 DEF CreationInv, Ended, ActiveWorkers
<1>5. status = "running"
  BY <1>0, <1>4 DEF VerdictInv
<1>6. /\ ~AtLimit(solutionTotal) /\ solutionTotal' = solutionTotal + 1
      /\ session' = session /\ interrupted' = interrupted /\ status' = status
  BY DEF TakesNumber, mainVars
<1>7. Numbered' = Numbered \union {Found(w)}
  BY NumberedGrows
<1>8. AllLeaves' = AllLeaves /\ Limit' = Limit
  BY <1>6 DEF AllLeaves, Limit, Prefixes, PrefixCount, Leaves
<1> QED BY <1>0, <1>2, <1>3, <1>5, <1>6, <1>7, <1>8, LimitReached DEF Session!Find

LEMMA ReportImplements ==
    ASSUME IInv, IInv', [Next]_vars, Report
    PROVE  Session!Conclude
<1>0. /\ TypeOK /\ CreationInv /\ StopInv /\ VerdictInv
      /\ session \in Sessions /\ solutionTotal \in Nat
  BY DEF IInv, RingInvariant, TypeOK
<1>1. /\ mainPc = "report" /\ status = "running" /\ created \in Nat /\ WorkerCount \in Nat
  BY <1>0, ReportStep, SessionTyped DEF VerdictInv, TypeOK
<1>2. UNCHANGED <<session, solutionTotal, numbering, interrupted>>
  BY ReportStep DEF counters, history
<1>3. /\ AllLeaves' = AllLeaves /\ Limit' = Limit /\ Numbered' = Numbered
  BY <1>2 DEF AllLeaves, Limit, Prefixes, PrefixCount, Leaves, Numbered
<1>4. CASE interrupted
  <2>1. status' = "interrupted"
    BY <1>4, ReportStep
  <2> QED BY <1>1, <1>2, <1>3, <1>4, <2>1 DEF Session!Conclude
<1>5. CASE ~interrupted /\ exitStatus = "failure"
  <2>1. status' = "failed"
    BY <1>5, ReportStep
  <2>2. CreateMayFail \/ \E s \in Sessions : s.checkMayFail
    BY <1>0, <1>1, <1>5 DEF VerdictInv, StopInv, CreationInv, Creating, CheckMayFail
  <2> QED BY <1>1, <1>2, <1>3, <1>5, <2>1, <2>2 DEF Session!Conclude
<1>6. CASE ~interrupted /\ exitStatus # "failure" /\ HitLimit
  <2>1. status' = "solutionLimit"
    BY <1>6, ReportStep
  <2> QED BY <1>0, <1>1, <1>2, <1>3, <1>6, <2>1, LimitReached DEF Session!Conclude
<1>7. CASE ~interrupted /\ exitStatus # "failure" /\ ~HitLimit
  <2>1. status' = "complete"
    BY <1>7, ReportStep
  <2>2. (status = "complete" => Numbered = AllLeaves)'
    <3>1. StatusIsHonest'
      BY StatusFromInvariantNext
    <3> QED BY <3>1 DEF StatusIsHonest
  <2>3. Numbered = AllLeaves
    BY <1>3, <2>1, <2>2
  <2> QED BY <1>0, <1>1, <1>2, <1>3, <1>7, <2>1, <2>3, LimitReached DEF Session!Conclude
<1> QED BY <1>4, <1>5, <1>6, <1>7

(* Only the report changes the verdict, only Ctrl-C interrupts.            *)
LEMMA VerdictFrame ==
    ASSUME TypeOK, [Next]_vars
    PROVE  \/ Report \/ Interrupt
           \/ UNCHANGED <<interrupted, status>>
<1>1. ASSUME NEW w \in Workers, WorkerStep(w) \/ CheckFails(w) \/ SpuriousWakeup(w)
      PROVE  UNCHANGED <<interrupted, status>>
  BY <1>1, OthersStay
<1>2. CASE MainThread /\ ~Report
  BY <1>2, DrainedStep
     DEF MainThread, CreateWorker, WorkerCreated, CreateFails, TestActive, PollInterrupt,
         Pause, DrainOne, JoinWorkers, Assess, mainVars
<1>3. CASE UNCHANGED vars
  BY <1>3 DEF vars, mainVars
<1> QED BY <1>1, <1>2, <1>3 DEF Next

LEMMA SessionStep == IInv /\ IInv' /\ [Next]_vars => [Session!Next]_(Session!vars)
<1> SUFFICES ASSUME IInv, IInv', [Next]_vars
             PROVE  [Session!Next]_(Session!vars)
  OBVIOUS
<1>0. TypeOK /\ session' = session
  BY SessionStays DEF IInv, RingInvariant
<1>1. AllLeaves' = AllLeaves /\ Limit' = Limit
  BY <1>0 DEF AllLeaves, Limit, Prefixes, PrefixCount, Leaves
<1>2. ASSUME NEW w \in Workers, TakesNumber(w)
      PROVE  Session!Next
  BY <1>2, FindImplements DEF Session!Next
<1>3. CASE Report
  BY <1>3, ReportImplements DEF Session!Next
<1>4. CASE Interrupt
  <2>1. /\ ~interrupted /\ interrupted' = TRUE
        /\ UNCHANGED <<solutionTotal, numbering, status>>
    BY <1>4 DEF Interrupt, counters, history
  <2>2. Numbered' = Numbered
    BY <2>1 DEF Numbered
  <2> QED BY <1>1, <2>1, <2>2 DEF Session!Next, Session!Interrupt
<1>5. CASE UNCHANGED <<solutionTotal, numbering>> /\ UNCHANGED <<interrupted, status>>
  <2>1. Numbered' = Numbered
    BY <1>5 DEF Numbered
  <2> QED BY <1>1, <1>5, <2>1 DEF Session!vars
<1> QED BY <1>0, <1>2, <1>3, <1>4, <1>5, NumberingFrame, VerdictFrame

(* weave_search keeps what a session promises: each configuration is found *)
(* once, never more than the limit, and the verdict has its reason.        *)
THEOREM SessionImplemented == Spec => SessionSpec
<1>1. Init => Session!Init
  BY SessionInit
<1>2. IInv /\ IInv' /\ [Next]_vars => [Session!Next]_(Session!vars)
  BY SessionStep
<1> QED BY <1>1, <1>2, Invariance, PTL DEF Spec, SessionSpec, Session!Spec
=============================================================================
