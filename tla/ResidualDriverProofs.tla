------------------------ MODULE ResidualDriverProofs ------------------------
(***************************************************************************)
(* Theorems about ResidualDriver, for every number of threads, prefixes,   *)
(* leaves and jobs and every limit, from the inductive invariant IInv.     *)
(***************************************************************************)
EXTENDS ResidualDriverInvariant, JobRangesProofs, FiniteSetTheorems

USE DriverAssumption

LEMMA CountsTyped ==
    /\ JobCount \in Nat /\ WorkerCount \in Nat /\ JobCount <= PrefixCount
    /\ JobCount # 0 => WorkerCount # 0
    /\ JobCount = 0 => PrefixCount = 0
    /\ NoOne # Main
  BY DEF JobCount, WorkerCount, JobCountOf, WorkerCountOf, NoOne, Main

LEMMA JobRangeTyped ==
    ASSUME NEW j \in Jobs
    PROVE  /\ RangeBegin(PrefixCount, JobCount, j) \in Nat
           /\ RangeEnd(PrefixCount, JobCount, j) \in Nat
           /\ RangeBegin(PrefixCount, JobCount, j) <= RangeEnd(PrefixCount, JobCount, j)
           /\ RangeEnd(PrefixCount, JobCount, j) <= PrefixCount
<1>1. JobCount \in Nat \ {0} /\ j \in 0 .. JobCount - 1
  BY CountsTyped DEF Jobs
<1> QED BY <1>1, RangeWithin

(* A worker that searches is at a prefix.                                  *)
LEMMA PrefixTyped ==
    ASSUME TypeOK, PlaceInv, NEW w \in Workers, pc[w] \in Searching
    PROVE  /\ prefix[w] \in Prefixes
           /\ Leaves[prefix[w]] \in Seq(Encodings) /\ Len(Leaves[prefix[w]]) \in Nat
<1>1. slot[w] \in Jobs /\ prefix[w] < RangeEnd(PrefixCount, JobCount, JobOf(w))
  BY DEF PlaceInv, Place, InJob, Searching
<1>2. JobOf(w) \in Jobs
  BY <1>1 DEF TypeOK, JobOf
<1>3. prefix[w] \in Prefixes
  BY <1>1, <1>2, JobRangeTyped DEF TypeOK, Prefixes
<1> QED BY <1>3

(* The leaf a worker is recording is one of the leaves of its prefix.      *)
LEMMA FoundTyped ==
    ASSUME TypeOK, PlaceInv, NEW w \in Workers, pc[w] \in Recording
    PROVE  prefix[w] \in Prefixes /\ Found(w) \in Encodings
<1>1. prefix[w] \in Prefixes /\ Leaves[prefix[w]] \in Seq(Encodings)
  BY PrefixTyped DEF Recording, Searching
<1>2. leaf[w] \in 1 .. Len(Leaves[prefix[w]])
  BY <1>1 DEF PlaceInv, Place, Recording, Searching, TypeOK
<1> QED BY <1>1, <1>2 DEF Found

LEMMA WorkersFinite == IsFiniteSet(Workers) /\ Cardinality(Workers) = WorkerCount
  BY CountsTyped, FS_Interval DEF Workers

RunningWorkers == {w \in Workers : Running(w)}

(* The two places where the number of running workers changes, and main's  *)
(* bookkeeping around pthread_create.                                      *)
LEMMA ActiveStep ==
    ASSUME TypeOK, CreationInv, ActiveCountExact, [Next]_vars
    PROVE  ActiveCountExact'
<1> DEFINE R == RunningWorkers
<1>1. IsFiniteSet(R) /\ Cardinality(R) \in Nat
  BY WorkersFinite, FS_Subset, FS_CardinalityType DEF RunningWorkers
<1>2. active = Cardinality(R) + (IF mainPc = "create" THEN 1 ELSE 0)
  BY DEF ActiveCountExact, RunningWorkers
<1>3. SUFFICES active' = Cardinality(R') + (IF mainPc' = "create" THEN 1 ELSE 0)
  BY DEF ActiveCountExact, RunningWorkers
<1>4. ASSUME R' = R, active' = active, mainPc' = "create" <=> mainPc = "create"
      PROVE  active' = Cardinality(R') + (IF mainPc' = "create" THEN 1 ELSE 0)
  <2> HIDE DEF R
  <2> QED BY <1>2, <1>4
<1>5. CASE UNCHANGED vars
  BY <1>4, <1>5 DEF vars, sharedVars, workerVars, mainVars, RunningWorkers, Running
<1>6. ASSUME NEW w \in Workers, Retire(w)
      PROVE  active' = Cardinality(R') + (IF mainPc' = "create" THEN 1 ELSE 0)
  <2>1. R' = R \ {w} /\ w \in R
    BY <1>6 DEF TypeOK, Retire, Goto, RunningWorkers, Running
  <2>2. active' = active - 1 /\ (mainPc' = "create" <=> mainPc = "create")
    BY <1>6 DEF Retire, Deactivate, WakeWatcher
  <2> HIDE DEF R
  <2>3. Cardinality(R') = Cardinality(R) - 1
    BY <1>1, <2>1, FS_RemoveElement
  <2> QED BY <1>1, <1>2, <2>2, <2>3
<1>7. ASSUME NEW w \in Workers, CheckStop(w)
      PROVE  R' = R /\ active' = active /\ (mainPc' = "create" <=> mainPc = "create")
  BY <1>7 DEF TypeOK, CheckStop, Goto, RunningWorkers, Running, sharedVars, mainVars, workerVars
<1>8. ASSUME NEW w \in Workers, ClaimJob(w)
      PROVE  R' = R /\ active' = active /\ (mainPc' = "create" <=> mainPc = "create")
  BY <1>8 DEF TypeOK, ClaimJob, Ticket, Goto, RunningWorkers, Running, sharedVars, mainVars, workerVars
<1>9. ASSUME NEW w \in Workers, NextPrefix(w)
      PROVE  R' = R /\ active' = active /\ (mainPc' = "create" <=> mainPc = "create")
  BY <1>9 DEF TypeOK, NextPrefix, Goto, RunningWorkers, Running, sharedVars, mainVars, workerVars
<1>10. ASSUME NEW w \in Workers, CountJob(w)
      PROVE  R' = R /\ active' = active /\ (mainPc' = "create" <=> mainPc = "create")
  BY <1>10 DEF TypeOK, CountJob, Goto, RunningWorkers, Running, sharedVars, mainVars, workerVars
<1>11. ASSUME NEW w \in Workers, VisitLeaf(w)
      PROVE  R' = R /\ active' = active /\ (mainPc' = "create" <=> mainPc = "create")
  BY <1>11 DEF TypeOK, VisitLeaf, Goto, RunningWorkers, Running, sharedVars, mainVars, workerVars
<1>12. ASSUME NEW w \in Workers, PollStop(w)
      PROVE  R' = R /\ active' = active /\ (mainPc' = "create" <=> mainPc = "create")
  BY <1>12 DEF TypeOK, PollStop, Goto, RunningWorkers, Running, sharedVars, mainVars, workerVars
<1>13. ASSUME NEW w \in Workers, HitNodeLimit(w)
      PROVE  R' = R /\ active' = active /\ (mainPc' = "create" <=> mainPc = "create")
  BY <1>13 DEF TypeOK, HitNodeLimit, StopAtNodeLimit, Goto, RunningWorkers, Running, sharedVars, mainVars, workerVars
<1>14. ASSUME NEW w \in Workers, FinishPrefix(w)
      PROVE  R' = R /\ active' = active /\ (mainPc' = "create" <=> mainPc = "create")
  BY <1>14 DEF TypeOK, FinishPrefix, Goto, RunningWorkers, Running, sharedVars, mainVars, workerVars
<1>15. ASSUME NEW w \in Workers, LeavePrefix(w)
      PROVE  R' = R /\ active' = active /\ (mainPc' = "create" <=> mainPc = "create")
  BY <1>15 DEF TypeOK, LeavePrefix, ShouldStop, Goto, RunningWorkers, Running, sharedVars, mainVars, workerVars
<1>16. ASSUME NEW w \in Workers, AllocFails(w)
      PROVE  R' = R /\ active' = active /\ (mainPc' = "create" <=> mainPc = "create")
  BY <1>16 DEF TypeOK, AllocFails, Goto, RunningWorkers, Running, sharedVars, mainVars, workerVars
<1>17. ASSUME NEW w \in Workers, RememberExtension(w)
      PROVE  R' = R /\ active' = active /\ (mainPc' = "create" <=> mainPc = "create")
  BY <1>17 DEF TypeOK, RememberExtension, Known, Goto, RunningWorkers, Running, sharedVars, mainVars, workerVars
<1>18. ASSUME NEW w \in Workers, LoadCount(w)
      PROVE  R' = R /\ active' = active /\ (mainPc' = "create" <=> mainPc = "create")
  BY <1>18 DEF TypeOK, LoadCount, Goto, RunningWorkers, Running, sharedVars, mainVars, workerVars
<1>19. ASSUME NEW w \in Workers, ReserveRefused(w)
      PROVE  R' = R /\ active' = active /\ (mainPc' = "create" <=> mainPc = "create")
  BY <1>19 DEF TypeOK, ReserveRefused, AtLimit, Goto, RunningWorkers, Running, sharedVars, mainVars, workerVars
<1>20. ASSUME NEW w \in Workers, CompareExchange(w)
      PROVE  R' = R /\ active' = active /\ (mainPc' = "create" <=> mainPc = "create")
  BY <1>20 DEF TypeOK, CompareExchange, Unchanged, AtLimit, Goto, RunningWorkers, Running, sharedVars, mainVars, workerVars
<1>21. ASSUME NEW w \in Workers, Enqueue(w)
      PROVE  R' = R /\ active' = active /\ (mainPc' = "create" <=> mainPc = "create")
  BY <1>21 DEF TypeOK, Enqueue, Goto, RunningWorkers, Running, sharedVars, mainVars, workerVars
<1>22. ASSUME NEW w \in Workers, NotifyWatcher(w)
      PROVE  R' = R /\ active' = active /\ (mainPc' = "create" <=> mainPc = "create")
  BY <1>22 DEF TypeOK, NotifyWatcher, WakeWatcher, Goto, RunningWorkers, Running, sharedVars, mainVars, workerVars
<1>23. ASSUME NEW w \in Workers, ReachLimit(w)
      PROVE  R' = R /\ active' = active /\ (mainPc' = "create" <=> mainPc = "create")
  BY <1>23 DEF TypeOK, ReachLimit, AtLimit, Goto, RunningWorkers, Running, sharedVars, mainVars, workerVars
<1>24. ASSUME NEW w \in Workers, Worker(w)
      PROVE  active' = Cardinality(R') + (IF mainPc' = "create" THEN 1 ELSE 0)
  <2> HIDE DEF R
  <2> QED BY <1>4, <1>24, <1>6, <1>7, <1>8, <1>9, <1>10, <1>11, <1>12, <1>13, <1>14, <1>15, <1>16, <1>17, <1>18, <1>19, <1>20, <1>21, <1>22, <1>23 DEF Worker
<1>25. CASE ActivateWorker
  <2>1. R' = R
    BY <1>25 DEF ActivateWorker, workerVars, RunningWorkers, Running
  <2> HIDE DEF R
  <2> QED BY <1>1, <1>2, <1>25, <2>1 DEF ActivateWorker, Activate, MainGoto
<1>26. CASE CreateWorker
  <2>1. created + 1 \in Workers /\ pc[created + 1] = "absent"
    BY <1>26, CountsTyped DEF CreateWorker, TypeOK, CreationInv, Workers
  <2>2. R' = R \union {created + 1} /\ created + 1 \notin R
    BY <1>26, <2>1 DEF CreateWorker, TypeOK, RunningWorkers, Running
  <2>3. active' = active /\ mainPc = "create" /\ mainPc' # "create"
    BY <1>26 DEF CreateWorker, MainGoto, sharedVars
  <2> HIDE DEF R
  <2>4. Cardinality(R') = Cardinality(R) + 1
    BY <1>1, <2>2, FS_AddElement
  <2> QED BY <1>1, <1>2, <2>3, <2>4
<1>27. CASE CreateFails
  <2>1. R' = R
    BY <1>27 DEF CreateFails, workerVars, RunningWorkers, Running
  <2> HIDE DEF R
  <2> QED BY <1>1, <1>2, <1>27, <2>1 DEF CreateFails, Deactivate, MainGoto
<1>28. CASE LockEvent
  BY <1>4, <1>28 DEF TypeOK, LockEvent, MainGoto, RunningWorkers, Running, sharedVars, workerVars
<1>29. CASE TestActive
  BY <1>4, <1>29 DEF TypeOK, TestActive, MainGoto, RunningWorkers, Running, sharedVars, workerVars
<1>30. CASE PollInterrupt
  BY <1>4, <1>30 DEF TypeOK, PollInterrupt, NoticeInterrupt, MainGoto, RunningWorkers, Running, sharedVars, workerVars
<1>31. CASE WatchDrain
  BY <1>4, <1>31 DEF TypeOK, WatchDrain, DrainSolutions, MainGoto, RunningWorkers, Running, sharedVars, workerVars
<1>32. CASE RecheckActive
  BY <1>4, <1>32 DEF TypeOK, RecheckActive, MainGoto, RunningWorkers, Running, sharedVars, workerVars
<1>33. CASE StartWait
  BY <1>4, <1>33 DEF TypeOK, StartWait, MainGoto, RunningWorkers, Running, sharedVars, workerVars
<1>34. CASE WaitExpires
  BY <1>4, <1>34 DEF TypeOK, WaitExpires, MainGoto, RunningWorkers, Running, sharedVars, workerVars
<1>35. CASE JoinWorkers
  BY <1>4, <1>35 DEF TypeOK, JoinWorkers, DrainSolutions, Joined, MainGoto, RunningWorkers, Running, sharedVars, workerVars
<1>36. CASE CheckErrors
  BY <1>4, <1>36 DEF TypeOK, CheckErrors, MainGoto, RunningWorkers, Running, sharedVars, workerVars
<1>37. CASE CheckUnfinished
  BY <1>4, <1>37 DEF TypeOK, CheckUnfinished, LimitReached, MainGoto, RunningWorkers, Running, sharedVars, workerVars
<1>38. CASE Report
  BY <1>4, <1>38 DEF TypeOK, Report, LimitReached, MainGoto, RunningWorkers, Running, sharedVars, workerVars
<1>39. CASE Exit
  BY <1>4, <1>39 DEF TypeOK, Exit, MainGoto, RunningWorkers, Running, sharedVars, workerVars
<1>40. CASE Interrupt
  BY <1>4, <1>40 DEF TypeOK, Interrupt, MainGoto, RunningWorkers, Running, sharedVars, workerVars
<1> QED
  BY <1>5, <1>24, <1>25, <1>26, <1>27, <1>28, <1>29, <1>30, <1>31, <1>32, <1>33, <1>34, <1>35, <1>36, <1>37, <1>38, <1>39, <1>40 DEF Next, MainThread

LEMMA ActiveTyped ==
    ASSUME ActiveCountExact, CreationInv, created \in 0 .. WorkerCount
    PROVE  active \in 0 .. WorkerCount
<1> DEFINE R == RunningWorkers
<1>1. IsFiniteSet(R) /\ Cardinality(R) \in Nat /\ Cardinality(R) <= WorkerCount
  BY WorkersFinite, FS_Subset, FS_CardinalityType DEF RunningWorkers
<1>2. active = Cardinality(R) + (IF mainPc = "create" THEN 1 ELSE 0)
  BY DEF ActiveCountExact, RunningWorkers
<1>3. CASE mainPc = "create"
  <2>1. WorkerCount \in Workers /\ WorkerCount > created
    BY <1>3, CountsTyped DEF CreationInv, Workers
  <2>2. WorkerCount \notin R
    BY <2>1 DEF CreationInv, RunningWorkers, Running
  <2> HIDE DEF R
  <2>3. R \in SUBSET Workers
    BY DEF RunningWorkers, R
  <2>4. Cardinality(R) # Cardinality(Workers)
    BY <2>1, <2>2, <2>3, WorkersFinite, FS_Subset
  <2> QED BY <1>1, <1>2, <1>3, <2>4, WorkersFinite, CountsTyped
<1>4. CASE mainPc # "create"
  <2> HIDE DEF R
  <2> QED BY <1>1, <1>2, <1>4, CountsTyped
<1> QED BY <1>3, <1>4

(* Workers are created in order. *)
LEMMA CreationStep ==
    ASSUME TypeOK, CreationInv, [Next]_vars
    PROVE  CreationInv'
<1>1. ASSUME NEW w \in Workers, Worker(w) PROVE CreationInv'
  <2>1. CASE CheckStop(w)
    BY <2>1, CountsTyped
    DEF TypeOK, CreationInv, AfterJoin, Workers, CheckStop, Goto, sharedVars,
            workerVars, mainVars, history
  <2>2. CASE ClaimJob(w)
    BY <2>2, CountsTyped
    DEF TypeOK, CreationInv, AfterJoin, Workers, ClaimJob, Ticket, Goto,
            sharedVars, workerVars, mainVars, history
  <2>3. CASE NextPrefix(w)
    BY <2>3, CountsTyped
    DEF TypeOK, CreationInv, AfterJoin, Workers, NextPrefix, Goto, sharedVars,
            workerVars, mainVars, history
  <2>4. CASE CountJob(w)
    BY <2>4, CountsTyped
    DEF TypeOK, CreationInv, AfterJoin, Workers, CountJob, Goto, sharedVars,
            workerVars, mainVars, history
  <2>5. CASE VisitLeaf(w)
    BY <2>5, CountsTyped
    DEF TypeOK, CreationInv, AfterJoin, Workers, VisitLeaf, Goto, sharedVars,
            workerVars, mainVars, history
  <2>6. CASE PollStop(w)
    BY <2>6, CountsTyped
    DEF TypeOK, CreationInv, AfterJoin, Workers, PollStop, Goto, sharedVars,
            workerVars, mainVars, history
  <2>7. CASE HitNodeLimit(w)
    BY <2>7, CountsTyped
    DEF TypeOK, CreationInv, AfterJoin, Workers, HitNodeLimit, StopAtNodeLimit,
            Goto, sharedVars, workerVars, mainVars, history
  <2>8. CASE FinishPrefix(w)
    BY <2>8, CountsTyped
    DEF TypeOK, CreationInv, AfterJoin, Workers, FinishPrefix, Goto, sharedVars,
            workerVars, mainVars, history
  <2>9. CASE LeavePrefix(w)
    BY <2>9, CountsTyped
    DEF TypeOK, CreationInv, AfterJoin, Workers, LeavePrefix, ShouldStop, Goto,
            sharedVars, workerVars, mainVars, history
  <2>10. CASE AllocFails(w)
    BY <2>10, CountsTyped
    DEF TypeOK, CreationInv, AfterJoin, Workers, AllocFails, Goto, sharedVars,
            workerVars, mainVars, history
  <2>11. CASE RememberExtension(w)
    BY <2>11, CountsTyped
    DEF TypeOK, CreationInv, AfterJoin, Workers, RememberExtension, Known, Goto,
            sharedVars, workerVars, mainVars, history
  <2>12. CASE LoadCount(w)
    BY <2>12, CountsTyped
    DEF TypeOK, CreationInv, AfterJoin, Workers, LoadCount, Goto, sharedVars,
            workerVars, mainVars, history
  <2>13. CASE ReserveRefused(w)
    BY <2>13, CountsTyped
    DEF TypeOK, CreationInv, AfterJoin, Workers, ReserveRefused, AtLimit, Goto,
            sharedVars, workerVars, mainVars, history
  <2>14. CASE CompareExchange(w)
    BY <2>14, CountsTyped
    DEF TypeOK, CreationInv, AfterJoin, Workers, CompareExchange, Unchanged,
            AtLimit, Goto, sharedVars, workerVars, mainVars, history
  <2>15. CASE Enqueue(w)
    BY <2>15, CountsTyped
    DEF TypeOK, CreationInv, AfterJoin, Workers, Enqueue, Goto, sharedVars,
            workerVars, mainVars, history
  <2>16. CASE NotifyWatcher(w)
    BY <2>16, CountsTyped
    DEF TypeOK, CreationInv, AfterJoin, Workers, NotifyWatcher, WakeWatcher, Goto,
            sharedVars, workerVars, mainVars, history
  <2>17. CASE ReachLimit(w)
    BY <2>17, CountsTyped
    DEF TypeOK, CreationInv, AfterJoin, Workers, ReachLimit, AtLimit, Goto,
            sharedVars, workerVars, mainVars, history
  <2>18. CASE Retire(w)
    BY <2>18, CountsTyped
    DEF TypeOK, CreationInv, AfterJoin, Workers, Retire, WakeWatcher, Deactivate,
            Goto, sharedVars, workerVars, mainVars, history
  <2> QED BY <1>1, <2>1, <2>2, <2>3, <2>4, <2>5, <2>6, <2>7, <2>8, <2>9, <2>10,
          <2>11, <2>12, <2>13, <2>14, <2>15, <2>16, <2>17, <2>18 DEF Worker
<1>2. CASE MainThread
  <2>1. CASE ActivateWorker
    BY <2>1, CountsTyped
    DEF TypeOK, CreationInv, AfterJoin, Workers, ActivateWorker, Activate,
            MainGoto, sharedVars, workerVars, mainVars, history
  <2>2. CASE CreateWorker
    <3>1. created + 1 \in Workers /\ created < WorkerCount
      BY <2>2, CountsTyped DEF CreateWorker, TypeOK, CreationInv, Workers
    <3>2. \A w \in Workers : pc'[w] = "absent" <=> w > created + 1
      BY <2>2, <3>1 DEF CreateWorker, TypeOK, CreationInv, Workers
    <3>3. /\ created' = created + 1 /\ exitStatus' = exitStatus /\ exitStatus = "success"
          /\ mainPc' = IF created + 1 < WorkerCount THEN "activate" ELSE "lock"
      BY <2>2 DEF CreateWorker, MainGoto, CreationInv
    <3> QED BY <3>1, <3>2, <3>3, CountsTyped DEF CreationInv, AfterJoin, TypeOK
  <2>3. CASE CreateFails
    BY <2>3, CountsTyped
    DEF TypeOK, CreationInv, AfterJoin, Workers, CreateFails, Deactivate,
            MainGoto, sharedVars, workerVars, mainVars, history
  <2>4. CASE LockEvent
    BY <2>4, CountsTyped
    DEF TypeOK, CreationInv, AfterJoin, Workers, LockEvent, MainGoto, sharedVars,
            workerVars, mainVars, history
  <2>5. CASE TestActive
    BY <2>5, CountsTyped
    DEF TypeOK, CreationInv, AfterJoin, Workers, TestActive, MainGoto, sharedVars,
            workerVars, mainVars, history
  <2>6. CASE PollInterrupt
    BY <2>6, CountsTyped
    DEF TypeOK, CreationInv, AfterJoin, Workers, PollInterrupt, NoticeInterrupt,
            MainGoto, sharedVars, workerVars, mainVars, history
  <2>7. CASE WatchDrain
    BY <2>7, CountsTyped
    DEF TypeOK, CreationInv, AfterJoin, Workers, WatchDrain, DrainSolutions,
            MainGoto, sharedVars, workerVars, mainVars, history
  <2>8. CASE RecheckActive
    BY <2>8, CountsTyped
    DEF TypeOK, CreationInv, AfterJoin, Workers, RecheckActive, MainGoto,
            sharedVars, workerVars, mainVars, history
  <2>9. CASE StartWait
    BY <2>9, CountsTyped
    DEF TypeOK, CreationInv, AfterJoin, Workers, StartWait, MainGoto, sharedVars,
            workerVars, mainVars, history
  <2>10. CASE WaitExpires
    BY <2>10, CountsTyped
    DEF TypeOK, CreationInv, AfterJoin, Workers, WaitExpires, MainGoto,
            sharedVars, workerVars, mainVars, history
  <2>11. CASE JoinWorkers
    BY <2>11, CountsTyped
    DEF TypeOK, CreationInv, AfterJoin, Workers, JoinWorkers, DrainSolutions,
            Joined, MainGoto, sharedVars, workerVars, mainVars, history
  <2>12. CASE CheckErrors
    BY <2>12, CountsTyped
    DEF TypeOK, CreationInv, AfterJoin, Workers, CheckErrors, MainGoto,
            sharedVars, workerVars, mainVars, history
  <2>13. CASE CheckUnfinished
    BY <2>13, CountsTyped
    DEF TypeOK, CreationInv, AfterJoin, Workers, CheckUnfinished, LimitReached,
            MainGoto, sharedVars, workerVars, mainVars, history
  <2>14. CASE Report
    BY <2>14, CountsTyped
    DEF TypeOK, CreationInv, AfterJoin, Workers, Report, LimitReached, MainGoto,
            sharedVars, workerVars, mainVars, history
  <2>15. CASE Exit
    BY <2>15, CountsTyped
    DEF TypeOK, CreationInv, AfterJoin, Workers, Exit, MainGoto, sharedVars,
            workerVars, mainVars, history
  <2> QED BY <1>2, <2>1, <2>2, <2>3, <2>4, <2>5, <2>6, <2>7, <2>8, <2>9, <2>10,
          <2>11, <2>12, <2>13, <2>14, <2>15 DEF MainThread
<1>3. CASE Interrupt
  BY <1>3, CountsTyped
  DEF TypeOK, CreationInv, AfterJoin, Workers, Interrupt, MainGoto, sharedVars,
          workerVars, mainVars, history
<1>4. CASE UNCHANGED vars
  BY <1>4, CountsTyped
  DEF TypeOK, CreationInv, AfterJoin, Workers, vars, sharedVars, workerVars,
          mainVars, history
<1> QED BY <1>1, <1>2, <1>3, <1>4 DEF Next

(* The types of all variables but active, whose bound needs the count.     *)
LEMMA TypeStep ==
    ASSUME TypeOK, CreationInv, PlaceInv, ReservationInv, active' \in 0 .. WorkerCount, [Next]_vars
    PROVE  TypeOK'
<1>1. ASSUME NEW w \in Workers, Worker(w) PROVE TypeOK'
  <2>1. CASE CheckStop(w)
    BY <2>1, CountsTyped
    DEF TypeOK, WorkerSteps, MainSteps, Verdicts, CheckStop, Goto, sharedVars,
            workerVars, mainVars, history
  <2>2. CASE ClaimJob(w)
    <3>1. /\ pc' \in [Workers -> WorkerSteps] /\ slot' \in [Workers -> Nat]
          /\ prefix' \in [Workers -> Nat]
      <4>1. CASE nextJob >= JobCount
        BY <2>2, <4>1 DEF TypeOK, WorkerSteps, ClaimJob, Ticket, Goto
      <4>2. CASE nextJob < JobCount
        <5>1. jobOrder[nextJob] \in Jobs
          BY <4>2, CountsTyped, SMTT(30) DEF TypeOK, Jobs
        <5>2. RangeBegin(PrefixCount, JobCount, jobOrder[nextJob]) \in Nat
          BY <5>1, JobRangeTyped
        <5>3. ~(nextJob >= JobCount)
          BY <4>2, CountsTyped DEF TypeOK
        <5> QED BY <2>2, <5>2, <5>3, ZenonT(30) DEF TypeOK, WorkerSteps, ClaimJob, Ticket, Goto
      <4> QED BY <4>1, <4>2, CountsTyped DEF TypeOK
    <3> QED BY <2>2, <3>1, SMTT(30) DEF TypeOK, ClaimJob, sharedVars, workerVars, mainVars,
            history
  <2>3. CASE NextPrefix(w)
    BY <2>3, CountsTyped
    DEF TypeOK, WorkerSteps, MainSteps, Verdicts, NextPrefix, Goto, sharedVars,
            workerVars, mainVars, history
  <2>4. CASE CountJob(w)
    BY <2>4, CountsTyped
    DEF TypeOK, WorkerSteps, MainSteps, Verdicts, CountJob, Goto, PlaceInv, Place,
            InJob, sharedVars, workerVars, mainVars, history
  <2>5. CASE VisitLeaf(w)
    BY <2>5, CountsTyped
    DEF TypeOK, WorkerSteps, MainSteps, Verdicts, VisitLeaf, Goto, sharedVars,
            workerVars, mainVars, history
  <2>6. CASE PollStop(w)
    BY <2>6, CountsTyped
    DEF TypeOK, WorkerSteps, MainSteps, Verdicts, PollStop, Goto, sharedVars,
            workerVars, mainVars, history
  <2>7. CASE HitNodeLimit(w)
    BY <2>7, CountsTyped
    DEF TypeOK, WorkerSteps, MainSteps, Verdicts, HitNodeLimit, StopAtNodeLimit,
            Goto, sharedVars, workerVars, mainVars, history
  <2>8. CASE FinishPrefix(w)
    <3>1. prefix[w] \in Prefixes
      BY <2>8, PrefixTyped DEF FinishPrefix, Searching
    <3> QED BY <2>8, <3>1 DEF TypeOK, WorkerSteps, MainSteps, Verdicts,
            FinishPrefix, Goto, sharedVars, workerVars, mainVars, history
  <2>9. CASE LeavePrefix(w)
    <3>1. prefix' \in [Workers -> Nat] /\ pc' \in [Workers -> WorkerSteps]
      <4>1. CASE ShouldStop(w)
        BY <2>9, <4>1 DEF TypeOK, WorkerSteps, LeavePrefix, Goto
      <4>2. CASE ~ShouldStop(w)
        <5>1. /\ pc' = [pc EXCEPT ![w] = "nextPrefix"]
              /\ prefix' = [prefix EXCEPT ![w] = prefix[w] + 1]
          BY <2>9, <4>2 DEF LeavePrefix, Goto
        <5> HIDE DEF ShouldStop
        <5> QED BY <5>1 DEF TypeOK, WorkerSteps
      <4> QED BY <4>1, <4>2
    <3> QED BY <2>9, <3>1 DEF TypeOK, LeavePrefix, sharedVars, workerVars,
            mainVars, history
  <2>10. CASE AllocFails(w)
    BY <2>10, CountsTyped
    DEF TypeOK, WorkerSteps, MainSteps, Verdicts, AllocFails, Goto, sharedVars,
            workerVars, mainVars, history
  <2>11. CASE RememberExtension(w)
    <3>1. Found(w) \in Encodings
      BY <2>11, FoundTyped DEF RememberExtension, Recording
    <3> HIDE DEF Found
    <3>2. remembered' \subseteq Encodings /\ duplicates' \in Nat
      BY <2>11, <3>1 DEF TypeOK, RememberExtension, Known
    <3>3. pc' \in [Workers -> WorkerSteps]
      BY <2>11, ZenonT(30) DEF TypeOK, WorkerSteps, RememberExtension, Goto
    <3> QED BY <2>11, <3>2, <3>3 DEF TypeOK, RememberExtension, sharedVars,
            workerVars, mainVars, history
  <2>12. CASE LoadCount(w)
    BY <2>12, CountsTyped
    DEF TypeOK, WorkerSteps, MainSteps, Verdicts, LoadCount, Goto, sharedVars,
            workerVars, mainVars, history
  <2>13. CASE ReserveRefused(w)
    BY <2>13, CountsTyped
    DEF TypeOK, WorkerSteps, MainSteps, Verdicts, ReserveRefused, AtLimit, Goto,
            sharedVars, workerVars, mainVars, history
  <2>14. CASE CompareExchange(w)
    <3>1. Found(w) \in Encodings
      BY <2>14, FoundTyped DEF CompareExchange, Recording
    <3> HIDE DEF Found
    <3>2. /\ configurations' \in Nat /\ current' \in [Workers -> Nat]
          /\ numbering' \subseteq Announcement
      <4>1. /\ configurations \in Nat /\ current \in [Workers -> Nat]
            /\ current[w] + 1 \in Nat \ {0} /\ numbering \subseteq Announcement
        BY DEF TypeOK
      <4> HIDE DEF Unchanged
      <4>2. CASE Unchanged(w)
        <5>1. /\ configurations' = current[w] + 1
              /\ current' = [current EXCEPT ![w] = current[w] + 1]
              /\ numbering' = numbering \union
                    {[number |-> current[w] + 1, encoding |-> Found(w)]}
          BY <2>14, <4>2 DEF CompareExchange
        <5>2. [number |-> current[w] + 1, encoding |-> Found(w)] \in Announcement
          BY <3>1, <4>1 DEF Announcement
        <5>3. current' \in [Workers -> Nat]
          BY <4>1, <5>1
        <5>4. numbering' \subseteq Announcement
          BY <4>1, <5>1, <5>2
        <5> QED BY <4>1, <5>1, <5>3, <5>4
      <4>3. CASE ~Unchanged(w)
        <5>1. /\ current' = [current EXCEPT ![w] = configurations]
              /\ UNCHANGED <<configurations, numbering>>
          BY <2>14, <4>3 DEF CompareExchange
        <5>2. current' \in [Workers -> Nat]
          BY <4>1, <5>1
        <5> QED BY <4>1, <5>1, <5>2
      <4> QED BY <4>2, <4>3
    <3>3. pc' \in [Workers -> WorkerSteps]
      BY <2>14, ZenonT(30) DEF TypeOK, WorkerSteps, CompareExchange, Goto
    <3> QED BY <2>14, <3>2, <3>3 DEF TypeOK, CompareExchange, sharedVars,
            workerVars, mainVars, history
  <2>15. CASE Enqueue(w)
    <3>1. Found(w) \in Encodings
      BY <2>15, FoundTyped DEF Enqueue, Recording
    <3>2. current[w] >= 1
      BY <2>15 DEF ReservationInv, Reserved, NumberedSteps, Enqueue, TypeOK,
              Announcement
    <3> HIDE DEF Found
    <3>3. [number |-> current[w], encoding |-> Found(w)] \in Announcement
      BY <3>1, <3>2 DEF TypeOK, Announcement
    <3>4. queue' \in Seq(Announcement)
      <4> DEFINE r == [number |-> current[w], encoding |-> Found(w)]
      <4>1. queue' = Append(queue, r) \/ queue' = queue
        BY <2>15 DEF Enqueue
      <4>2. r \in Announcement
        BY <3>3
      <4> HIDE DEF r
      <4>3. queue \in Seq(Announcement)
        BY DEF TypeOK
      <4> QED BY <4>1, <4>2, <4>3
    <3>5. pc' \in [Workers -> WorkerSteps]
      BY <2>15, ZenonT(30) DEF TypeOK, WorkerSteps, Enqueue, Goto
    <3> QED BY <2>15, <3>4, <3>5 DEF TypeOK, Enqueue, sharedVars, workerVars,
            mainVars, history
  <2>16. CASE NotifyWatcher(w)
    BY <2>16, CountsTyped
    DEF TypeOK, WorkerSteps, MainSteps, Verdicts, NotifyWatcher, WakeWatcher,
            Goto, sharedVars, workerVars, mainVars, history
  <2>17. CASE ReachLimit(w)
    BY <2>17, CountsTyped
    DEF TypeOK, WorkerSteps, MainSteps, Verdicts, ReachLimit, AtLimit, Goto,
            sharedVars, workerVars, mainVars, history
  <2>18. CASE Retire(w)
    BY <2>18, CountsTyped
    DEF TypeOK, WorkerSteps, MainSteps, Verdicts, Retire, WakeWatcher, Deactivate,
            Goto, sharedVars, workerVars, mainVars, history
  <2> QED BY <1>1, <2>1, <2>2, <2>3, <2>4, <2>5, <2>6, <2>7, <2>8, <2>9, <2>10,
          <2>11, <2>12, <2>13, <2>14, <2>15, <2>16, <2>17, <2>18 DEF Worker
<1>2. CASE MainThread
  <2>1. CASE ActivateWorker
    BY <2>1, CountsTyped
    DEF TypeOK, WorkerSteps, MainSteps, Verdicts, ActivateWorker, Activate,
            MainGoto, sharedVars, workerVars, mainVars, history
  <2>2. CASE CreateWorker
    <3>1. created + 1 \in Workers
      BY <2>2, CountsTyped DEF CreateWorker, CreationInv, TypeOK, Workers
    <3>2. created' \in 0 .. WorkerCount /\ mainPc' \in MainSteps
      BY <2>2, <3>1, CountsTyped DEF TypeOK, MainSteps, CreateWorker, MainGoto, Workers
    <3>3. pc' \in [Workers -> WorkerSteps]
      BY <2>2, <3>1 DEF TypeOK, WorkerSteps, CreateWorker
    <3> QED BY <2>2, <3>2, <3>3 DEF TypeOK, CreateWorker, sharedVars, workerVars,
            mainVars, history
  <2>3. CASE CreateFails
    BY <2>3, CountsTyped
    DEF TypeOK, WorkerSteps, MainSteps, Verdicts, CreateFails, Deactivate,
            MainGoto, sharedVars, workerVars, mainVars, history
  <2>4. CASE LockEvent
    BY <2>4, CountsTyped
    DEF TypeOK, WorkerSteps, MainSteps, Verdicts, LockEvent, MainGoto, sharedVars,
            workerVars, mainVars, history
  <2>5. CASE TestActive
    BY <2>5, CountsTyped
    DEF TypeOK, WorkerSteps, MainSteps, Verdicts, TestActive, MainGoto,
            sharedVars, workerVars, mainVars, history
  <2>6. CASE PollInterrupt
    BY <2>6, CountsTyped
    DEF TypeOK, WorkerSteps, MainSteps, Verdicts, PollInterrupt, NoticeInterrupt,
            MainGoto, sharedVars, workerVars, mainVars, history
  <2>7. CASE WatchDrain
    BY <2>7, CountsTyped
    DEF TypeOK, WorkerSteps, MainSteps, Verdicts, WatchDrain, DrainSolutions,
            MainGoto, sharedVars, workerVars, mainVars, history
  <2>8. CASE RecheckActive
    BY <2>8, CountsTyped
    DEF TypeOK, WorkerSteps, MainSteps, Verdicts, RecheckActive, MainGoto,
            sharedVars, workerVars, mainVars, history
  <2>9. CASE StartWait
    BY <2>9, CountsTyped
    DEF TypeOK, WorkerSteps, MainSteps, Verdicts, StartWait, MainGoto, sharedVars,
            workerVars, mainVars, history
  <2>10. CASE WaitExpires
    BY <2>10, CountsTyped
    DEF TypeOK, WorkerSteps, MainSteps, Verdicts, WaitExpires, MainGoto,
            sharedVars, workerVars, mainVars, history
  <2>11. CASE JoinWorkers
    BY <2>11, CountsTyped
    DEF TypeOK, WorkerSteps, MainSteps, Verdicts, JoinWorkers, DrainSolutions,
            Joined, MainGoto, sharedVars, workerVars, mainVars, history
  <2>12. CASE CheckErrors
    BY <2>12, CountsTyped
    DEF TypeOK, WorkerSteps, MainSteps, Verdicts, CheckErrors, MainGoto,
            sharedVars, workerVars, mainVars, history
  <2>13. CASE CheckUnfinished
    BY <2>13, CountsTyped
    DEF TypeOK, WorkerSteps, MainSteps, Verdicts, CheckUnfinished, LimitReached,
            MainGoto, sharedVars, workerVars, mainVars, history
  <2>14. CASE Report
    BY <2>14, CountsTyped
    DEF TypeOK, WorkerSteps, MainSteps, Verdicts, Report, LimitReached, MainGoto,
            sharedVars, workerVars, mainVars, history
  <2>15. CASE Exit
    BY <2>15, CountsTyped
    DEF TypeOK, WorkerSteps, MainSteps, Verdicts, Exit, MainGoto, sharedVars,
            workerVars, mainVars, history
  <2> QED BY <1>2, <2>1, <2>2, <2>3, <2>4, <2>5, <2>6, <2>7, <2>8, <2>9, <2>10,
          <2>11, <2>12, <2>13, <2>14, <2>15 DEF MainThread
<1>3. CASE Interrupt
  BY <1>3, CountsTyped
  DEF TypeOK, WorkerSteps, MainSteps, Verdicts, Interrupt, MainGoto, sharedVars,
          workerVars, mainVars, history
<1>4. CASE UNCHANGED vars
  BY <1>4, CountsTyped
  DEF TypeOK, WorkerSteps, MainSteps, Verdicts, vars, sharedVars, workerVars,
          mainVars, history
<1> QED BY <1>1, <1>2, <1>3, <1>4 DEF Next

(* The watcher holds event_mutex just where it looks and decides.          *)
LEMMA MutexStep ==
    ASSUME TypeOK, MutexInv, [Next]_vars
    PROVE  MutexInv'
<1>1. ASSUME NEW w \in Workers, Worker(w) PROVE MutexInv'
  <2>1. CASE CheckStop(w)
    BY <2>1, CountsTyped
    DEF TypeOK, MutexInv, CheckStop, Goto, sharedVars, workerVars, mainVars, history
  <2>2. CASE ClaimJob(w)
    BY <2>2, CountsTyped
    DEF TypeOK, MutexInv, ClaimJob, Ticket, Goto, sharedVars, workerVars,
            mainVars, history
  <2>3. CASE NextPrefix(w)
    BY <2>3, CountsTyped
    DEF TypeOK, MutexInv, NextPrefix, Goto, sharedVars, workerVars, mainVars, history
  <2>4. CASE CountJob(w)
    BY <2>4, CountsTyped
    DEF TypeOK, MutexInv, CountJob, Goto, sharedVars, workerVars, mainVars, history
  <2>5. CASE VisitLeaf(w)
    BY <2>5, CountsTyped
    DEF TypeOK, MutexInv, VisitLeaf, Goto, sharedVars, workerVars, mainVars, history
  <2>6. CASE PollStop(w)
    BY <2>6, CountsTyped
    DEF TypeOK, MutexInv, PollStop, Goto, sharedVars, workerVars, mainVars, history
  <2>7. CASE HitNodeLimit(w)
    BY <2>7, CountsTyped
    DEF TypeOK, MutexInv, HitNodeLimit, StopAtNodeLimit, Goto, sharedVars,
            workerVars, mainVars, history
  <2>8. CASE FinishPrefix(w)
    BY <2>8, CountsTyped
    DEF TypeOK, MutexInv, FinishPrefix, Goto, sharedVars, workerVars, mainVars, history
  <2>9. CASE LeavePrefix(w)
    BY <2>9, CountsTyped
    DEF TypeOK, MutexInv, LeavePrefix, ShouldStop, Goto, sharedVars, workerVars,
            mainVars, history
  <2>10. CASE AllocFails(w)
    BY <2>10, CountsTyped
    DEF TypeOK, MutexInv, AllocFails, Goto, sharedVars, workerVars, mainVars, history
  <2>11. CASE RememberExtension(w)
    BY <2>11, CountsTyped
    DEF TypeOK, MutexInv, RememberExtension, Known, Goto, sharedVars, workerVars,
            mainVars, history
  <2>12. CASE LoadCount(w)
    BY <2>12, CountsTyped
    DEF TypeOK, MutexInv, LoadCount, Goto, sharedVars, workerVars, mainVars, history
  <2>13. CASE ReserveRefused(w)
    BY <2>13, CountsTyped
    DEF TypeOK, MutexInv, ReserveRefused, AtLimit, Goto, sharedVars, workerVars,
            mainVars, history
  <2>14. CASE CompareExchange(w)
    BY <2>14, CountsTyped
    DEF TypeOK, MutexInv, CompareExchange, Unchanged, AtLimit, Goto, sharedVars,
            workerVars, mainVars, history
  <2>15. CASE Enqueue(w)
    BY <2>15, CountsTyped
    DEF TypeOK, MutexInv, Enqueue, Goto, sharedVars, workerVars, mainVars, history
  <2>16. CASE NotifyWatcher(w)
    BY <2>16, CountsTyped
    DEF TypeOK, MutexInv, NotifyWatcher, WakeWatcher, Goto, sharedVars,
            workerVars, mainVars, history
  <2>17. CASE ReachLimit(w)
    BY <2>17, CountsTyped
    DEF TypeOK, MutexInv, ReachLimit, AtLimit, Goto, sharedVars, workerVars,
            mainVars, history
  <2>18. CASE Retire(w)
    BY <2>18, CountsTyped
    DEF TypeOK, MutexInv, Retire, WakeWatcher, Deactivate, Goto, sharedVars,
            workerVars, mainVars, history
  <2> QED BY <1>1, <2>1, <2>2, <2>3, <2>4, <2>5, <2>6, <2>7, <2>8, <2>9, <2>10,
          <2>11, <2>12, <2>13, <2>14, <2>15, <2>16, <2>17, <2>18 DEF Worker
<1>2. CASE MainThread
  <2>1. CASE ActivateWorker
    BY <2>1, CountsTyped
    DEF TypeOK, MutexInv, ActivateWorker, Activate, MainGoto, sharedVars,
            workerVars, mainVars, history
  <2>2. CASE CreateWorker
    BY <2>2, CountsTyped
    DEF TypeOK, MutexInv, CreateWorker, MainGoto, sharedVars, workerVars,
            mainVars, history
  <2>3. CASE CreateFails
    BY <2>3, CountsTyped
    DEF TypeOK, MutexInv, CreateFails, Deactivate, MainGoto, sharedVars,
            workerVars, mainVars, history
  <2>4. CASE LockEvent
    BY <2>4, CountsTyped
    DEF TypeOK, MutexInv, LockEvent, MainGoto, sharedVars, workerVars, mainVars, history
  <2>5. CASE TestActive
    BY <2>5, CountsTyped
    DEF TypeOK, MutexInv, TestActive, MainGoto, sharedVars, workerVars, mainVars,
            history
  <2>6. CASE PollInterrupt
    BY <2>6, CountsTyped
    DEF TypeOK, MutexInv, PollInterrupt, NoticeInterrupt, MainGoto, sharedVars,
            workerVars, mainVars, history
  <2>7. CASE WatchDrain
    BY <2>7, CountsTyped
    DEF TypeOK, MutexInv, WatchDrain, DrainSolutions, MainGoto, sharedVars,
            workerVars, mainVars, history
  <2>8. CASE RecheckActive
    BY <2>8, CountsTyped
    DEF TypeOK, MutexInv, RecheckActive, MainGoto, sharedVars, workerVars,
            mainVars, history
  <2>9. CASE StartWait
    BY <2>9, CountsTyped
    DEF TypeOK, MutexInv, StartWait, MainGoto, sharedVars, workerVars, mainVars, history
  <2>10. CASE WaitExpires
    BY <2>10, CountsTyped
    DEF TypeOK, MutexInv, WaitExpires, MainGoto, sharedVars, workerVars, mainVars,
            history
  <2>11. CASE JoinWorkers
    BY <2>11, CountsTyped
    DEF TypeOK, MutexInv, JoinWorkers, DrainSolutions, Joined, MainGoto,
            sharedVars, workerVars, mainVars, history
  <2>12. CASE CheckErrors
    BY <2>12, CountsTyped
    DEF TypeOK, MutexInv, CheckErrors, MainGoto, sharedVars, workerVars, mainVars,
            history
  <2>13. CASE CheckUnfinished
    BY <2>13, CountsTyped
    DEF TypeOK, MutexInv, CheckUnfinished, LimitReached, MainGoto, sharedVars,
            workerVars, mainVars, history
  <2>14. CASE Report
    BY <2>14, CountsTyped
    DEF TypeOK, MutexInv, Report, LimitReached, MainGoto, sharedVars, workerVars,
            mainVars, history
  <2>15. CASE Exit
    BY <2>15, CountsTyped
    DEF TypeOK, MutexInv, Exit, MainGoto, sharedVars, workerVars, mainVars, history
  <2> QED BY <1>2, <2>1, <2>2, <2>3, <2>4, <2>5, <2>6, <2>7, <2>8, <2>9, <2>10,
          <2>11, <2>12, <2>13, <2>14, <2>15 DEF MainThread
<1>3. CASE Interrupt
  BY <1>3, CountsTyped
  DEF TypeOK, MutexInv, Interrupt, MainGoto, sharedVars, workerVars, mainVars, history
<1>4. CASE UNCHANGED vars
  BY <1>4, CountsTyped
  DEF TypeOK, MutexInv, vars, sharedVars, workerVars, mainVars, history
<1> QED BY <1>1, <1>2, <1>3, <1>4 DEF Next

(* The watcher does not wait for workers that are gone.                    *)
LEMMA WakeupStep ==
    ASSUME TypeOK, MutexInv, NoLostWakeup, [Next]_vars
    PROVE  NoLostWakeup'
<1>1. ASSUME NEW w \in Workers, Worker(w) PROVE NoLostWakeup'
  <2>1. CASE CheckStop(w)
    BY <2>1, CountsTyped
    DEF TypeOK, MutexInv, NoLostWakeup, CheckStop, Goto, sharedVars, workerVars,
            mainVars, history
  <2>2. CASE ClaimJob(w)
    BY <2>2, CountsTyped
    DEF TypeOK, MutexInv, NoLostWakeup, ClaimJob, Ticket, Goto, sharedVars,
            workerVars, mainVars, history
  <2>3. CASE NextPrefix(w)
    BY <2>3, CountsTyped
    DEF TypeOK, MutexInv, NoLostWakeup, NextPrefix, Goto, sharedVars, workerVars,
            mainVars, history
  <2>4. CASE CountJob(w)
    BY <2>4, CountsTyped
    DEF TypeOK, MutexInv, NoLostWakeup, CountJob, Goto, sharedVars, workerVars,
            mainVars, history
  <2>5. CASE VisitLeaf(w)
    BY <2>5, CountsTyped
    DEF TypeOK, MutexInv, NoLostWakeup, VisitLeaf, Goto, sharedVars, workerVars,
            mainVars, history
  <2>6. CASE PollStop(w)
    BY <2>6, CountsTyped
    DEF TypeOK, MutexInv, NoLostWakeup, PollStop, Goto, sharedVars, workerVars,
            mainVars, history
  <2>7. CASE HitNodeLimit(w)
    BY <2>7, CountsTyped
    DEF TypeOK, MutexInv, NoLostWakeup, HitNodeLimit, StopAtNodeLimit, Goto,
            sharedVars, workerVars, mainVars, history
  <2>8. CASE FinishPrefix(w)
    BY <2>8, CountsTyped
    DEF TypeOK, MutexInv, NoLostWakeup, FinishPrefix, Goto, sharedVars,
            workerVars, mainVars, history
  <2>9. CASE LeavePrefix(w)
    BY <2>9, CountsTyped
    DEF TypeOK, MutexInv, NoLostWakeup, LeavePrefix, ShouldStop, Goto, sharedVars,
            workerVars, mainVars, history
  <2>10. CASE AllocFails(w)
    BY <2>10, CountsTyped
    DEF TypeOK, MutexInv, NoLostWakeup, AllocFails, Goto, sharedVars, workerVars,
            mainVars, history
  <2>11. CASE RememberExtension(w)
    BY <2>11, CountsTyped
    DEF TypeOK, MutexInv, NoLostWakeup, RememberExtension, Known, Goto,
            sharedVars, workerVars, mainVars, history
  <2>12. CASE LoadCount(w)
    BY <2>12, CountsTyped
    DEF TypeOK, MutexInv, NoLostWakeup, LoadCount, Goto, sharedVars, workerVars,
            mainVars, history
  <2>13. CASE ReserveRefused(w)
    BY <2>13, CountsTyped
    DEF TypeOK, MutexInv, NoLostWakeup, ReserveRefused, AtLimit, Goto, sharedVars,
            workerVars, mainVars, history
  <2>14. CASE CompareExchange(w)
    BY <2>14, CountsTyped
    DEF TypeOK, MutexInv, NoLostWakeup, CompareExchange, Unchanged, AtLimit, Goto,
            sharedVars, workerVars, mainVars, history
  <2>15. CASE Enqueue(w)
    BY <2>15, CountsTyped
    DEF TypeOK, MutexInv, NoLostWakeup, Enqueue, Goto, sharedVars, workerVars,
            mainVars, history
  <2>16. CASE NotifyWatcher(w)
    BY <2>16, CountsTyped
    DEF TypeOK, MutexInv, NoLostWakeup, NotifyWatcher, WakeWatcher, Goto,
            sharedVars, workerVars, mainVars, history
  <2>17. CASE ReachLimit(w)
    BY <2>17, CountsTyped
    DEF TypeOK, MutexInv, NoLostWakeup, ReachLimit, AtLimit, Goto, sharedVars,
            workerVars, mainVars, history
  <2>18. CASE Retire(w)
    BY <2>18, CountsTyped
    DEF TypeOK, MutexInv, NoLostWakeup, Retire, WakeWatcher, Deactivate, Goto,
            sharedVars, workerVars, mainVars, history
  <2> QED BY <1>1, <2>1, <2>2, <2>3, <2>4, <2>5, <2>6, <2>7, <2>8, <2>9, <2>10,
          <2>11, <2>12, <2>13, <2>14, <2>15, <2>16, <2>17, <2>18 DEF Worker
<1>2. CASE MainThread
  <2>1. CASE ActivateWorker
    BY <2>1, CountsTyped
    DEF TypeOK, MutexInv, NoLostWakeup, ActivateWorker, Activate, MainGoto,
            sharedVars, workerVars, mainVars, history
  <2>2. CASE CreateWorker
    BY <2>2, CountsTyped
    DEF TypeOK, MutexInv, NoLostWakeup, CreateWorker, MainGoto, sharedVars,
            workerVars, mainVars, history
  <2>3. CASE CreateFails
    BY <2>3, CountsTyped
    DEF TypeOK, MutexInv, NoLostWakeup, CreateFails, Deactivate, MainGoto,
            sharedVars, workerVars, mainVars, history
  <2>4. CASE LockEvent
    BY <2>4, CountsTyped
    DEF TypeOK, MutexInv, NoLostWakeup, LockEvent, MainGoto, sharedVars,
            workerVars, mainVars, history
  <2>5. CASE TestActive
    BY <2>5, CountsTyped
    DEF TypeOK, MutexInv, NoLostWakeup, TestActive, MainGoto, sharedVars,
            workerVars, mainVars, history
  <2>6. CASE PollInterrupt
    BY <2>6, CountsTyped
    DEF TypeOK, MutexInv, NoLostWakeup, PollInterrupt, NoticeInterrupt, MainGoto,
            sharedVars, workerVars, mainVars, history
  <2>7. CASE WatchDrain
    BY <2>7, CountsTyped
    DEF TypeOK, MutexInv, NoLostWakeup, WatchDrain, DrainSolutions, MainGoto,
            sharedVars, workerVars, mainVars, history
  <2>8. CASE RecheckActive
    BY <2>8, CountsTyped
    DEF TypeOK, MutexInv, NoLostWakeup, RecheckActive, MainGoto, sharedVars,
            workerVars, mainVars, history
  <2>9. CASE StartWait
    BY <2>9, CountsTyped
    DEF TypeOK, MutexInv, NoLostWakeup, StartWait, MainGoto, sharedVars,
            workerVars, mainVars, history
  <2>10. CASE WaitExpires
    BY <2>10, CountsTyped
    DEF TypeOK, MutexInv, NoLostWakeup, WaitExpires, MainGoto, sharedVars,
            workerVars, mainVars, history
  <2>11. CASE JoinWorkers
    BY <2>11, CountsTyped
    DEF TypeOK, MutexInv, NoLostWakeup, JoinWorkers, DrainSolutions, Joined,
            MainGoto, sharedVars, workerVars, mainVars, history
  <2>12. CASE CheckErrors
    BY <2>12, CountsTyped
    DEF TypeOK, MutexInv, NoLostWakeup, CheckErrors, MainGoto, sharedVars,
            workerVars, mainVars, history
  <2>13. CASE CheckUnfinished
    BY <2>13, CountsTyped
    DEF TypeOK, MutexInv, NoLostWakeup, CheckUnfinished, LimitReached, MainGoto,
            sharedVars, workerVars, mainVars, history
  <2>14. CASE Report
    BY <2>14, CountsTyped
    DEF TypeOK, MutexInv, NoLostWakeup, Report, LimitReached, MainGoto,
            sharedVars, workerVars, mainVars, history
  <2>15. CASE Exit
    BY <2>15, CountsTyped
    DEF TypeOK, MutexInv, NoLostWakeup, Exit, MainGoto, sharedVars, workerVars,
            mainVars, history
  <2> QED BY <1>2, <2>1, <2>2, <2>3, <2>4, <2>5, <2>6, <2>7, <2>8, <2>9, <2>10,
          <2>11, <2>12, <2>13, <2>14, <2>15 DEF MainThread
<1>3. CASE Interrupt
  BY <1>3, CountsTyped
  DEF TypeOK, MutexInv, NoLostWakeup, Interrupt, MainGoto, sharedVars, workerVars,
          mainVars, history
<1>4. CASE UNCHANGED vars
  BY <1>4, CountsTyped
  DEF TypeOK, MutexInv, NoLostWakeup, vars, sharedVars, workerVars, mainVars, history
<1> QED BY <1>1, <1>2, <1>3, <1>4 DEF Next

(* A worker stays within its job.                                          *)
LEMMA PlaceStep ==
    ASSUME TypeOK, PlaceInv, CreationInv, [Next]_vars
    PROVE  PlaceInv'
<1>1. ASSUME NEW w \in Workers, Worker(w) PROVE PlaceInv'
  <2>1. CASE CheckStop(w)
    BY <2>1, CountsTyped
    DEF TypeOK, PlaceInv, Place, InJob, Searching, Recording, JobOf, CheckStop,
            Goto, sharedVars, workerVars, mainVars, history
  <2>2. CASE ClaimJob(w)
    <3>1. ASSUME NEW v \in Workers, v # w PROVE Place(v)'
      BY <2>2, <3>1 DEF TypeOK, PlaceInv, Place, InJob, Searching, Recording,
              JobOf, ClaimJob, Ticket, Goto, sharedVars, workerVars, mainVars,
              history
    <3>2. Place(w)'
      <4>1. CASE nextJob >= JobCount
        BY <2>2, <4>1 DEF TypeOK, PlaceInv, Place, InJob, Searching,
                Recording, JobOf, ClaimJob, Ticket, Goto
      <4>2. CASE nextJob < JobCount
        <5>1. nextJob \in Jobs /\ jobOrder[nextJob] \in Jobs
          BY <4>2, CountsTyped DEF TypeOK, Jobs
        <5>2. /\ pc'[w] = "nextPrefix" /\ slot'[w] = nextJob /\ jobOrder' = jobOrder
              /\ prefix'[w] = RangeBegin(PrefixCount, JobCount, jobOrder[nextJob])
          BY <2>2, <4>2, CountsTyped DEF TypeOK, ClaimJob, Ticket, Goto
        <5> QED BY <5>1, <5>2, JobRangeTyped DEF Place, JobOf, Searching, Recording
      <4> QED BY <4>1, <4>2, CountsTyped DEF TypeOK
    <3> QED BY <3>1, <3>2 DEF PlaceInv
  <2>3. CASE NextPrefix(w)
    <3>1. ASSUME NEW v \in Workers, v # w PROVE Place(v)'
      BY <2>3, <3>1 DEF TypeOK, PlaceInv, Place, InJob, Searching, Recording,
              JobOf, NextPrefix, Goto, sharedVars, workerVars, mainVars, history
    <3>2. Place(w)'
      <4>1. /\ slot[w] \in Jobs /\ JobOf(w) \in Jobs /\ JobOf(w)' = JobOf(w)
            /\ prefix[w] \in Nat /\ prefix' = prefix /\ slot' = slot
            /\ RangeBegin(PrefixCount, JobCount, JobOf(w)) <= prefix[w]
            /\ prefix[w] <= RangeEnd(PrefixCount, JobCount, JobOf(w))
        BY <2>3 DEF TypeOK, PlaceInv, Place, InJob, Searching, Recording,
                JobOf, NextPrefix, sharedVars
      <4>2. RangeEnd(PrefixCount, JobCount, JobOf(w)) \in Nat
        BY <4>1, JobRangeTyped
      <4>3. CASE prefix[w] < RangeEnd(PrefixCount, JobCount, JobOf(w))
        <5>1. pc'[w] = "search" /\ leaf'[w] = 0
          BY <2>3, <4>3 DEF TypeOK, NextPrefix, Goto
        <5>2. prefix[w] \in Prefixes
          BY <4>1, <4>3, JobRangeTyped DEF Prefixes
        <5>3. 0 <= Len(Leaves[prefix[w]])
          BY <5>2
        <5> QED BY <4>1, <4>3, <5>1, <5>3 DEF Place, Recording
      <4>4. CASE prefix[w] >= RangeEnd(PrefixCount, JobCount, JobOf(w))
        <5>1. pc'[w] = "count"
          BY <2>3, <4>1, <4>2, <4>4 DEF TypeOK, NextPrefix, Goto
        <5>2. prefix[w] = RangeEnd(PrefixCount, JobCount, JobOf(w))
          BY <4>1, <4>2, <4>4
        <5> QED BY <4>1, <5>1, <5>2 DEF Place, Recording, Searching
      <4> QED BY <4>1, <4>2, <4>3, <4>4
    <3> QED BY <3>1, <3>2 DEF PlaceInv
  <2>4. CASE CountJob(w)
    BY <2>4, CountsTyped
    DEF TypeOK, PlaceInv, Place, InJob, Searching, Recording, JobOf, CountJob,
            Goto, sharedVars, workerVars, mainVars, history
  <2>5. CASE VisitLeaf(w)
    <3>1. ASSUME NEW v \in Workers, v # w PROVE Place(v)'
      BY <2>5, <3>1 DEF TypeOK, PlaceInv, Place, InJob, Searching, Recording,
              JobOf, VisitLeaf, Goto, sharedVars, workerVars, mainVars, history
    <3>2. Place(w)'
      <4>1. Len(Leaves[prefix[w]]) \in Nat
        BY <2>5, PrefixTyped DEF VisitLeaf, Searching
      <4> QED BY <2>5, <4>1 DEF TypeOK, PlaceInv, Place, InJob, Searching,
              Recording, JobOf, VisitLeaf, Goto, sharedVars, workerVars,
              mainVars, history
    <3> QED BY <3>1, <3>2 DEF PlaceInv
  <2>6. CASE PollStop(w)
    BY <2>6, CountsTyped
    DEF TypeOK, PlaceInv, Place, InJob, Searching, Recording, JobOf, PollStop,
            Goto, sharedVars, workerVars, mainVars, history
  <2>7. CASE HitNodeLimit(w)
    BY <2>7, CountsTyped
    DEF TypeOK, PlaceInv, Place, InJob, Searching, Recording, JobOf, HitNodeLimit,
            StopAtNodeLimit, Goto, sharedVars, workerVars, mainVars, history
  <2>8. CASE FinishPrefix(w)
    BY <2>8, CountsTyped
    DEF TypeOK, PlaceInv, Place, InJob, Searching, Recording, JobOf, FinishPrefix,
            Goto, sharedVars, workerVars, mainVars, history
  <2>9. CASE LeavePrefix(w)
    <3>1. ASSUME NEW v \in Workers, v # w PROVE Place(v)'
      BY <2>9, <3>1 DEF TypeOK, PlaceInv, Place, InJob, Searching, Recording,
              JobOf, LeavePrefix, ShouldStop, Goto, sharedVars, workerVars,
              mainVars, history
    <3>2. Place(w)'
      <4>1. /\ slot[w] \in Jobs /\ JobOf(w) \in Jobs /\ JobOf(w)' = JobOf(w)
            /\ prefix[w] \in Nat /\ slot' = slot
            /\ RangeBegin(PrefixCount, JobCount, JobOf(w)) <= prefix[w]
            /\ prefix[w] < RangeEnd(PrefixCount, JobCount, JobOf(w))
        BY <2>9 DEF TypeOK, PlaceInv, Place, InJob, Searching, Recording,
                JobOf, LeavePrefix, sharedVars
      <4>2. /\ RangeEnd(PrefixCount, JobCount, JobOf(w)) \in Nat
            /\ RangeBegin(PrefixCount, JobCount, JobOf(w)) \in Nat
        BY <4>1, JobRangeTyped
      <4>3. CASE ShouldStop(w)
        BY <2>9, <4>3 DEF TypeOK, PlaceInv, Place, InJob, Searching,
                Recording, JobOf, LeavePrefix, Goto
      <4>4. CASE ~ShouldStop(w)
        <5>1. pc'[w] = "nextPrefix" /\ prefix'[w] = prefix[w] + 1
          BY <2>9, <4>4 DEF TypeOK, LeavePrefix, Goto
        <5> QED BY <4>1, <4>2, <5>1 DEF Place, Recording, Searching
      <4> QED BY <4>3, <4>4
    <3> QED BY <3>1, <3>2 DEF PlaceInv
  <2>10. CASE AllocFails(w)
    BY <2>10, CountsTyped
    DEF TypeOK, PlaceInv, Place, InJob, Searching, Recording, JobOf, AllocFails,
            Goto, sharedVars, workerVars, mainVars, history
  <2>11. CASE RememberExtension(w)
    BY <2>11, CountsTyped
    DEF TypeOK, PlaceInv, Place, InJob, Searching, Recording, JobOf,
            RememberExtension, Known, Goto, sharedVars, workerVars, mainVars,
            history
  <2>12. CASE LoadCount(w)
    BY <2>12, CountsTyped
    DEF TypeOK, PlaceInv, Place, InJob, Searching, Recording, JobOf, LoadCount,
            Goto, sharedVars, workerVars, mainVars, history
  <2>13. CASE ReserveRefused(w)
    BY <2>13, CountsTyped
    DEF TypeOK, PlaceInv, Place, InJob, Searching, Recording, JobOf,
            ReserveRefused, AtLimit, Goto, sharedVars, workerVars, mainVars,
            history
  <2>14. CASE CompareExchange(w)
    BY <2>14, CountsTyped, SMTT(30)
    DEF TypeOK, PlaceInv, Place, InJob, Searching, Recording, JobOf,
            CompareExchange, Unchanged, AtLimit, Goto, sharedVars, workerVars,
            mainVars, history
  <2>15. CASE Enqueue(w)
    BY <2>15, CountsTyped, SMTT(30)
    DEF TypeOK, PlaceInv, Place, InJob, Searching, Recording, JobOf, Enqueue,
            Goto, sharedVars, workerVars, mainVars, history
  <2>16. CASE NotifyWatcher(w)
    BY <2>16, CountsTyped
    DEF TypeOK, PlaceInv, Place, InJob, Searching, Recording, JobOf,
            NotifyWatcher, WakeWatcher, Goto, sharedVars, workerVars, mainVars,
            history
  <2>17. CASE ReachLimit(w)
    BY <2>17, CountsTyped
    DEF TypeOK, PlaceInv, Place, InJob, Searching, Recording, JobOf, ReachLimit,
            AtLimit, Goto, sharedVars, workerVars, mainVars, history
  <2>18. CASE Retire(w)
    BY <2>18, CountsTyped
    DEF TypeOK, PlaceInv, Place, InJob, Searching, Recording, JobOf, Retire,
            WakeWatcher, Deactivate, Goto, sharedVars, workerVars, mainVars,
            history
  <2> QED BY <1>1, <2>1, <2>2, <2>3, <2>4, <2>5, <2>6, <2>7, <2>8, <2>9, <2>10,
          <2>11, <2>12, <2>13, <2>14, <2>15, <2>16, <2>17, <2>18 DEF Worker
<1>2. CASE MainThread
  <2>1. CASE ActivateWorker
    BY <2>1, CountsTyped
    DEF TypeOK, PlaceInv, Place, InJob, Searching, Recording, JobOf,
            ActivateWorker, Activate, MainGoto, sharedVars, workerVars, mainVars,
            history
  <2>2. CASE CreateWorker
    BY <2>2, CountsTyped
    DEF TypeOK, PlaceInv, Place, InJob, Searching, Recording, JobOf, CreateWorker,
            MainGoto, CreationInv, Workers, sharedVars, workerVars, mainVars,
            history
  <2>3. CASE CreateFails
    BY <2>3, CountsTyped
    DEF TypeOK, PlaceInv, Place, InJob, Searching, Recording, JobOf, CreateFails,
            Deactivate, MainGoto, sharedVars, workerVars, mainVars, history
  <2>4. CASE LockEvent
    BY <2>4, CountsTyped
    DEF TypeOK, PlaceInv, Place, InJob, Searching, Recording, JobOf, LockEvent,
            MainGoto, sharedVars, workerVars, mainVars, history
  <2>5. CASE TestActive
    BY <2>5, CountsTyped
    DEF TypeOK, PlaceInv, Place, InJob, Searching, Recording, JobOf, TestActive,
            MainGoto, sharedVars, workerVars, mainVars, history
  <2>6. CASE PollInterrupt
    BY <2>6, CountsTyped
    DEF TypeOK, PlaceInv, Place, InJob, Searching, Recording, JobOf,
            PollInterrupt, NoticeInterrupt, MainGoto, sharedVars, workerVars,
            mainVars, history
  <2>7. CASE WatchDrain
    BY <2>7, CountsTyped
    DEF TypeOK, PlaceInv, Place, InJob, Searching, Recording, JobOf, WatchDrain,
            DrainSolutions, MainGoto, sharedVars, workerVars, mainVars, history
  <2>8. CASE RecheckActive
    BY <2>8, CountsTyped
    DEF TypeOK, PlaceInv, Place, InJob, Searching, Recording, JobOf,
            RecheckActive, MainGoto, sharedVars, workerVars, mainVars, history
  <2>9. CASE StartWait
    BY <2>9, CountsTyped
    DEF TypeOK, PlaceInv, Place, InJob, Searching, Recording, JobOf, StartWait,
            MainGoto, sharedVars, workerVars, mainVars, history
  <2>10. CASE WaitExpires
    BY <2>10, CountsTyped
    DEF TypeOK, PlaceInv, Place, InJob, Searching, Recording, JobOf, WaitExpires,
            MainGoto, sharedVars, workerVars, mainVars, history
  <2>11. CASE JoinWorkers
    BY <2>11, CountsTyped
    DEF TypeOK, PlaceInv, Place, InJob, Searching, Recording, JobOf, JoinWorkers,
            DrainSolutions, Joined, MainGoto, sharedVars, workerVars, mainVars,
            history
  <2>12. CASE CheckErrors
    BY <2>12, CountsTyped
    DEF TypeOK, PlaceInv, Place, InJob, Searching, Recording, JobOf, CheckErrors,
            MainGoto, sharedVars, workerVars, mainVars, history
  <2>13. CASE CheckUnfinished
    BY <2>13, CountsTyped
    DEF TypeOK, PlaceInv, Place, InJob, Searching, Recording, JobOf,
            CheckUnfinished, LimitReached, MainGoto, sharedVars, workerVars,
            mainVars, history
  <2>14. CASE Report
    BY <2>14, CountsTyped
    DEF TypeOK, PlaceInv, Place, InJob, Searching, Recording, JobOf, Report,
            LimitReached, MainGoto, sharedVars, workerVars, mainVars, history
  <2>15. CASE Exit
    BY <2>15, CountsTyped
    DEF TypeOK, PlaceInv, Place, InJob, Searching, Recording, JobOf, Exit,
            MainGoto, sharedVars, workerVars, mainVars, history
  <2> QED BY <1>2, <2>1, <2>2, <2>3, <2>4, <2>5, <2>6, <2>7, <2>8, <2>9, <2>10,
          <2>11, <2>12, <2>13, <2>14, <2>15 DEF MainThread
<1>3. CASE Interrupt
  BY <1>3, CountsTyped
  DEF TypeOK, PlaceInv, Place, InJob, Searching, Recording, JobOf, Interrupt,
          MainGoto, sharedVars, workerVars, mainVars, history
<1>4. CASE UNCHANGED vars
  BY <1>4, CountsTyped
  DEF TypeOK, PlaceInv, Place, InJob, Searching, Recording, JobOf, vars, sharedVars,
          workerVars, mainVars, history
<1> QED BY <1>1, <1>2, <1>3, <1>4 DEF Next

(* Only a successful compare-and-exchange gives a number, the next one.     *)
LEMMA NumbersStep ==
    ASSUME TypeOK, NumbersAreDense, [Next]_vars
    PROVE  NumbersAreDense'
<1>1. ASSUME NEW w \in Workers, Worker(w) PROVE NumbersAreDense'
  <2>1. CASE CheckStop(w)
    BY <2>1
    DEF NumbersAreDense, CheckStop, Goto, sharedVars, workerVars, mainVars, history
  <2>2. CASE ClaimJob(w)
    BY <2>2
    DEF NumbersAreDense, ClaimJob, Ticket, Goto, sharedVars, workerVars, mainVars,
            history
  <2>3. CASE NextPrefix(w)
    BY <2>3
    DEF NumbersAreDense, NextPrefix, Goto, sharedVars, workerVars, mainVars, history
  <2>4. CASE CountJob(w)
    BY <2>4
    DEF NumbersAreDense, CountJob, Goto, sharedVars, workerVars, mainVars, history
  <2>5. CASE VisitLeaf(w)
    BY <2>5
    DEF NumbersAreDense, VisitLeaf, Goto, sharedVars, workerVars, mainVars, history
  <2>6. CASE PollStop(w)
    BY <2>6
    DEF NumbersAreDense, PollStop, Goto, sharedVars, workerVars, mainVars, history
  <2>7. CASE HitNodeLimit(w)
    BY <2>7
    DEF NumbersAreDense, HitNodeLimit, StopAtNodeLimit, Goto, sharedVars,
            workerVars, mainVars, history
  <2>8. CASE FinishPrefix(w)
    BY <2>8
    DEF NumbersAreDense, FinishPrefix, Goto, sharedVars, workerVars, mainVars, history
  <2>9. CASE LeavePrefix(w)
    BY <2>9
    DEF NumbersAreDense, LeavePrefix, ShouldStop, Goto, sharedVars, workerVars,
            mainVars, history
  <2>10. CASE AllocFails(w)
    BY <2>10
    DEF NumbersAreDense, AllocFails, Goto, sharedVars, workerVars, mainVars, history
  <2>11. CASE RememberExtension(w)
    BY <2>11
    DEF NumbersAreDense, RememberExtension, Known, Goto, sharedVars, workerVars,
            mainVars, history
  <2>12. CASE LoadCount(w)
    BY <2>12
    DEF NumbersAreDense, LoadCount, Goto, sharedVars, workerVars, mainVars, history
  <2>13. CASE ReserveRefused(w)
    BY <2>13
    DEF NumbersAreDense, ReserveRefused, AtLimit, Goto, sharedVars, workerVars,
            mainVars, history
  <2>14. CASE CompareExchange(w)
    <3>1. CASE Unchanged(w)
      <4> DEFINE r == [number |-> configurations + 1, encoding |-> Found(w)]
      <4>1. configurations' = configurations + 1 /\ numbering' = numbering \union {r}
        BY <2>14, <3>1 DEF CompareExchange, Unchanged
      <4>2. r.number = configurations + 1
        OBVIOUS
      <4>3. \A s \in numbering : s.number \in 1 .. configurations
        BY DEF NumbersAreDense
      <4> HIDE DEF r
      <4>4. {s.number : s \in numbering'} = 1 .. configurations'
        <5>1. {s.number : s \in numbering'}
                  = {s.number : s \in numbering} \union {configurations + 1}
          BY <4>1, <4>2
        <5>2. {s.number : s \in numbering} = 1 .. configurations
          BY DEF NumbersAreDense
        <5>3. (1 .. configurations) \union {configurations + 1} = 1 .. configurations + 1
          BY DEF TypeOK
        <5> QED BY <4>1, <5>1, <5>2, <5>3
      <4>5. ASSUME NEW s \in numbering', NEW t \in numbering', s.number = t.number
            PROVE  s = t
        BY <4>1, <4>2, <4>3, <4>5 DEF NumbersAreDense, TypeOK
      <4> QED BY <4>4, <4>5 DEF NumbersAreDense
    <3>2. CASE ~Unchanged(w)
      BY <2>14, <3>2 DEF CompareExchange, NumbersAreDense
    <3> QED BY <3>1, <3>2
  <2>15. CASE Enqueue(w)
    BY <2>15
    DEF NumbersAreDense, Enqueue, Goto, sharedVars, workerVars, mainVars, history
  <2>16. CASE NotifyWatcher(w)
    BY <2>16
    DEF NumbersAreDense, NotifyWatcher, WakeWatcher, Goto, sharedVars, workerVars,
            mainVars, history
  <2>17. CASE ReachLimit(w)
    BY <2>17
    DEF NumbersAreDense, ReachLimit, AtLimit, Goto, sharedVars, workerVars,
            mainVars, history
  <2>18. CASE Retire(w)
    BY <2>18
    DEF NumbersAreDense, Retire, WakeWatcher, Deactivate, Goto, sharedVars,
            workerVars, mainVars, history
  <2> QED BY <1>1, <2>1, <2>2, <2>3, <2>4, <2>5, <2>6, <2>7, <2>8, <2>9, <2>10,
          <2>11, <2>12, <2>13, <2>14, <2>15, <2>16, <2>17, <2>18 DEF Worker
<1>2. CASE MainThread
  <2>1. CASE ActivateWorker
    BY <2>1
    DEF NumbersAreDense, ActivateWorker, Activate, MainGoto, sharedVars,
            workerVars, mainVars, history
  <2>2. CASE CreateWorker
    BY <2>2
    DEF NumbersAreDense, CreateWorker, MainGoto, sharedVars, workerVars, mainVars,
            history
  <2>3. CASE CreateFails
    BY <2>3
    DEF NumbersAreDense, CreateFails, Deactivate, MainGoto, sharedVars,
            workerVars, mainVars, history
  <2>4. CASE LockEvent
    BY <2>4
    DEF NumbersAreDense, LockEvent, MainGoto, sharedVars, workerVars, mainVars, history
  <2>5. CASE TestActive
    BY <2>5
    DEF NumbersAreDense, TestActive, MainGoto, sharedVars, workerVars, mainVars, history
  <2>6. CASE PollInterrupt
    BY <2>6
    DEF NumbersAreDense, PollInterrupt, NoticeInterrupt, MainGoto, sharedVars,
            workerVars, mainVars, history
  <2>7. CASE WatchDrain
    BY <2>7
    DEF NumbersAreDense, WatchDrain, DrainSolutions, MainGoto, sharedVars,
            workerVars, mainVars, history
  <2>8. CASE RecheckActive
    BY <2>8
    DEF NumbersAreDense, RecheckActive, MainGoto, sharedVars, workerVars,
            mainVars, history
  <2>9. CASE StartWait
    BY <2>9
    DEF NumbersAreDense, StartWait, MainGoto, sharedVars, workerVars, mainVars, history
  <2>10. CASE WaitExpires
    BY <2>10
    DEF NumbersAreDense, WaitExpires, MainGoto, sharedVars, workerVars, mainVars,
            history
  <2>11. CASE JoinWorkers
    BY <2>11
    DEF NumbersAreDense, JoinWorkers, DrainSolutions, Joined, MainGoto,
            sharedVars, workerVars, mainVars, history
  <2>12. CASE CheckErrors
    BY <2>12
    DEF NumbersAreDense, CheckErrors, MainGoto, sharedVars, workerVars, mainVars,
            history
  <2>13. CASE CheckUnfinished
    BY <2>13
    DEF NumbersAreDense, CheckUnfinished, LimitReached, MainGoto, sharedVars,
            workerVars, mainVars, history
  <2>14. CASE Report
    BY <2>14
    DEF NumbersAreDense, Report, LimitReached, MainGoto, sharedVars, workerVars,
            mainVars, history
  <2>15. CASE Exit
    BY <2>15
    DEF NumbersAreDense, Exit, MainGoto, sharedVars, workerVars, mainVars, history
  <2> QED BY <1>2, <2>1, <2>2, <2>3, <2>4, <2>5, <2>6, <2>7, <2>8, <2>9, <2>10,
          <2>11, <2>12, <2>13, <2>14, <2>15 DEF MainThread
<1>3. CASE Interrupt
  BY <1>3
  DEF NumbersAreDense, Interrupt, MainGoto, sharedVars, workerVars, mainVars, history
<1>4. CASE UNCHANGED vars
  BY <1>4
  DEF NumbersAreDense, vars, sharedVars, workerVars, mainVars, history
<1> QED BY <1>1, <1>2, <1>3, <1>4 DEF Next

(* A reservation is made below the limit, from the true count.              *)
LEMMA ReservationStep ==
    ASSUME TypeOK, ReservationInv, [Next]_vars
    PROVE  ReservationInv'
<1>1. ASSUME NEW w \in Workers, Worker(w) PROVE ReservationInv'
  <2>1. CASE CheckStop(w)
    BY <2>1
    DEF TypeOK, ReservationInv, NumberedSteps, Reserved, Found, CheckStop, Goto,
            sharedVars, workerVars, mainVars, history
  <2>2. CASE ClaimJob(w)
    BY <2>2, ZenonT(30)
    DEF TypeOK, ReservationInv, NumberedSteps, Reserved, Found, ClaimJob, Ticket,
            Goto, sharedVars, workerVars, mainVars, history
  <2>3. CASE NextPrefix(w)
    BY <2>3
    DEF TypeOK, ReservationInv, NumberedSteps, Reserved, Found, NextPrefix, Goto,
            sharedVars, workerVars, mainVars, history
  <2>4. CASE CountJob(w)
    BY <2>4
    DEF TypeOK, ReservationInv, NumberedSteps, Reserved, Found, CountJob, Goto,
            sharedVars, workerVars, mainVars, history
  <2>5. CASE VisitLeaf(w)
    BY <2>5
    DEF TypeOK, ReservationInv, NumberedSteps, Reserved, Found, VisitLeaf, Goto,
            sharedVars, workerVars, mainVars, history
  <2>6. CASE PollStop(w)
    BY <2>6
    DEF TypeOK, ReservationInv, NumberedSteps, Reserved, Found, PollStop, Goto,
            sharedVars, workerVars, mainVars, history
  <2>7. CASE HitNodeLimit(w)
    BY <2>7
    DEF TypeOK, ReservationInv, NumberedSteps, Reserved, Found, HitNodeLimit,
            StopAtNodeLimit, Goto, sharedVars, workerVars, mainVars, history
  <2>8. CASE FinishPrefix(w)
    BY <2>8
    DEF TypeOK, ReservationInv, NumberedSteps, Reserved, Found, FinishPrefix,
            Goto, sharedVars, workerVars, mainVars, history
  <2>9. CASE LeavePrefix(w)
    BY <2>9, ZenonT(30)
    DEF TypeOK, ReservationInv, NumberedSteps, Reserved, Found, LeavePrefix,
            ShouldStop, Goto, sharedVars, workerVars, mainVars, history
  <2>10. CASE AllocFails(w)
    BY <2>10
    DEF TypeOK, ReservationInv, NumberedSteps, Reserved, Found, AllocFails, Goto,
            sharedVars, workerVars, mainVars, history
  <2>11. CASE RememberExtension(w)
    BY <2>11
    DEF TypeOK, ReservationInv, NumberedSteps, Reserved, Found, RememberExtension,
            Known, Goto, sharedVars, workerVars, mainVars, history
  <2>12. CASE LoadCount(w)
    BY <2>12
    DEF TypeOK, ReservationInv, NumberedSteps, Reserved, Found, LoadCount, Goto,
            sharedVars, workerVars, mainVars, history
  <2>13. CASE ReserveRefused(w)
    BY <2>13
    DEF TypeOK, ReservationInv, NumberedSteps, Reserved, Found, ReserveRefused,
            AtLimit, Goto, sharedVars, workerVars, mainVars, history
  <2>14. CASE CompareExchange(w)
    <3>1. ASSUME NEW v \in Workers, v # w PROVE Reserved(v)'
      <4>1. pc'[v] = pc[v] /\ current'[v] = current[v]
        BY <2>14, <3>1 DEF TypeOK, CompareExchange, Goto
      <4>2. Found(v)' = Found(v)
        BY <2>14 DEF CompareExchange, Found
      <4>3. /\ configurations \in Nat /\ configurations' \in Nat
            /\ configurations <= configurations' /\ current[v] \in Nat
        BY <2>14, SMTT(30) DEF TypeOK, CompareExchange, Unchanged
      <4>4. numbering \subseteq numbering'
        BY <2>14 DEF CompareExchange
      <4>5. Reserved(v)
        BY DEF ReservationInv
      <4> HIDE DEF Found
      <4> QED BY <4>1, <4>2, <4>3, <4>4, <4>5 DEF Reserved
    <3>2. Reserved(w)'
      <4>1. CASE Unchanged(w)
        <5>1. /\ configurations' = configurations + 1 /\ current'[w] = configurations'
              /\ numbering' = numbering \union
                     {[number |-> configurations + 1, encoding |-> Found(w)]}
              /\ Found(w)' = Found(w) /\ pc'[w] = "enqueue"
          BY <2>14, <4>1 DEF TypeOK, CompareExchange, Unchanged, Goto, Found
        <5> HIDE DEF Found
        <5> QED BY <5>1 DEF Reserved
      <4>2. CASE ~Unchanged(w)
        <5>1. /\ configurations' = configurations /\ current'[w] = configurations
              /\ pc'[w] = "cas"
          BY <2>14, <4>2 DEF TypeOK, CompareExchange
        <5> QED BY <5>1 DEF TypeOK, Reserved, NumberedSteps
      <4> QED BY <4>1, <4>2
    <3>3. (Limit # 0 => configurations <= Limit)'
      BY <2>14 DEF TypeOK, ReservationInv, CompareExchange, Unchanged, AtLimit
    <3> QED BY <3>1, <3>2, <3>3 DEF ReservationInv
  <2>15. CASE Enqueue(w)
    BY <2>15
    DEF TypeOK, ReservationInv, NumberedSteps, Reserved, Found, Enqueue, Goto,
            sharedVars, workerVars, mainVars, history
  <2>16. CASE NotifyWatcher(w)
    BY <2>16
    DEF TypeOK, ReservationInv, NumberedSteps, Reserved, Found, NotifyWatcher,
            WakeWatcher, Goto, sharedVars, workerVars, mainVars, history
  <2>17. CASE ReachLimit(w)
    BY <2>17
    DEF TypeOK, ReservationInv, NumberedSteps, Reserved, Found, ReachLimit,
            AtLimit, Goto, sharedVars, workerVars, mainVars, history
  <2>18. CASE Retire(w)
    BY <2>18
    DEF TypeOK, ReservationInv, NumberedSteps, Reserved, Found, Retire,
            WakeWatcher, Deactivate, Goto, sharedVars, workerVars, mainVars,
            history
  <2> QED BY <1>1, <2>1, <2>2, <2>3, <2>4, <2>5, <2>6, <2>7, <2>8, <2>9, <2>10,
          <2>11, <2>12, <2>13, <2>14, <2>15, <2>16, <2>17, <2>18 DEF Worker
<1>2. CASE MainThread
  <2>1. CASE ActivateWorker
    BY <2>1
    DEF TypeOK, ReservationInv, NumberedSteps, Reserved, Found, ActivateWorker,
            Activate, MainGoto, sharedVars, workerVars, mainVars, history
  <2>2. CASE CreateWorker
    BY <2>2
    DEF TypeOK, ReservationInv, NumberedSteps, Reserved, Found, CreateWorker,
            MainGoto, sharedVars, workerVars, mainVars, history
  <2>3. CASE CreateFails
    BY <2>3
    DEF TypeOK, ReservationInv, NumberedSteps, Reserved, Found, CreateFails,
            Deactivate, MainGoto, sharedVars, workerVars, mainVars, history
  <2>4. CASE LockEvent
    BY <2>4
    DEF TypeOK, ReservationInv, NumberedSteps, Reserved, Found, LockEvent,
            MainGoto, sharedVars, workerVars, mainVars, history
  <2>5. CASE TestActive
    BY <2>5
    DEF TypeOK, ReservationInv, NumberedSteps, Reserved, Found, TestActive,
            MainGoto, sharedVars, workerVars, mainVars, history
  <2>6. CASE PollInterrupt
    BY <2>6
    DEF TypeOK, ReservationInv, NumberedSteps, Reserved, Found, PollInterrupt,
            NoticeInterrupt, MainGoto, sharedVars, workerVars, mainVars, history
  <2>7. CASE WatchDrain
    BY <2>7
    DEF TypeOK, ReservationInv, NumberedSteps, Reserved, Found, WatchDrain,
            DrainSolutions, MainGoto, sharedVars, workerVars, mainVars, history
  <2>8. CASE RecheckActive
    BY <2>8
    DEF TypeOK, ReservationInv, NumberedSteps, Reserved, Found, RecheckActive,
            MainGoto, sharedVars, workerVars, mainVars, history
  <2>9. CASE StartWait
    BY <2>9
    DEF TypeOK, ReservationInv, NumberedSteps, Reserved, Found, StartWait,
            MainGoto, sharedVars, workerVars, mainVars, history
  <2>10. CASE WaitExpires
    BY <2>10
    DEF TypeOK, ReservationInv, NumberedSteps, Reserved, Found, WaitExpires,
            MainGoto, sharedVars, workerVars, mainVars, history
  <2>11. CASE JoinWorkers
    BY <2>11
    DEF TypeOK, ReservationInv, NumberedSteps, Reserved, Found, JoinWorkers,
            DrainSolutions, Joined, MainGoto, sharedVars, workerVars, mainVars,
            history
  <2>12. CASE CheckErrors
    BY <2>12
    DEF TypeOK, ReservationInv, NumberedSteps, Reserved, Found, CheckErrors,
            MainGoto, sharedVars, workerVars, mainVars, history
  <2>13. CASE CheckUnfinished
    BY <2>13
    DEF TypeOK, ReservationInv, NumberedSteps, Reserved, Found, CheckUnfinished,
            LimitReached, MainGoto, sharedVars, workerVars, mainVars, history
  <2>14. CASE Report
    BY <2>14
    DEF TypeOK, ReservationInv, NumberedSteps, Reserved, Found, Report,
            LimitReached, MainGoto, sharedVars, workerVars, mainVars, history
  <2>15. CASE Exit
    BY <2>15
    DEF TypeOK, ReservationInv, NumberedSteps, Reserved, Found, Exit, MainGoto,
            sharedVars, workerVars, mainVars, history
  <2> QED BY <1>2, <2>1, <2>2, <2>3, <2>4, <2>5, <2>6, <2>7, <2>8, <2>9, <2>10,
          <2>11, <2>12, <2>13, <2>14, <2>15 DEF MainThread
<1>3. CASE Interrupt
  BY <1>3
  DEF TypeOK, ReservationInv, NumberedSteps, Reserved, Found, Interrupt, MainGoto,
          sharedVars, workerVars, mainVars, history
<1>4. CASE UNCHANGED vars
  BY <1>4
  DEF TypeOK, ReservationInv, NumberedSteps, Reserved, Found, vars, sharedVars,
          workerVars, mainVars, history
<1> QED BY <1>1, <1>2, <1>3, <1>4 DEF Next

(* A fresh ticket is no other worker's slot and no finished one.            *)
LEMMA ExclusiveStep ==
    ASSUME TypeOK, JobExclusive, TicketInv, [Next]_vars
    PROVE  JobExclusive'
<1>1. ASSUME NEW w \in Workers, Worker(w) PROVE JobExclusive'
  <2>1. CASE CheckStop(w)
    BY <2>1, CountsTyped
    DEF TypeOK, JobExclusive, TicketInv, InJob, CheckStop, Goto, sharedVars,
            workerVars, mainVars, history
  <2>2. CASE ClaimJob(w)
    <3>1. CASE nextJob >= JobCount
      BY <2>2, <3>1, SMTT(30) DEF TypeOK, JobExclusive, InJob, ClaimJob, Ticket, Goto, history
    <3>2. CASE ~(nextJob >= JobCount)
      <4>1. /\ pc' = [pc EXCEPT ![w] = "nextPrefix"] /\ completed' = completed
            /\ slot' = [slot EXCEPT ![w] = nextJob]
        BY <2>2, <3>2 DEF ClaimJob, Ticket, Goto, history
      <4>2. /\ \A v \in Workers : pc[v] \in InJob => slot[v] # nextJob
            /\ nextJob \notin completed
        BY DEF TicketInv, TypeOK
      <4> QED BY <4>1, <4>2 DEF TypeOK, JobExclusive, InJob
    <3> QED BY <3>1, <3>2
  <2>3. CASE NextPrefix(w)
    BY <2>3, CountsTyped
    DEF TypeOK, JobExclusive, TicketInv, InJob, NextPrefix, Goto, sharedVars,
            workerVars, mainVars, history
  <2>4. CASE CountJob(w)
    BY <2>4, CountsTyped
    DEF TypeOK, JobExclusive, TicketInv, InJob, CountJob, Goto, sharedVars,
            workerVars, mainVars, history
  <2>5. CASE VisitLeaf(w)
    BY <2>5, CountsTyped
    DEF TypeOK, JobExclusive, TicketInv, InJob, VisitLeaf, Goto, sharedVars,
            workerVars, mainVars, history
  <2>6. CASE PollStop(w)
    BY <2>6, CountsTyped
    DEF TypeOK, JobExclusive, TicketInv, InJob, PollStop, Goto, sharedVars,
            workerVars, mainVars, history
  <2>7. CASE HitNodeLimit(w)
    BY <2>7, CountsTyped
    DEF TypeOK, JobExclusive, TicketInv, InJob, HitNodeLimit, StopAtNodeLimit,
            Goto, sharedVars, workerVars, mainVars, history
  <2>8. CASE FinishPrefix(w)
    BY <2>8, CountsTyped
    DEF TypeOK, JobExclusive, TicketInv, InJob, FinishPrefix, Goto, sharedVars,
            workerVars, mainVars, history
  <2>9. CASE LeavePrefix(w)
    BY <2>9, CountsTyped, ZenonT(30)
    DEF TypeOK, JobExclusive, TicketInv, InJob, LeavePrefix, ShouldStop, Goto,
            sharedVars, workerVars, mainVars, history
  <2>10. CASE AllocFails(w)
    BY <2>10, CountsTyped
    DEF TypeOK, JobExclusive, TicketInv, InJob, AllocFails, Goto, sharedVars,
            workerVars, mainVars, history
  <2>11. CASE RememberExtension(w)
    BY <2>11, CountsTyped, ZenonT(30)
    DEF TypeOK, JobExclusive, TicketInv, InJob, RememberExtension, Known, Goto,
            sharedVars, workerVars, mainVars, history
  <2>12. CASE LoadCount(w)
    BY <2>12, CountsTyped
    DEF TypeOK, JobExclusive, TicketInv, InJob, LoadCount, Goto, sharedVars,
            workerVars, mainVars, history
  <2>13. CASE ReserveRefused(w)
    BY <2>13, CountsTyped
    DEF TypeOK, JobExclusive, TicketInv, InJob, ReserveRefused, AtLimit, Goto,
            sharedVars, workerVars, mainVars, history
  <2>14. CASE CompareExchange(w)
    BY <2>14, CountsTyped, ZenonT(30)
    DEF TypeOK, JobExclusive, TicketInv, InJob, CompareExchange, Unchanged,
            AtLimit, Goto, sharedVars, workerVars, mainVars, history
  <2>15. CASE Enqueue(w)
    BY <2>15, CountsTyped, ZenonT(30)
    DEF TypeOK, JobExclusive, TicketInv, InJob, Enqueue, Goto, sharedVars,
            workerVars, mainVars, history
  <2>16. CASE NotifyWatcher(w)
    BY <2>16, CountsTyped
    DEF TypeOK, JobExclusive, TicketInv, InJob, NotifyWatcher, WakeWatcher, Goto,
            sharedVars, workerVars, mainVars, history
  <2>17. CASE ReachLimit(w)
    BY <2>17, CountsTyped
    DEF TypeOK, JobExclusive, TicketInv, InJob, ReachLimit, AtLimit, Goto,
            sharedVars, workerVars, mainVars, history
  <2>18. CASE Retire(w)
    BY <2>18, CountsTyped
    DEF TypeOK, JobExclusive, TicketInv, InJob, Retire, WakeWatcher, Deactivate,
            Goto, sharedVars, workerVars, mainVars, history
  <2> QED BY <1>1, <2>1, <2>2, <2>3, <2>4, <2>5, <2>6, <2>7, <2>8, <2>9, <2>10,
          <2>11, <2>12, <2>13, <2>14, <2>15, <2>16, <2>17, <2>18 DEF Worker
<1>2. CASE MainThread
  <2>1. CASE ActivateWorker
    BY <2>1, CountsTyped
    DEF TypeOK, JobExclusive, TicketInv, InJob, ActivateWorker, Activate,
            MainGoto, sharedVars, workerVars, mainVars, history
  <2>2. CASE CreateWorker
    BY <2>2, CountsTyped
    DEF TypeOK, JobExclusive, TicketInv, InJob, CreateWorker, MainGoto,
            sharedVars, workerVars, mainVars, history
  <2>3. CASE CreateFails
    BY <2>3, CountsTyped
    DEF TypeOK, JobExclusive, TicketInv, InJob, CreateFails, Deactivate, MainGoto,
            sharedVars, workerVars, mainVars, history
  <2>4. CASE LockEvent
    BY <2>4, CountsTyped
    DEF TypeOK, JobExclusive, TicketInv, InJob, LockEvent, MainGoto, sharedVars,
            workerVars, mainVars, history
  <2>5. CASE TestActive
    BY <2>5, CountsTyped
    DEF TypeOK, JobExclusive, TicketInv, InJob, TestActive, MainGoto, sharedVars,
            workerVars, mainVars, history
  <2>6. CASE PollInterrupt
    BY <2>6, CountsTyped
    DEF TypeOK, JobExclusive, TicketInv, InJob, PollInterrupt, NoticeInterrupt,
            MainGoto, sharedVars, workerVars, mainVars, history
  <2>7. CASE WatchDrain
    BY <2>7, CountsTyped
    DEF TypeOK, JobExclusive, TicketInv, InJob, WatchDrain, DrainSolutions,
            MainGoto, sharedVars, workerVars, mainVars, history
  <2>8. CASE RecheckActive
    BY <2>8, CountsTyped
    DEF TypeOK, JobExclusive, TicketInv, InJob, RecheckActive, MainGoto,
            sharedVars, workerVars, mainVars, history
  <2>9. CASE StartWait
    BY <2>9, CountsTyped
    DEF TypeOK, JobExclusive, TicketInv, InJob, StartWait, MainGoto, sharedVars,
            workerVars, mainVars, history
  <2>10. CASE WaitExpires
    BY <2>10, CountsTyped
    DEF TypeOK, JobExclusive, TicketInv, InJob, WaitExpires, MainGoto, sharedVars,
            workerVars, mainVars, history
  <2>11. CASE JoinWorkers
    BY <2>11, CountsTyped
    DEF TypeOK, JobExclusive, TicketInv, InJob, JoinWorkers, DrainSolutions,
            Joined, MainGoto, sharedVars, workerVars, mainVars, history
  <2>12. CASE CheckErrors
    BY <2>12, CountsTyped
    DEF TypeOK, JobExclusive, TicketInv, InJob, CheckErrors, MainGoto, sharedVars,
            workerVars, mainVars, history
  <2>13. CASE CheckUnfinished
    BY <2>13, CountsTyped
    DEF TypeOK, JobExclusive, TicketInv, InJob, CheckUnfinished, LimitReached,
            MainGoto, sharedVars, workerVars, mainVars, history
  <2>14. CASE Report
    BY <2>14, CountsTyped
    DEF TypeOK, JobExclusive, TicketInv, InJob, Report, LimitReached, MainGoto,
            sharedVars, workerVars, mainVars, history
  <2>15. CASE Exit
    BY <2>15, CountsTyped
    DEF TypeOK, JobExclusive, TicketInv, InJob, Exit, MainGoto, sharedVars,
            workerVars, mainVars, history
  <2> QED BY <1>2, <2>1, <2>2, <2>3, <2>4, <2>5, <2>6, <2>7, <2>8, <2>9, <2>10,
          <2>11, <2>12, <2>13, <2>14, <2>15 DEF MainThread
<1>3. CASE Interrupt
  BY <1>3, CountsTyped
  DEF TypeOK, JobExclusive, TicketInv, InJob, Interrupt, MainGoto, sharedVars,
          workerVars, mainVars, history
<1>4. CASE UNCHANGED vars
  BY <1>4, CountsTyped
  DEF TypeOK, JobExclusive, TicketInv, InJob, vars, sharedVars, workerVars,
          mainVars, history
<1> QED BY <1>1, <1>2, <1>3, <1>4 DEF Next

(* Whatever stops the workers is seen by main.                              *)
LEMMA StopStep ==
    ASSUME TypeOK, CreationInv, NumbersAreDense, ReservationInv, StopInv, [Next]_vars
    PROVE  StopInv'
<1>1. ASSUME NEW w \in Workers, Worker(w) PROVE StopInv'
  <2>1. CASE CheckStop(w)
    BY <2>1, CountsTyped
    DEF TypeOK, CreationInv, StopInv, LimitReached, AtLimit, CheckStop, Goto,
            sharedVars, workerVars, mainVars, history
  <2>2. CASE ClaimJob(w)
    BY <2>2, CountsTyped
    DEF TypeOK, CreationInv, StopInv, LimitReached, AtLimit, ClaimJob, Ticket,
            Goto, sharedVars, workerVars, mainVars, history
  <2>3. CASE NextPrefix(w)
    BY <2>3, CountsTyped
    DEF TypeOK, CreationInv, StopInv, LimitReached, AtLimit, NextPrefix, Goto,
            sharedVars, workerVars, mainVars, history
  <2>4. CASE CountJob(w)
    BY <2>4, CountsTyped
    DEF TypeOK, CreationInv, StopInv, LimitReached, AtLimit, CountJob, Goto,
            sharedVars, workerVars, mainVars, history
  <2>5. CASE VisitLeaf(w)
    BY <2>5, CountsTyped
    DEF TypeOK, CreationInv, StopInv, LimitReached, AtLimit, VisitLeaf, Goto,
            sharedVars, workerVars, mainVars, history
  <2>6. CASE PollStop(w)
    BY <2>6, CountsTyped
    DEF TypeOK, CreationInv, StopInv, LimitReached, AtLimit, PollStop, Goto,
            sharedVars, workerVars, mainVars, history
  <2>7. CASE HitNodeLimit(w)
    BY <2>7, CountsTyped
    DEF TypeOK, CreationInv, StopInv, LimitReached, AtLimit, HitNodeLimit,
            StopAtNodeLimit, Goto, sharedVars, workerVars, mainVars, history
  <2>8. CASE FinishPrefix(w)
    BY <2>8, CountsTyped
    DEF TypeOK, CreationInv, StopInv, LimitReached, AtLimit, FinishPrefix, Goto,
            sharedVars, workerVars, mainVars, history
  <2>9. CASE LeavePrefix(w)
    BY <2>9, CountsTyped
    DEF TypeOK, CreationInv, StopInv, LimitReached, AtLimit, LeavePrefix,
            ShouldStop, Goto, sharedVars, workerVars, mainVars, history
  <2>10. CASE AllocFails(w)
    BY <2>10, CountsTyped
    DEF TypeOK, CreationInv, StopInv, LimitReached, AtLimit, AllocFails, Goto,
            sharedVars, workerVars, mainVars, history
  <2>11. CASE RememberExtension(w)
    BY <2>11, CountsTyped
    DEF TypeOK, CreationInv, StopInv, LimitReached, AtLimit, RememberExtension,
            Known, Goto, sharedVars, workerVars, mainVars, history
  <2>12. CASE LoadCount(w)
    BY <2>12, CountsTyped
    DEF TypeOK, CreationInv, StopInv, LimitReached, AtLimit, LoadCount, Goto,
            sharedVars, workerVars, mainVars, history
  <2>13. CASE ReserveRefused(w)
    <3>1. current[w] <= configurations /\ Limit # 0 /\ current[w] >= Limit
      BY <2>13 DEF ReserveRefused, AtLimit, ReservationInv, Reserved
    <3>2. LimitReached' /\ stop'
      BY <2>13, <3>1 DEF ReserveRefused, LimitReached, TypeOK
    <3> QED BY <2>13, <3>2 DEF StopInv, ReserveRefused, TypeOK, mainVars
  <2>14. CASE CompareExchange(w)
    BY <2>14, CountsTyped
    DEF TypeOK, CreationInv, StopInv, LimitReached, AtLimit, CompareExchange,
            Unchanged, Goto, sharedVars, workerVars, mainVars, history
  <2>15. CASE Enqueue(w)
    BY <2>15, CountsTyped
    DEF TypeOK, CreationInv, StopInv, LimitReached, AtLimit, Enqueue, Goto,
            sharedVars, workerVars, mainVars, history
  <2>16. CASE NotifyWatcher(w)
    BY <2>16, CountsTyped
    DEF TypeOK, CreationInv, StopInv, LimitReached, AtLimit, NotifyWatcher,
            WakeWatcher, Goto, sharedVars, workerVars, mainVars, history
  <2>17. CASE ReachLimit(w)
    <3>1. CASE AtLimit(current[w])
      <4>1. [number |-> current[w], encoding |-> Found(w)] \in numbering
        BY <2>17 DEF ReachLimit, ReservationInv, Reserved, NumberedSteps
      <4>2. current[w] \in 1 .. configurations
        BY <4>1 DEF NumbersAreDense
      <4>3. LimitReached' /\ stop'
        <5>1. Limit # 0 /\ current[w] >= Limit /\ configurations' = configurations
          BY <2>17, <3>1 DEF ReachLimit, AtLimit
        <5>2. LimitReached'
          BY <4>2, <5>1 DEF LimitReached, TypeOK
        <5> QED BY <2>17, <3>1, <5>2 DEF ReachLimit
      <4>4. UNCHANGED <<interrupted, nodeLimitHit, internalError, failed, mainPc, created>>
        BY <2>17 DEF ReachLimit, mainVars
      <4> QED BY <4>3, <4>4 DEF StopInv
    <3>2. CASE ~AtLimit(current[w])
      <4>1. stop' = stop
        BY <2>17, <3>2 DEF ReachLimit, TypeOK
      <4> QED BY <2>17, <4>1 DEF StopInv, ReachLimit, TypeOK, LimitReached, mainVars
    <3> QED BY <3>1, <3>2
  <2>18. CASE Retire(w)
    BY <2>18, CountsTyped
    DEF TypeOK, CreationInv, StopInv, LimitReached, AtLimit, Retire, WakeWatcher,
            Deactivate, Goto, sharedVars, workerVars, mainVars, history
  <2> QED BY <1>1, <2>1, <2>2, <2>3, <2>4, <2>5, <2>6, <2>7, <2>8, <2>9, <2>10,
          <2>11, <2>12, <2>13, <2>14, <2>15, <2>16, <2>17, <2>18 DEF Worker
<1>2. CASE MainThread
  <2>1. CASE ActivateWorker
    BY <2>1, CountsTyped
    DEF TypeOK, CreationInv, StopInv, LimitReached, AtLimit, ActivateWorker,
            Activate, MainGoto, sharedVars, workerVars, mainVars, history
  <2>2. CASE CreateWorker
    BY <2>2, CountsTyped
    DEF TypeOK, CreationInv, StopInv, LimitReached, AtLimit, CreateWorker,
            MainGoto, sharedVars, workerVars, mainVars, history
  <2>3. CASE CreateFails
    BY <2>3, CountsTyped
    DEF TypeOK, CreationInv, StopInv, LimitReached, AtLimit, CreateFails,
            Deactivate, MainGoto, sharedVars, workerVars, mainVars, history
  <2>4. CASE LockEvent
    BY <2>4, CountsTyped
    DEF TypeOK, CreationInv, StopInv, LimitReached, AtLimit, LockEvent, MainGoto,
            sharedVars, workerVars, mainVars, history
  <2>5. CASE TestActive
    BY <2>5, CountsTyped
    DEF TypeOK, CreationInv, StopInv, LimitReached, AtLimit, TestActive, MainGoto,
            sharedVars, workerVars, mainVars, history
  <2>6. CASE PollInterrupt
    BY <2>6, CountsTyped
    DEF TypeOK, CreationInv, StopInv, LimitReached, AtLimit, PollInterrupt,
            NoticeInterrupt, MainGoto, sharedVars, workerVars, mainVars, history
  <2>7. CASE WatchDrain
    BY <2>7, CountsTyped
    DEF TypeOK, CreationInv, StopInv, LimitReached, AtLimit, WatchDrain,
            DrainSolutions, MainGoto, sharedVars, workerVars, mainVars, history
  <2>8. CASE RecheckActive
    BY <2>8, CountsTyped
    DEF TypeOK, CreationInv, StopInv, LimitReached, AtLimit, RecheckActive,
            MainGoto, sharedVars, workerVars, mainVars, history
  <2>9. CASE StartWait
    BY <2>9, CountsTyped
    DEF TypeOK, CreationInv, StopInv, LimitReached, AtLimit, StartWait, MainGoto,
            sharedVars, workerVars, mainVars, history
  <2>10. CASE WaitExpires
    BY <2>10, CountsTyped
    DEF TypeOK, CreationInv, StopInv, LimitReached, AtLimit, WaitExpires,
            MainGoto, sharedVars, workerVars, mainVars, history
  <2>11. CASE JoinWorkers
    BY <2>11, CountsTyped
    DEF TypeOK, CreationInv, StopInv, LimitReached, AtLimit, JoinWorkers,
            DrainSolutions, Joined, MainGoto, sharedVars, workerVars, mainVars,
            history
  <2>12. CASE CheckErrors
    BY <2>12, CountsTyped
    DEF TypeOK, CreationInv, StopInv, LimitReached, AtLimit, CheckErrors,
            MainGoto, sharedVars, workerVars, mainVars, history
  <2>13. CASE CheckUnfinished
    BY <2>13, CountsTyped
    DEF TypeOK, CreationInv, StopInv, LimitReached, AtLimit, CheckUnfinished,
            MainGoto, sharedVars, workerVars, mainVars, history
  <2>14. CASE Report
    BY <2>14, CountsTyped
    DEF TypeOK, CreationInv, StopInv, LimitReached, AtLimit, Report, MainGoto,
            sharedVars, workerVars, mainVars, history
  <2>15. CASE Exit
    BY <2>15, CountsTyped
    DEF TypeOK, CreationInv, StopInv, LimitReached, AtLimit, Exit, MainGoto,
            sharedVars, workerVars, mainVars, history
  <2> QED BY <1>2, <2>1, <2>2, <2>3, <2>4, <2>5, <2>6, <2>7, <2>8, <2>9, <2>10,
          <2>11, <2>12, <2>13, <2>14, <2>15 DEF MainThread
<1>3. CASE Interrupt
  BY <1>3, CountsTyped
  DEF TypeOK, CreationInv, StopInv, LimitReached, AtLimit, Interrupt, MainGoto,
          sharedVars, workerVars, mainVars, history
<1>4. CASE UNCHANGED vars
  BY <1>4, CountsTyped
  DEF TypeOK, CreationInv, StopInv, LimitReached, AtLimit, vars, sharedVars,
          workerVars, mainVars, history
<1> QED BY <1>1, <1>2, <1>3, <1>4 DEF Next

(* A step that moves no worker into or out of its job.                      *)
LEMMA TicketFrame ==
    ASSUME TicketInv, UNCHANGED <<nextJob, slot, completed, jobsDone>>, stop => stop',
           \A v \in Workers : pc'[v] \in InJob <=> pc[v] \in InJob,
           \A v \in Workers : pc'[v] \in {"retire", "exited"} =>
               pc[v] \in {"retire", "exited"} \/ stop' \/ nextJob >= JobCount
    PROVE  TicketInv'
<1>1. \A s \in Jobs, v \in Workers : InJobAt(v, s) => InJobAt(v, s)'
  BY DEF InJobAt
<1> QED BY <1>1 DEF TicketInv

LEMMA JobsFinite == IsFiniteSet(Jobs) /\ Cardinality(Jobs) = JobCount
  BY CountsTyped, FS_Interval DEF Jobs

(* A drawn slot is searched, counted or given up because of a stop.         *)
LEMMA TicketStep ==
    ASSUME TypeOK, JobExclusive, StopInv, CreationInv, TicketInv, [Next]_vars
    PROVE  TicketInv'
<1>1. ASSUME NEW w \in Workers, Worker(w) PROVE TicketInv'
  <2>1. CASE CheckStop(w)
    BY <2>1, TicketFrame
    DEF TypeOK, InJob, CheckStop, Goto, sharedVars, workerVars, mainVars, history
  <2>2. CASE ClaimJob(w)
    <3>1. CASE nextJob >= JobCount
      <4>1. /\ pc' = [pc EXCEPT ![w] = "retire"] /\ pc[w] = "claim"
            /\ nextJob' = nextJob + 1
            /\ UNCHANGED <<slot, completed, jobsDone, stop>>
        BY <2>2, <3>1 DEF ClaimJob, Ticket, Goto, history
      <4>2. \A s \in Jobs : s < nextJob
        BY <3>1, CountsTyped DEF Jobs, TypeOK
      <4>3. \A s \in Jobs, v \in Workers : InJobAt(v, s) => InJobAt(v, s)'
        BY <4>1 DEF InJobAt, TypeOK, InJob
      <4> QED BY <3>1, <4>1, <4>2, <4>3, CountsTyped, SMTT(30) DEF TicketInv, TypeOK, InJob, Jobs
    <3>2. CASE ~(nextJob >= JobCount)
      <4>1. /\ pc' = [pc EXCEPT ![w] = "nextPrefix"] /\ pc[w] = "claim"
            /\ slot' = [slot EXCEPT ![w] = nextJob] /\ nextJob' = nextJob + 1
            /\ UNCHANGED <<completed, jobsDone, stop>>
        BY <2>2, <3>2 DEF ClaimJob, Ticket, Goto, history
      <4>2. \A s \in Jobs, v \in Workers : InJobAt(v, s) => InJobAt(v, s)'
        BY <4>1 DEF InJobAt, TypeOK, InJob
      <4>3. \A s \in Jobs : s = nextJob => InJobAt(w, s)'
        BY <4>1 DEF InJobAt, TypeOK, InJob
      <4>4. ASSUME NEW s \in Jobs, s < nextJob'
            PROVE  stop' \/ s \in completed' \/ \E v \in Workers : InJobAt(v, s)'
        <5>1. CASE s = nextJob
          BY <4>3, <5>1
        <5>2. CASE s < nextJob
          BY <4>1, <4>2, <5>2 DEF TicketInv
        <5> QED BY <4>1, <4>4, <5>1, <5>2 DEF TypeOK, Jobs
      <4>5. \A v \in Workers : (pc[v] \in InJob => slot[v] < nextJob)'
        BY <4>1 DEF TicketInv, TypeOK
      <4>6. \A s \in completed' : s < nextJob'
        BY <4>1 DEF TicketInv, TypeOK, Jobs
      <4>7. \A v \in Workers : pc'[v] \in {"retire", "exited"} => stop' \/ nextJob' >= JobCount
        BY <4>1, CountsTyped DEF TicketInv, TypeOK
      <4> QED BY <4>1, <4>4, <4>5, <4>6, <4>7 DEF TicketInv
    <3> QED BY <3>1, <3>2
  <2>3. CASE NextPrefix(w)
    BY <2>3, TicketFrame
    DEF TypeOK, InJob, NextPrefix, Goto, sharedVars, workerVars, mainVars, history
  <2>4. CASE CountJob(w)
    <3>1. /\ pc' = [pc EXCEPT ![w] = "checkStop"] /\ pc[w] = "count"
          /\ completed' = completed \union {slot[w]} /\ jobsDone' = jobsDone + 1
          /\ UNCHANGED <<slot, nextJob, stop>>
      BY <2>4 DEF CountJob, Goto
    <3>2. slot[w] \notin completed /\ slot[w] < nextJob
      BY <3>1 DEF JobExclusive, TicketInv, InJob
    <3>3. Cardinality(completed') = Cardinality(completed) + 1
      <4>1. IsFiniteSet(completed)
        BY JobsFinite, FS_Subset DEF TypeOK
      <4> QED BY <3>1, <3>2, <4>1, FS_AddElement
    <3>4. \A s \in Jobs, v \in Workers : InJobAt(v, s) => s = slot[w] \/ InJobAt(v, s)'
      BY <3>1 DEF InJobAt, TypeOK
    <3>5. ASSUME NEW s \in Jobs, s < nextJob'
          PROVE  stop' \/ s \in completed' \/ \E v \in Workers : InJobAt(v, s)'
      BY <3>1, <3>4, <3>5 DEF TicketInv
    <3>6. \A v \in Workers : (pc[v] \in InJob => slot[v] < nextJob)'
      BY <3>1 DEF TicketInv, TypeOK, InJob
    <3>7. \A s \in completed' : s < nextJob'
      BY <3>1, <3>2 DEF TicketInv
    <3>8. \A v \in Workers : pc'[v] \in {"retire", "exited"} => stop' \/ nextJob' >= JobCount
      BY <3>1 DEF TicketInv, TypeOK
    <3> QED BY <3>1, <3>3, <3>5, <3>6, <3>7, <3>8 DEF TicketInv
  <2>5. CASE VisitLeaf(w)
    BY <2>5, TicketFrame
    DEF TypeOK, InJob, VisitLeaf, Goto, sharedVars, workerVars, mainVars, history
  <2>6. CASE PollStop(w)
    BY <2>6, TicketFrame
    DEF TypeOK, InJob, PollStop, Goto, sharedVars, workerVars, mainVars, history
  <2>7. CASE HitNodeLimit(w)
    BY <2>7, TicketFrame
    DEF TypeOK, InJob, HitNodeLimit, StopAtNodeLimit, Goto, sharedVars,
            workerVars, mainVars, history
  <2>8. CASE FinishPrefix(w)
    BY <2>8, TicketFrame
    DEF TypeOK, InJob, FinishPrefix, Goto, sharedVars, workerVars, mainVars, history
  <2>9. CASE LeavePrefix(w)
    <3>1. CASE ShouldStop(w)
      <4>1. stop
        BY <3>1 DEF ShouldStop, StopInv
      <4>2. /\ pc' = [pc EXCEPT ![w] = "retire"] /\ pc[w] = "prefixDone"
            /\ UNCHANGED <<nextJob, slot, completed, jobsDone, stop>>
        BY <2>9, <3>1 DEF LeavePrefix, Goto, sharedVars, history
      <4> QED BY <4>1, <4>2 DEF TicketInv, TypeOK, InJob
    <3>2. CASE ~ShouldStop(w)
      <4>1. /\ pc' = [pc EXCEPT ![w] = "nextPrefix"] /\ pc[w] = "prefixDone"
            /\ UNCHANGED <<nextJob, slot, completed, jobsDone, stop>>
        BY <2>9, <3>2 DEF LeavePrefix, Goto, sharedVars, history
      <4> QED BY <4>1, TicketFrame DEF TypeOK, InJob
    <3> QED BY <3>1, <3>2
  <2>10. CASE AllocFails(w)
    BY <2>10, TicketFrame
    DEF TypeOK, InJob, AllocFails, Goto, sharedVars, workerVars, mainVars, history
  <2>11. CASE RememberExtension(w)
    BY <2>11, TicketFrame
    DEF TypeOK, InJob, RememberExtension, Known, Goto, sharedVars, workerVars,
            mainVars, history
  <2>12. CASE LoadCount(w)
    BY <2>12, TicketFrame
    DEF TypeOK, InJob, LoadCount, Goto, sharedVars, workerVars, mainVars, history
  <2>13. CASE ReserveRefused(w)
    BY <2>13, TicketFrame
    DEF TypeOK, InJob, ReserveRefused, AtLimit, Goto, sharedVars, workerVars,
            mainVars, history
  <2>14. CASE CompareExchange(w)
    BY <2>14, TicketFrame
    DEF TypeOK, InJob, CompareExchange, Unchanged, AtLimit, Goto, sharedVars,
            workerVars, mainVars, history
  <2>15. CASE Enqueue(w)
    BY <2>15, TicketFrame
    DEF TypeOK, InJob, Enqueue, Goto, sharedVars, workerVars, mainVars, history
  <2>16. CASE NotifyWatcher(w)
    BY <2>16, TicketFrame
    DEF TypeOK, InJob, NotifyWatcher, WakeWatcher, Goto, sharedVars, workerVars,
            mainVars, history
  <2>17. CASE ReachLimit(w)
    BY <2>17, TicketFrame
    DEF TypeOK, InJob, ReachLimit, AtLimit, Goto, sharedVars, workerVars,
            mainVars, history
  <2>18. CASE Retire(w)
    BY <2>18, TicketFrame
    DEF TypeOK, InJob, Retire, WakeWatcher, Deactivate, Goto, sharedVars,
            workerVars, mainVars, history
  <2> QED BY <1>1, <2>1, <2>2, <2>3, <2>4, <2>5, <2>6, <2>7, <2>8, <2>9, <2>10,
          <2>11, <2>12, <2>13, <2>14, <2>15, <2>16, <2>17, <2>18 DEF Worker
<1>2. CASE MainThread
  <2>1. CASE ActivateWorker
    BY <2>1, TicketFrame
    DEF TypeOK, InJob, ActivateWorker, Activate, MainGoto, sharedVars, workerVars,
            mainVars, history
  <2>2. CASE CreateWorker
    <3>1. created + 1 \in Workers /\ pc[created + 1] = "absent"
      BY <2>2, CountsTyped DEF CreateWorker, TypeOK, CreationInv, Workers
    <3> QED BY <2>2, <3>1, TicketFrame DEF TypeOK, InJob, CreateWorker,
            sharedVars, history
  <2>3. CASE CreateFails
    BY <2>3, TicketFrame
    DEF TypeOK, InJob, CreateFails, Deactivate, MainGoto, sharedVars, workerVars,
            mainVars, history
  <2>4. CASE LockEvent
    BY <2>4, TicketFrame
    DEF TypeOK, InJob, LockEvent, MainGoto, sharedVars, workerVars, mainVars, history
  <2>5. CASE TestActive
    BY <2>5, TicketFrame
    DEF TypeOK, InJob, TestActive, MainGoto, sharedVars, workerVars, mainVars, history
  <2>6. CASE PollInterrupt
    BY <2>6, TicketFrame
    DEF TypeOK, InJob, PollInterrupt, NoticeInterrupt, MainGoto, sharedVars,
            workerVars, mainVars, history
  <2>7. CASE WatchDrain
    BY <2>7, TicketFrame
    DEF TypeOK, InJob, WatchDrain, DrainSolutions, MainGoto, sharedVars,
            workerVars, mainVars, history
  <2>8. CASE RecheckActive
    BY <2>8, TicketFrame
    DEF TypeOK, InJob, RecheckActive, MainGoto, sharedVars, workerVars, mainVars,
            history
  <2>9. CASE StartWait
    BY <2>9, TicketFrame
    DEF TypeOK, InJob, StartWait, MainGoto, sharedVars, workerVars, mainVars, history
  <2>10. CASE WaitExpires
    BY <2>10, TicketFrame
    DEF TypeOK, InJob, WaitExpires, MainGoto, sharedVars, workerVars, mainVars, history
  <2>11. CASE JoinWorkers
    BY <2>11, TicketFrame
    DEF TypeOK, InJob, JoinWorkers, DrainSolutions, Joined, MainGoto, sharedVars,
            workerVars, mainVars, history
  <2>12. CASE CheckErrors
    BY <2>12, TicketFrame
    DEF TypeOK, InJob, CheckErrors, MainGoto, sharedVars, workerVars, mainVars, history
  <2>13. CASE CheckUnfinished
    BY <2>13, TicketFrame
    DEF TypeOK, InJob, CheckUnfinished, LimitReached, MainGoto, sharedVars,
            workerVars, mainVars, history
  <2>14. CASE Report
    BY <2>14, TicketFrame
    DEF TypeOK, InJob, Report, LimitReached, MainGoto, sharedVars, workerVars,
            mainVars, history
  <2>15. CASE Exit
    BY <2>15, TicketFrame
    DEF TypeOK, InJob, Exit, MainGoto, sharedVars, workerVars, mainVars, history
  <2> QED BY <1>2, <2>1, <2>2, <2>3, <2>4, <2>5, <2>6, <2>7, <2>8, <2>9, <2>10,
          <2>11, <2>12, <2>13, <2>14, <2>15 DEF MainThread
<1>3. CASE Interrupt
  BY <1>3, TicketFrame
  DEF TypeOK, InJob, Interrupt, MainGoto, sharedVars, workerVars, mainVars, history
<1>4. CASE UNCHANGED vars
  BY <1>4, TicketFrame
  DEF TypeOK, InJob, vars, sharedVars, workerVars, mainVars, history
<1> QED BY <1>1, <1>2, <1>3, <1>4 DEF Next

(* Once every worker has gone with nothing to stop it, every job is done.   *)
LEMMA AllJobsDone ==
    ASSUME TypeOK, TicketInv, CreationInv, mainPc \in AfterJoin, ~stop
    PROVE  completed = Jobs /\ jobsDone = JobCount /\ created = WorkerCount
<1>1. created = WorkerCount
  BY CountsTyped DEF CreationInv, AfterJoin, TypeOK
<1>2. completed = Jobs
  <2>1. CASE JobCount = 0
    BY <2>1 DEF Jobs, TypeOK
  <2>2. CASE JobCount # 0
    <3>1. 1 \in Workers /\ pc[1] = "exited"
      BY <1>1, <2>2, CountsTyped DEF CreationInv, Workers
    <3>2. nextJob >= JobCount
      BY <3>1 DEF TicketInv
    <3>3. \A v \in Workers : pc[v] \notin InJob
      BY DEF CreationInv, InJob
    <3>4. \A s \in Jobs : s \in completed
      BY <3>2, <3>3, CountsTyped DEF TicketInv, InJobAt, Jobs, TypeOK
    <3> QED BY <3>4 DEF TypeOK
  <2> QED BY <2>1, <2>2
<1> QED BY <1>1, <1>2, JobsFinite DEF TicketInv

(* The verdict is what main read.                                           *)
LEMMA VerdictStep ==
    ASSUME TypeOK, CreationInv, StopInv, TicketInv, VerdictInv, [Next]_vars
    PROVE  VerdictInv'
<1>1. ASSUME NEW w \in Workers, Worker(w) PROVE VerdictInv'
  <2>1. CASE CheckStop(w)
    BY <2>1, CountsTyped
    DEF TypeOK, CreationInv, StopInv, VerdictInv, AfterJoin, LimitReached,
            CheckStop, Goto, sharedVars, workerVars, mainVars, history
  <2>2. CASE ClaimJob(w)
    BY <2>2, CountsTyped
    DEF TypeOK, CreationInv, StopInv, VerdictInv, AfterJoin, LimitReached,
            ClaimJob, Ticket, Goto, sharedVars, workerVars, mainVars, history
  <2>3. CASE NextPrefix(w)
    BY <2>3, CountsTyped
    DEF TypeOK, CreationInv, StopInv, VerdictInv, AfterJoin, LimitReached,
            NextPrefix, Goto, sharedVars, workerVars, mainVars, history
  <2>4. CASE CountJob(w)
    BY <2>4, CountsTyped
    DEF TypeOK, CreationInv, StopInv, VerdictInv, AfterJoin, LimitReached,
            CountJob, Goto, sharedVars, workerVars, mainVars, history
  <2>5. CASE VisitLeaf(w)
    BY <2>5, CountsTyped
    DEF TypeOK, CreationInv, StopInv, VerdictInv, AfterJoin, LimitReached,
            VisitLeaf, Goto, sharedVars, workerVars, mainVars, history
  <2>6. CASE PollStop(w)
    BY <2>6, CountsTyped
    DEF TypeOK, CreationInv, StopInv, VerdictInv, AfterJoin, LimitReached,
            PollStop, Goto, sharedVars, workerVars, mainVars, history
  <2>7. CASE HitNodeLimit(w)
    BY <2>7, CountsTyped
    DEF TypeOK, CreationInv, StopInv, VerdictInv, AfterJoin, LimitReached,
            HitNodeLimit, StopAtNodeLimit, Goto, sharedVars, workerVars, mainVars,
            history
  <2>8. CASE FinishPrefix(w)
    BY <2>8, CountsTyped
    DEF TypeOK, CreationInv, StopInv, VerdictInv, AfterJoin, LimitReached,
            FinishPrefix, Goto, sharedVars, workerVars, mainVars, history
  <2>9. CASE LeavePrefix(w)
    BY <2>9, CountsTyped
    DEF TypeOK, CreationInv, StopInv, VerdictInv, AfterJoin, LimitReached,
            LeavePrefix, ShouldStop, Goto, sharedVars, workerVars, mainVars,
            history
  <2>10. CASE AllocFails(w)
    BY <2>10, CountsTyped
    DEF TypeOK, CreationInv, StopInv, VerdictInv, AfterJoin, LimitReached,
            AllocFails, Goto, sharedVars, workerVars, mainVars, history
  <2>11. CASE RememberExtension(w)
    BY <2>11, CountsTyped
    DEF TypeOK, CreationInv, StopInv, VerdictInv, AfterJoin, LimitReached,
            RememberExtension, Known, Goto, sharedVars, workerVars, mainVars,
            history
  <2>12. CASE LoadCount(w)
    BY <2>12, CountsTyped
    DEF TypeOK, CreationInv, StopInv, VerdictInv, AfterJoin, LimitReached,
            LoadCount, Goto, sharedVars, workerVars, mainVars, history
  <2>13. CASE ReserveRefused(w)
    BY <2>13, CountsTyped
    DEF TypeOK, CreationInv, StopInv, VerdictInv, AfterJoin, LimitReached,
            ReserveRefused, AtLimit, Goto, sharedVars, workerVars, mainVars,
            history
  <2>14. CASE CompareExchange(w)
    BY <2>14, CountsTyped
    DEF TypeOK, CreationInv, StopInv, VerdictInv, AfterJoin, LimitReached,
            CompareExchange, Unchanged, AtLimit, Goto, sharedVars, workerVars,
            mainVars, history
  <2>15. CASE Enqueue(w)
    BY <2>15, CountsTyped
    DEF TypeOK, CreationInv, StopInv, VerdictInv, AfterJoin, LimitReached,
            Enqueue, Goto, sharedVars, workerVars, mainVars, history
  <2>16. CASE NotifyWatcher(w)
    BY <2>16, CountsTyped
    DEF TypeOK, CreationInv, StopInv, VerdictInv, AfterJoin, LimitReached,
            NotifyWatcher, WakeWatcher, Goto, sharedVars, workerVars, mainVars,
            history
  <2>17. CASE ReachLimit(w)
    BY <2>17, CountsTyped
    DEF TypeOK, CreationInv, StopInv, VerdictInv, AfterJoin, LimitReached,
            ReachLimit, AtLimit, Goto, sharedVars, workerVars, mainVars, history
  <2>18. CASE Retire(w)
    BY <2>18, CountsTyped
    DEF TypeOK, CreationInv, StopInv, VerdictInv, AfterJoin, LimitReached, Retire,
            WakeWatcher, Deactivate, Goto, sharedVars, workerVars, mainVars,
            history
  <2> QED BY <1>1, <2>1, <2>2, <2>3, <2>4, <2>5, <2>6, <2>7, <2>8, <2>9, <2>10,
          <2>11, <2>12, <2>13, <2>14, <2>15, <2>16, <2>17, <2>18 DEF Worker
<1>2. CASE MainThread
  <2>1. CASE ActivateWorker
    BY <2>1, CountsTyped
    DEF TypeOK, CreationInv, StopInv, VerdictInv, AfterJoin, LimitReached,
            ActivateWorker, Activate, MainGoto, sharedVars, workerVars, mainVars,
            history
  <2>2. CASE CreateWorker
    BY <2>2, CountsTyped
    DEF TypeOK, CreationInv, StopInv, VerdictInv, AfterJoin, LimitReached,
            CreateWorker, MainGoto, sharedVars, workerVars, mainVars, history
  <2>3. CASE CreateFails
    BY <2>3, CountsTyped
    DEF TypeOK, CreationInv, StopInv, VerdictInv, AfterJoin, LimitReached,
            CreateFails, Deactivate, MainGoto, sharedVars, workerVars, mainVars,
            history
  <2>4. CASE LockEvent
    BY <2>4, CountsTyped
    DEF TypeOK, CreationInv, StopInv, VerdictInv, AfterJoin, LimitReached,
            LockEvent, MainGoto, sharedVars, workerVars, mainVars, history
  <2>5. CASE TestActive
    BY <2>5, CountsTyped
    DEF TypeOK, CreationInv, StopInv, VerdictInv, AfterJoin, LimitReached,
            TestActive, MainGoto, sharedVars, workerVars, mainVars, history
  <2>6. CASE PollInterrupt
    BY <2>6, CountsTyped
    DEF TypeOK, CreationInv, StopInv, VerdictInv, AfterJoin, LimitReached,
            PollInterrupt, NoticeInterrupt, MainGoto, sharedVars, workerVars,
            mainVars, history
  <2>7. CASE WatchDrain
    BY <2>7, CountsTyped
    DEF TypeOK, CreationInv, StopInv, VerdictInv, AfterJoin, LimitReached,
            WatchDrain, DrainSolutions, MainGoto, sharedVars, workerVars,
            mainVars, history
  <2>8. CASE RecheckActive
    BY <2>8, CountsTyped
    DEF TypeOK, CreationInv, StopInv, VerdictInv, AfterJoin, LimitReached,
            RecheckActive, MainGoto, sharedVars, workerVars, mainVars, history
  <2>9. CASE StartWait
    BY <2>9, CountsTyped
    DEF TypeOK, CreationInv, StopInv, VerdictInv, AfterJoin, LimitReached,
            StartWait, MainGoto, sharedVars, workerVars, mainVars, history
  <2>10. CASE WaitExpires
    BY <2>10, CountsTyped
    DEF TypeOK, CreationInv, StopInv, VerdictInv, AfterJoin, LimitReached,
            WaitExpires, MainGoto, sharedVars, workerVars, mainVars, history
  <2>11. CASE JoinWorkers
    BY <2>11, CountsTyped
    DEF TypeOK, CreationInv, StopInv, VerdictInv, AfterJoin, LimitReached,
            JoinWorkers, DrainSolutions, Joined, MainGoto, sharedVars, workerVars,
            mainVars, history
  <2>12. CASE CheckErrors
    BY <2>12, CountsTyped
    DEF TypeOK, CreationInv, StopInv, VerdictInv, AfterJoin, LimitReached,
            CheckErrors, MainGoto, sharedVars, workerVars, mainVars, history
  <2>13. CASE CheckUnfinished
    <3>1. exitStatus' = exitStatus
      <4>1. SUFFICES ASSUME ~interrupted, ~nodeLimitHit, ~LimitReached,
                            exitStatus = "success", jobsDone # JobCount
                     PROVE  FALSE
        BY <2>13 DEF CheckUnfinished
      <4>2. ~internalError /\ ~stop
        BY <2>13, <4>1, CountsTyped DEF CheckUnfinished, StopInv, VerdictInv,
                CreationInv, TypeOK
      <4> QED BY <2>13, <4>1, <4>2, AllJobsDone DEF CheckUnfinished, AfterJoin
    <3> QED BY <2>13, <3>1 DEF VerdictInv, CheckUnfinished, MainGoto, TypeOK,
            sharedVars, workerVars, mainVars, history
  <2>14. CASE Report
    BY <2>14, CountsTyped
    DEF TypeOK, CreationInv, StopInv, VerdictInv, AfterJoin, LimitReached, Report,
            MainGoto, sharedVars, workerVars, mainVars, history
  <2>15. CASE Exit
    BY <2>15, CountsTyped
    DEF TypeOK, CreationInv, StopInv, VerdictInv, AfterJoin, LimitReached, Exit,
            MainGoto, sharedVars, workerVars, mainVars, history
  <2> QED BY <1>2, <2>1, <2>2, <2>3, <2>4, <2>5, <2>6, <2>7, <2>8, <2>9, <2>10,
          <2>11, <2>12, <2>13, <2>14, <2>15 DEF MainThread
<1>3. CASE Interrupt
  BY <1>3, CountsTyped
  DEF TypeOK, CreationInv, StopInv, VerdictInv, AfterJoin, LimitReached, Interrupt,
          MainGoto, sharedVars, workerVars, mainVars, history
<1>4. CASE UNCHANGED vars
  BY <1>4, CountsTyped
  DEF TypeOK, CreationInv, StopInv, VerdictInv, AfterJoin, LimitReached, vars,
          sharedVars, workerVars, mainVars, history
<1> QED BY <1>1, <1>2, <1>3, <1>4 DEF Next

(* Numbers, explored prefixes and the stop flag are never taken back.       *)
LEMMA Monotone ==
    ASSUME TypeOK, [Next]_vars
    PROVE  numbering \subseteq numbering' /\ explored \subseteq explored' /\ (stop => stop') /\ jobOrder' = jobOrder
<1>1. ASSUME NEW w \in Workers, Worker(w) PROVE numbering \subseteq numbering' /\ explored \subseteq explored' /\ (stop => stop') /\ jobOrder' = jobOrder
  <2>1. CASE CheckStop(w)
    BY <2>1
    DEF TypeOK, CheckStop, Goto, sharedVars, workerVars, mainVars, history
  <2>2. CASE ClaimJob(w)
    BY <2>2
    DEF TypeOK, ClaimJob, Ticket, Goto, sharedVars, workerVars, mainVars, history
  <2>3. CASE NextPrefix(w)
    BY <2>3
    DEF TypeOK, NextPrefix, Goto, sharedVars, workerVars, mainVars, history
  <2>4. CASE CountJob(w)
    BY <2>4
    DEF TypeOK, CountJob, Goto, sharedVars, workerVars, mainVars, history
  <2>5. CASE VisitLeaf(w)
    BY <2>5
    DEF TypeOK, VisitLeaf, Goto, sharedVars, workerVars, mainVars, history
  <2>6. CASE PollStop(w)
    BY <2>6
    DEF TypeOK, PollStop, Goto, sharedVars, workerVars, mainVars, history
  <2>7. CASE HitNodeLimit(w)
    BY <2>7
    DEF TypeOK, HitNodeLimit, StopAtNodeLimit, Goto, sharedVars, workerVars,
            mainVars, history
  <2>8. CASE FinishPrefix(w)
    BY <2>8
    DEF TypeOK, FinishPrefix, Goto, sharedVars, workerVars, mainVars, history
  <2>9. CASE LeavePrefix(w)
    BY <2>9
    DEF TypeOK, LeavePrefix, ShouldStop, Goto, sharedVars, workerVars, mainVars, history
  <2>10. CASE AllocFails(w)
    BY <2>10
    DEF TypeOK, AllocFails, Goto, sharedVars, workerVars, mainVars, history
  <2>11. CASE RememberExtension(w)
    BY <2>11
    DEF TypeOK, RememberExtension, Known, Goto, sharedVars, workerVars, mainVars,
            history
  <2>12. CASE LoadCount(w)
    BY <2>12
    DEF TypeOK, LoadCount, Goto, sharedVars, workerVars, mainVars, history
  <2>13. CASE ReserveRefused(w)
    BY <2>13
    DEF TypeOK, ReserveRefused, AtLimit, Goto, sharedVars, workerVars, mainVars, history
  <2>14. CASE CompareExchange(w)
    BY <2>14
    DEF TypeOK, CompareExchange, Unchanged, AtLimit, Goto, sharedVars, workerVars,
            mainVars, history
  <2>15. CASE Enqueue(w)
    BY <2>15
    DEF TypeOK, Enqueue, Goto, sharedVars, workerVars, mainVars, history
  <2>16. CASE NotifyWatcher(w)
    BY <2>16
    DEF TypeOK, NotifyWatcher, WakeWatcher, Goto, sharedVars, workerVars,
            mainVars, history
  <2>17. CASE ReachLimit(w)
    BY <2>17
    DEF TypeOK, ReachLimit, AtLimit, Goto, sharedVars, workerVars, mainVars, history
  <2>18. CASE Retire(w)
    BY <2>18
    DEF TypeOK, Retire, WakeWatcher, Deactivate, Goto, sharedVars, workerVars,
            mainVars, history
  <2> QED BY <1>1, <2>1, <2>2, <2>3, <2>4, <2>5, <2>6, <2>7, <2>8, <2>9, <2>10,
          <2>11, <2>12, <2>13, <2>14, <2>15, <2>16, <2>17, <2>18 DEF Worker
<1>2. CASE MainThread
  <2>1. CASE ActivateWorker
    BY <2>1
    DEF TypeOK, ActivateWorker, Activate, MainGoto, sharedVars, workerVars,
            mainVars, history
  <2>2. CASE CreateWorker
    BY <2>2
    DEF TypeOK, CreateWorker, MainGoto, sharedVars, workerVars, mainVars, history
  <2>3. CASE CreateFails
    BY <2>3
    DEF TypeOK, CreateFails, Deactivate, MainGoto, sharedVars, workerVars,
            mainVars, history
  <2>4. CASE LockEvent
    BY <2>4
    DEF TypeOK, LockEvent, MainGoto, sharedVars, workerVars, mainVars, history
  <2>5. CASE TestActive
    BY <2>5
    DEF TypeOK, TestActive, MainGoto, sharedVars, workerVars, mainVars, history
  <2>6. CASE PollInterrupt
    BY <2>6
    DEF TypeOK, PollInterrupt, NoticeInterrupt, MainGoto, sharedVars, workerVars,
            mainVars, history
  <2>7. CASE WatchDrain
    BY <2>7
    DEF TypeOK, WatchDrain, DrainSolutions, MainGoto, sharedVars, workerVars,
            mainVars, history
  <2>8. CASE RecheckActive
    BY <2>8
    DEF TypeOK, RecheckActive, MainGoto, sharedVars, workerVars, mainVars, history
  <2>9. CASE StartWait
    BY <2>9
    DEF TypeOK, StartWait, MainGoto, sharedVars, workerVars, mainVars, history
  <2>10. CASE WaitExpires
    BY <2>10
    DEF TypeOK, WaitExpires, MainGoto, sharedVars, workerVars, mainVars, history
  <2>11. CASE JoinWorkers
    BY <2>11
    DEF TypeOK, JoinWorkers, DrainSolutions, Joined, MainGoto, sharedVars,
            workerVars, mainVars, history
  <2>12. CASE CheckErrors
    BY <2>12
    DEF TypeOK, CheckErrors, MainGoto, sharedVars, workerVars, mainVars, history
  <2>13. CASE CheckUnfinished
    BY <2>13
    DEF TypeOK, CheckUnfinished, LimitReached, MainGoto, sharedVars, workerVars,
            mainVars, history
  <2>14. CASE Report
    BY <2>14
    DEF TypeOK, Report, LimitReached, MainGoto, sharedVars, workerVars, mainVars,
            history
  <2>15. CASE Exit
    BY <2>15
    DEF TypeOK, Exit, MainGoto, sharedVars, workerVars, mainVars, history
  <2> QED BY <1>2, <2>1, <2>2, <2>3, <2>4, <2>5, <2>6, <2>7, <2>8, <2>9, <2>10,
          <2>11, <2>12, <2>13, <2>14, <2>15 DEF MainThread
<1>3. CASE Interrupt
  BY <1>3
  DEF TypeOK, Interrupt, MainGoto, sharedVars, workerVars, mainVars, history
<1>4. CASE UNCHANGED vars
  BY <1>4
  DEF TypeOK, vars, sharedVars, workerVars, mainVars, history
<1> QED BY <1>1, <1>2, <1>3, <1>4 DEF Next

(* A worker's step leaves the place of the others alone.                    *)
OthersKeep(w) == \A v \in Workers \ {w} :
    /\ pc'[v] = pc[v] /\ slot'[v] = slot[v] /\ prefix'[v] = prefix[v] /\ leaf'[v] = leaf[v]

LEMMA OthersStay ==
    ASSUME TypeOK, NEW w \in Workers, Worker(w)
    PROVE  OthersKeep(w)
<1>1. CASE CheckStop(w)
  BY <1>1 DEF TypeOK, OthersKeep, CheckStop, Goto
<1>2. CASE ClaimJob(w)
  BY <1>2 DEF TypeOK, OthersKeep, ClaimJob, Ticket, Goto
<1>3. CASE NextPrefix(w)
  BY <1>3 DEF TypeOK, OthersKeep, NextPrefix, Goto
<1>4. CASE CountJob(w)
  BY <1>4 DEF TypeOK, OthersKeep, CountJob, Goto
<1>5. CASE VisitLeaf(w)
  BY <1>5 DEF TypeOK, OthersKeep, VisitLeaf, Goto
<1>6. CASE PollStop(w)
  BY <1>6 DEF TypeOK, OthersKeep, PollStop, Goto
<1>7. CASE HitNodeLimit(w)
  BY <1>7 DEF TypeOK, OthersKeep, HitNodeLimit, StopAtNodeLimit, Goto
<1>8. CASE FinishPrefix(w)
  BY <1>8 DEF TypeOK, OthersKeep, FinishPrefix, Goto
<1>9. CASE LeavePrefix(w)
  BY <1>9 DEF TypeOK, OthersKeep, LeavePrefix, ShouldStop, Goto
<1>10. CASE AllocFails(w)
  BY <1>10 DEF TypeOK, OthersKeep, AllocFails, Goto
<1>11. CASE RememberExtension(w)
  BY <1>11 DEF TypeOK, OthersKeep, RememberExtension, Known, Goto
<1>12. CASE LoadCount(w)
  BY <1>12 DEF TypeOK, OthersKeep, LoadCount, Goto
<1>13. CASE ReserveRefused(w)
  BY <1>13 DEF TypeOK, OthersKeep, ReserveRefused, AtLimit, Goto
<1>14. CASE CompareExchange(w)
  BY <1>14 DEF TypeOK, OthersKeep, CompareExchange, Unchanged, AtLimit, Goto
<1>15. CASE Enqueue(w)
  BY <1>15 DEF TypeOK, OthersKeep, Enqueue, Goto
<1>16. CASE NotifyWatcher(w)
  BY <1>16 DEF TypeOK, OthersKeep, NotifyWatcher, WakeWatcher, Goto
<1>17. CASE ReachLimit(w)
  BY <1>17 DEF TypeOK, OthersKeep, ReachLimit, AtLimit, Goto
<1>18. CASE Retire(w)
  BY <1>18 DEF TypeOK, OthersKeep, Retire, WakeWatcher, Deactivate, Goto
<1> QED BY <1>1, <1>2, <1>3, <1>4, <1>5, <1>6, <1>7, <1>8, <1>9, <1>10, <1>11, <1>12,
        <1>13, <1>14, <1>15, <1>16, <1>17, <1>18 DEF Worker

(* Main and an interrupt move no worker that is in a job.                   *)
LEMMA MainKeeps ==
    ASSUME TypeOK, CreationInv, MainThread \/ Interrupt \/ UNCHANGED vars
    PROVE  /\ UNCHANGED <<slot, prefix, leaf, completed, remembered, numbering, explored>>
           /\ \A v \in Workers : pc'[v] = pc[v] \/ (pc[v] = "absent" /\ pc'[v] = "checkStop")
<1>1. CASE CreateWorker
  <2>1. created + 1 \in Workers /\ pc[created + 1] = "absent"
    BY <1>1, CountsTyped DEF CreateWorker, CreationInv, TypeOK, Workers
  <2> QED BY <1>1, <2>1 DEF CreateWorker, TypeOK, sharedVars, history
<1>2. CASE (MainThread /\ ~CreateWorker) \/ Interrupt \/ UNCHANGED vars
  BY <1>2 DEF MainThread, ActivateWorker, CreateFails, LockEvent, TestActive, PollInterrupt,
      WatchDrain, RecheckActive, StartWait, WaitExpires, JoinWorkers, CheckErrors,
      CheckUnfinished, Report, Exit, Interrupt, vars, sharedVars, workerVars, history
<1> QED BY <1>1, <1>2

(* What is covered stays covered: a worker that holds a reservation for an  *)
(* encoding either gives it its number or stops the session.                *)
LEMMA CoveredStays ==
    ASSUME TypeOK, CreationInv, PlaceInv, [Next]_vars, NEW e, Covered(e)
    PROVE  Covered(e)'
<1>0. numbering \subseteq numbering' /\ (stop => stop')
  BY Monotone
<1>1. CASE e \in Numbered
  BY <1>0, <1>1 DEF Covered, Numbered
<1>2. CASE Extension /\ stop
  BY <1>0, <1>2 DEF Covered
<1>3. ASSUME Extension, NEW v \in Workers, Reserving(v), Found(v) = e
      PROVE  Covered(e)'
  <2>1. ASSUME NEW w \in Workers, Worker(w), w # v
        PROVE  Covered(e)'
    <3>1. pc'[v] = pc[v] /\ prefix'[v] = prefix[v] /\ leaf'[v] = leaf[v]
      BY <2>1, OthersStay DEF OthersKeep
    <3> QED BY <1>3, <3>1 DEF Covered, Reserving, Found
  <2>2. ASSUME Worker(v) PROVE Covered(e)'
    <3>1. CASE LoadCount(v)
      <4>1. pc'[v] = "cas" /\ prefix' = prefix /\ leaf' = leaf
        BY <3>1 DEF LoadCount, Goto, TypeOK
      <4> QED BY <1>3, <4>1 DEF Covered, Reserving, Found
    <3>2. CASE ReserveRefused(v)
      BY <1>3, <3>2 DEF ReserveRefused, Covered
    <3>3. CASE CompareExchange(v)
      <4>1. CASE Unchanged(v)
        <5>1. [number |-> current[v] + 1, encoding |-> e] \in numbering'
          BY <1>3, <3>3, <4>1 DEF CompareExchange
        <5> QED BY <5>1 DEF Covered, Numbered
      <4>2. CASE ~Unchanged(v)
        <5>1. pc' = pc /\ prefix' = prefix /\ leaf' = leaf
          BY <3>3, <4>2 DEF CompareExchange
        <5> QED BY <1>3, <5>1 DEF Covered, Reserving, Found
      <4> QED BY <4>1, <4>2
    <3>4. pc[v] \in {"load", "cas"}
      BY <1>3 DEF Reserving
    <3>5. LoadCount(v) \/ ReserveRefused(v) \/ CompareExchange(v)
      BY <2>2, <3>4 DEF Worker, CheckStop, ClaimJob, NextPrefix, CountJob, VisitLeaf, PollStop,
          HitNodeLimit, FinishPrefix, LeavePrefix, AllocFails, RememberExtension, Enqueue,
          NotifyWatcher, ReachLimit, Retire
    <3> QED BY <3>1, <3>2, <3>3, <3>5
  <2>3. CASE MainThread \/ Interrupt \/ UNCHANGED vars
    <3>1. pc'[v] = pc[v] /\ prefix' = prefix /\ leaf' = leaf
      BY <1>3, <2>3, MainKeeps DEF Reserving
    <3> QED BY <1>3, <3>1 DEF Covered, Reserving, Found
  <2> QED BY <2>1, <2>2, <2>3 DEF Next
<1> QED BY <1>1, <1>2, <1>3 DEF Covered

LEMMA SearchedStays ==
    ASSUME TypeOK, CreationInv, PlaceInv, [Next]_vars, NEW p, Searched(p)
    PROVE  Searched(p)'
  BY Monotone, CoveredStays DEF Searched

(* A worker that does not move keeps what it has behind it.                 *)
LEMMA ProgressStays ==
    ASSUME TypeOK, CreationInv, PlaceInv, [Next]_vars, NEW v \in Workers, Progress(v),
           \/ pc'[v] = pc[v]
           \/ pc'[v] \notin InJob /\ pc'[v] \notin Recording,
           slot'[v] = slot[v], prefix'[v] = prefix[v], leaf'[v] = leaf[v]
    PROVE  Progress(v)'
<1>1. JobOf(v)' = JobOf(v) /\ (stop => stop')
  BY Monotone DEF JobOf
<1>2. CASE pc'[v] = pc[v]
  <2>1. pc[v] \in InJob => \A p \in JobPrefixes(JobOf(v)) : p < prefix[v] => Searched(p)'
    BY SearchedStays DEF Progress
  <2>2. pc[v] = "search" =>
            \A i \in 1 .. leaf[v] : stop' \/ Covered(Leaves[prefix[v]][i])'
    BY <1>1, CoveredStays DEF Progress
  <2>3. pc[v] \in Recording =>
            \A i \in 1 .. leaf[v] - 1 : stop' \/ Covered(Leaves[prefix[v]][i])'
    BY <1>1, CoveredStays DEF Progress
  <2>4. pc[v] = "prefixDone" => stop' \/ Searched(prefix[v])'
    BY <1>1, SearchedStays DEF Progress
  <2> HIDE DEF Covered, Searched
  <2> QED BY <1>1, <1>2, <2>1, <2>2, <2>3, <2>4 DEF Progress, JobPrefixes, Searched, Covered
<1>3. CASE pc'[v] \notin InJob /\ pc'[v] \notin Recording
  BY <1>3 DEF Progress, InJob
<1> QED BY <1>2, <1>3

(* What the worker that moves has behind it afterwards.                     *)
LEMMA ProgressOfMover ==
    ASSUME TypeOK, CreationInv, PlaceInv, NumbersAreDense, ReservationInv, StopInv,
           ProgressInv, [Next]_vars, NEW w \in Workers, Worker(w)
    PROVE  Progress(w)'
<1> USE DEF JobOf
<1>m. (stop => stop') /\ jobOrder' = jobOrder
  BY Monotone
<1>p. Progress(w)
  BY DEF ProgressInv
(* The part about finished prefixes, when the worker stays in its job.      *)
<1>b. ASSUME slot'[w] = slot[w], prefix'[w] = prefix[w], pc[w] \in InJob
      PROVE  \A p \in JobPrefixes(JobOf(w)') : p < prefix'[w] => Searched(p)'
  <2>1. JobOf(w)' = JobOf(w)
    BY <1>m, <1>b
  <2> HIDE DEF JobOf, Searched
  <2> QED BY <1>b, <1>p, <2>1, SearchedStays DEF Progress
(* Leaves behind it that were covered, or forgiven by a stop, still are.    *)
<1>c. ASSUME NEW i \in Int, prefix'[w] = prefix[w], stop \/ Covered(Leaves[prefix[w]][i])
      PROVE  stop' \/ Covered(Leaves[prefix[w]][i])'
  <2>1. \A e : Covered(e) => Covered(e)'
    BY CoveredStays
  <2>2. CASE Covered(Leaves[prefix[w]][i])
    <3>1. \A e : e = Leaves[prefix[w]][i] => Covered(e)'
      BY <2>1, <2>2
    <3> QED BY <1>c, <3>1 DEF Covered
  <2> QED BY <1>c, <1>m, <2>2
<1> DEFINE Behind == \A p \in JobPrefixes(JobOf(w)') : p < prefix'[w] => Searched(p)'
           Done(n) == \A i \in 1 .. n : stop' \/ Covered(Leaves[prefix[w]][i])'
<1>d. ASSUME pc'[w] \in InJob => Behind,
             pc'[w] = "search" => Done(leaf'[w]),
             pc'[w] \in Recording => Done(leaf'[w] - 1),
             pc'[w] = "prefixDone" => stop' \/ Searched(prefix[w])'
      PROVE  Progress(w)'
  BY <1>d DEF Progress, JobPrefixes, Searched, Covered
<1> HIDE DEF Behind, Done
<1>1. CASE CheckStop(w)
  <2>1. pc'[w] \in {"retire", "claim"}
    BY <1>1 DEF TypeOK, CheckStop, Goto
  <2> QED BY <2>1, <1>d DEF InJob, Recording
<1>2. CASE ClaimJob(w)
  <2>1. CASE nextJob >= JobCount
    <3>1. pc'[w] = "retire"
      BY <1>2, <2>1 DEF TypeOK, ClaimJob, Ticket, Goto
    <3> QED BY <3>1, <1>d DEF InJob, Recording
  <2>2. CASE ~(nextJob >= JobCount)
    <3>1. /\ pc'[w] = "nextPrefix" /\ slot'[w] = nextJob
          /\ prefix'[w] = RangeBegin(PrefixCount, JobCount, jobOrder[nextJob])
      BY <1>2, <2>2 DEF TypeOK, ClaimJob, Ticket, Goto
    <3>2. jobOrder[nextJob] \in Jobs
      BY <2>2, CountsTyped DEF TypeOK, Jobs
    <3>3. JobOf(w)' = jobOrder[nextJob]
      BY <1>m, <3>1
    <3>4. Behind
      <4> SUFFICES ASSUME NEW p \in JobPrefixes(JobOf(w)'), p < prefix'[w] PROVE FALSE
        BY DEF Behind
      <4> QED BY <3>1, <3>2, <3>3, JobRangeTyped DEF JobPrefixes
    <3> QED BY <3>1, <3>4, <1>d DEF Recording
  <2> QED BY <2>1, <2>2
<1>3. CASE NextPrefix(w)
  <2>1. /\ slot'[w] = slot[w] /\ prefix'[w] = prefix[w] /\ pc[w] \in InJob
        /\ leaf'[w] = 0 /\ pc'[w] \in {"search", "count"}
    BY <1>3 DEF TypeOK, NextPrefix, Goto, InJob
  <2>2. Done(leaf'[w])
    BY <2>1 DEF Done
  <2>3. Behind
    BY <1>b, <2>1 DEF Behind
  <2> QED BY <2>1, <2>2, <2>3, <1>d DEF Recording
<1>4. CASE CountJob(w)
  <2>1. pc'[w] = "checkStop"
    BY <1>4 DEF TypeOK, CountJob, Goto
  <2> QED BY <2>1, <1>d DEF InJob, Recording
<1>5. CASE VisitLeaf(w)
  <2>1. /\ slot'[w] = slot[w] /\ prefix'[w] = prefix[w] /\ pc[w] = "search"
        /\ leaf'[w] = leaf[w] + 1 /\ leaf[w] \in Nat /\ pc'[w] \in {"remember", "load"}
    BY <1>5 DEF TypeOK, VisitLeaf, Goto
  <2>2. Behind
    BY <1>b, <2>1 DEF Behind, InJob
  <2>3. \A i \in 1 .. leaf[w] : stop \/ Covered(Leaves[prefix[w]][i])
    BY <1>p, <2>1 DEF Progress
  <2>4. Done(leaf'[w] - 1)
    <3>1. leaf'[w] - 1 = leaf[w]
      BY <2>1
    <3> QED BY <1>c, <2>1, <2>3, <3>1 DEF Done
  <2> QED BY <2>1, <2>2, <2>4, <1>d
<1>6. CASE PollStop(w)
  <2>1. /\ slot'[w] = slot[w] /\ prefix'[w] = prefix[w] /\ pc[w] \in InJob
        /\ stop' /\ pc'[w] = "prefixDone"
    BY <1>6 DEF TypeOK, PollStop, Goto, InJob, sharedVars
  <2>2. Behind
    BY <1>b, <2>1 DEF Behind
  <2> QED BY <2>1, <2>2, <1>d DEF Recording
<1>7. CASE HitNodeLimit(w)
  <2>1. /\ slot'[w] = slot[w] /\ prefix'[w] = prefix[w] /\ pc[w] \in InJob
        /\ stop' /\ pc'[w] = "prefixDone"
    BY <1>7 DEF TypeOK, HitNodeLimit, StopAtNodeLimit, Goto, InJob, sharedVars
  <2>2. Behind
    BY <1>b, <2>1 DEF Behind
  <2> QED BY <2>1, <2>2, <1>d DEF Recording
<1>8. CASE AllocFails(w)
  <2>1. /\ slot'[w] = slot[w] /\ prefix'[w] = prefix[w] /\ pc[w] \in InJob
        /\ stop' /\ pc'[w] = "prefixDone"
    BY <1>8 DEF TypeOK, AllocFails, Goto, InJob, sharedVars
  <2>2. Behind
    BY <1>b, <2>1 DEF Behind
  <2> QED BY <2>1, <2>2, <1>d DEF Recording
<1>9. CASE FinishPrefix(w)
  <2>1. /\ slot'[w] = slot[w] /\ prefix' = prefix /\ pc[w] = "search"
        /\ leaf[w] = Len(Leaves[prefix[w]]) /\ pc'[w] = "prefixDone"
        /\ prefix[w] \in explored' /\ stop' = stop
    BY <1>9 DEF TypeOK, FinishPrefix, Goto, sharedVars
  <2>2. Behind
    BY <1>b, <2>1 DEF Behind, InJob
  <2>3. \A i \in 1 .. leaf[w] : stop \/ Covered(Leaves[prefix[w]][i])
    BY <1>p, <2>1 DEF Progress
  <2>4. ASSUME ~stop' PROVE Searched(prefix[w])'
    <3>1. \A i \in 1 .. Len(Leaves[prefix[w]]) : Covered(Leaves[prefix[w]][i])
      BY <2>1, <2>3, <2>4
    <3>2. \A e \in Items(Leaves[prefix[w]]) : Covered(e)
      <4> HIDE DEF Covered
      <4> QED BY <3>1 DEF Items
    <3>3. \A e : Covered(e) => Covered(e)'
      BY CoveredStays
    <3>4. \A e : e \in Items(Leaves[prefix[w]]) => Covered(e)'
      BY <3>2, <3>3
    <3> QED BY <2>1, <3>4 DEF Searched, Covered
  <2> HIDE DEF Searched
  <2> QED BY <2>1, <2>2, <2>4, <1>d DEF Recording
<1>10. CASE LeavePrefix(w)
  <2>1. CASE ShouldStop(w)
    <3>1. pc'[w] = "retire"
      BY <1>10, <2>1 DEF TypeOK, LeavePrefix, Goto
    <3> QED BY <3>1, <1>d DEF InJob, Recording
  <2>2. CASE ~ShouldStop(w)
    <3>1. /\ pc[w] = "prefixDone" /\ ~stop /\ slot'[w] = slot[w] /\ prefix[w] \in Nat
          /\ prefix'[w] = prefix[w] + 1 /\ pc'[w] = "nextPrefix"
      BY <1>10, <2>2 DEF TypeOK, LeavePrefix, ShouldStop, Goto
    <3>2. JobOf(w)' = JobOf(w)
      BY <1>m, <3>1
    <3>3. Searched(prefix[w])
      BY <1>p, <3>1 DEF Progress
    <3>4. Behind
      <4> SUFFICES ASSUME NEW p \in JobPrefixes(JobOf(w)), p < prefix'[w]
                   PROVE  Searched(p)'
        BY <3>2 DEF Behind
      <4>1. p \in Int
        BY DEF JobPrefixes
      <4>2. Searched(p)
        <5>1. CASE p = prefix[w]
          BY <3>3, <5>1
        <5>2. CASE p < prefix[w]
          BY <1>p, <3>1, <5>2 DEF Progress, InJob
        <5> QED BY <3>1, <4>1, <5>1, <5>2
      <4> QED BY <4>2, SearchedStays
    <3> QED BY <3>1, <3>4, <1>d DEF Recording
  <2> QED BY <2>1, <2>2
<1>11. CASE RememberExtension(w)
  <2>1. /\ slot'[w] = slot[w] /\ prefix'[w] = prefix[w] /\ pc[w] = "remember"
        /\ leaf'[w] = leaf[w] /\ leaf[w] \in Nat /\ leaf[w] >= 1
    BY <1>11 DEF TypeOK, RememberExtension, Goto, PlaceInv, Place, Recording
  <2>2. Behind
    BY <1>b, <2>1 DEF Behind, InJob
  <2>3. \A i \in 1 .. leaf[w] - 1 : stop \/ Covered(Leaves[prefix[w]][i])
    BY <1>p, <2>1 DEF Progress, Recording
  <2>4. CASE Known(w)
    <3>1. pc'[w] = "search" /\ Found(w) \in remembered
      BY <1>11, <2>4 DEF TypeOK, RememberExtension, Known, Goto
    <3>2. Covered(Leaves[prefix[w]][leaf[w]])
      BY <3>1 DEF ProgressInv, Found
    <3>3. Done(leaf'[w])
      <4> QED BY <1>c, <2>1, <2>3, <3>2 DEF Done
    <3> QED BY <2>2, <3>1, <3>3, <1>d DEF Recording
  <2>5. CASE ~Known(w)
    <3>1. pc'[w] = "load"
      BY <1>11, <2>5 DEF TypeOK, RememberExtension, Goto
    <3>2. Done(leaf'[w] - 1)
      <4> QED BY <1>c, <2>1, <2>3 DEF Done
    <3> QED BY <2>2, <3>1, <3>2, <1>d
  <2> QED BY <2>4, <2>5
<1>12. CASE LoadCount(w)
  <2>1. /\ slot'[w] = slot[w] /\ prefix'[w] = prefix[w] /\ pc[w] \in Recording
        /\ leaf'[w] = leaf[w] /\ leaf[w] \in Nat /\ pc'[w] \in {"cas"}
    BY <1>12 DEF TypeOK, LoadCount, Goto, Recording
  <2>2. Behind
    BY <1>b, <2>1 DEF Behind, InJob, Recording
  <2>3. \A i \in 1 .. leaf[w] - 1 : stop \/ Covered(Leaves[prefix[w]][i])
    BY <1>p, <2>1 DEF Progress
  <2>4. Done(leaf'[w] - 1)
    <3> QED BY <1>c, <2>1, <2>3 DEF Done
  <2> QED BY <2>1, <2>2, <2>4, <1>d
<1>13. CASE CompareExchange(w)
  <2>1. /\ slot'[w] = slot[w] /\ prefix'[w] = prefix[w] /\ pc[w] \in Recording
        /\ leaf'[w] = leaf[w] /\ leaf[w] \in Nat /\ pc'[w] \in {"cas", "enqueue"}
    BY <1>13 DEF TypeOK, CompareExchange, Unchanged, AtLimit, Goto, Recording
  <2>2. Behind
    BY <1>b, <2>1 DEF Behind, InJob, Recording
  <2>3. \A i \in 1 .. leaf[w] - 1 : stop \/ Covered(Leaves[prefix[w]][i])
    BY <1>p, <2>1 DEF Progress
  <2>4. Done(leaf'[w] - 1)
    <3> QED BY <1>c, <2>1, <2>3 DEF Done
  <2> QED BY <2>1, <2>2, <2>4, <1>d
<1>14. CASE Enqueue(w)
  <2>1. /\ slot'[w] = slot[w] /\ prefix'[w] = prefix[w] /\ pc[w] \in Recording
        /\ leaf'[w] = leaf[w] /\ leaf[w] \in Nat /\ pc'[w] \in {"notify", "limit"}
    BY <1>14 DEF TypeOK, Enqueue, Goto, Recording
  <2>2. Behind
    BY <1>b, <2>1 DEF Behind, InJob, Recording
  <2>3. \A i \in 1 .. leaf[w] - 1 : stop \/ Covered(Leaves[prefix[w]][i])
    BY <1>p, <2>1 DEF Progress
  <2>4. Done(leaf'[w] - 1)
    <3> QED BY <1>c, <2>1, <2>3 DEF Done
  <2> QED BY <2>1, <2>2, <2>4, <1>d
<1>15. CASE NotifyWatcher(w)
  <2>1. /\ slot'[w] = slot[w] /\ prefix'[w] = prefix[w] /\ pc[w] \in Recording
        /\ leaf'[w] = leaf[w] /\ leaf[w] \in Nat /\ pc'[w] \in {"limit"}
    BY <1>15 DEF TypeOK, NotifyWatcher, WakeWatcher, Goto, Recording
  <2>2. Behind
    BY <1>b, <2>1 DEF Behind, InJob, Recording
  <2>3. \A i \in 1 .. leaf[w] - 1 : stop \/ Covered(Leaves[prefix[w]][i])
    BY <1>p, <2>1 DEF Progress
  <2>4. Done(leaf'[w] - 1)
    <3> QED BY <1>c, <2>1, <2>3 DEF Done
  <2> QED BY <2>1, <2>2, <2>4, <1>d
<1>16. CASE ReserveRefused(w)
  <2>1. /\ slot'[w] = slot[w] /\ prefix'[w] = prefix[w] /\ pc[w] \in InJob
        /\ stop' /\ pc'[w] = "search"
    BY <1>16 DEF TypeOK, ReserveRefused, Goto, InJob
  <2>2. Behind
    BY <1>b, <2>1 DEF Behind
  <2>3. Done(leaf'[w])
    BY <2>1 DEF Done
  <2> QED BY <2>1, <2>2, <2>3, <1>d DEF Recording
<1>17. CASE ReachLimit(w)
  <2>1. /\ slot'[w] = slot[w] /\ prefix'[w] = prefix[w] /\ pc[w] = "limit"
        /\ leaf'[w] = leaf[w] /\ leaf[w] \in Nat /\ leaf[w] >= 1 /\ pc'[w] = "search"
    BY <1>17 DEF TypeOK, ReachLimit, Goto, PlaceInv, Place, Recording
  <2>2. Behind
    BY <1>b, <2>1 DEF Behind, InJob
  <2>3. \A i \in 1 .. leaf[w] - 1 : stop \/ Covered(Leaves[prefix[w]][i])
    BY <1>p, <2>1 DEF Progress, Recording
  <2>4. Covered(Leaves[prefix[w]][leaf[w]])
    <3>1. [number |-> current[w], encoding |-> Found(w)] \in numbering
      BY <2>1 DEF ReservationInv, Reserved, NumberedSteps
    <3> QED BY <3>1 DEF Covered, Numbered, Found
  <2>5. Done(leaf'[w])
    <3> QED BY <1>c, <2>1, <2>3, <2>4 DEF Done
  <2> QED BY <2>1, <2>2, <2>5, <1>d DEF Recording
<1>18. CASE Retire(w)
  <2>1. pc'[w] = "exited"
    BY <1>18 DEF TypeOK, Retire, Goto
  <2> QED BY <2>1, <1>d DEF InJob, Recording
<1> QED BY <1>1, <1>2, <1>3, <1>4, <1>5, <1>6, <1>7, <1>8, <1>9, <1>10,
        <1>11, <1>12, <1>13, <1>14, <1>15, <1>16, <1>17, <1>18 DEF Worker

(* The only step that remembers an encoding, and the only one that counts.  *)
LEMMA RememberedChange ==
    ASSUME [Next]_vars, remembered' # remembered
    PROVE  \E w \in Workers : RememberExtension(w)
  BY ZenonT(30) DEF Next, Worker, MainThread, CheckStop, ClaimJob, NextPrefix, CountJob, VisitLeaf, PollStop, HitNodeLimit,
    FinishPrefix, LeavePrefix, AllocFails, RememberExtension, LoadCount,
    ReserveRefused, CompareExchange, Enqueue, NotifyWatcher, ReachLimit, Retire,
    ActivateWorker, CreateWorker, CreateFails, LockEvent, TestActive, PollInterrupt,
    WatchDrain, RecheckActive, StartWait, WaitExpires, JoinWorkers, CheckErrors,
    CheckUnfinished, Report, Exit,
    Interrupt, vars, sharedVars, workerVars, mainVars, history

LEMMA CompletedChange ==
    ASSUME [Next]_vars, completed' # completed
    PROVE  \E w \in Workers : CountJob(w)
  BY ZenonT(30) DEF Next, Worker, MainThread, CheckStop, ClaimJob, NextPrefix, CountJob, VisitLeaf, PollStop, HitNodeLimit,
    FinishPrefix, LeavePrefix, AllocFails, RememberExtension, LoadCount,
    ReserveRefused, CompareExchange, Enqueue, NotifyWatcher, ReachLimit, Retire,
    ActivateWorker, CreateWorker, CreateFails, LockEvent, TestActive, PollInterrupt,
    WatchDrain, RecheckActive, StartWait, WaitExpires, JoinWorkers, CheckErrors,
    CheckUnfinished, Report, Exit,
    Interrupt, vars, sharedVars, workerVars, mainVars, history

LEMMA ProgressStep ==
    ASSUME TypeOK, CreationInv, PlaceInv, NumbersAreDense, ReservationInv, StopInv,
           ProgressInv, [Next]_vars
    PROVE  ProgressInv'
<1>1. ASSUME NEW v \in Workers PROVE Progress(v)'
  <2>0. Progress(v)
    BY DEF ProgressInv
  <2>1. ASSUME NEW w \in Workers, Worker(w) PROVE Progress(v)'
    <3>1. CASE v = w
      BY <2>1, <3>1, ProgressOfMover
    <3>2. CASE v # w
      <4>1. /\ pc'[v] = pc[v] /\ slot'[v] = slot[v]
            /\ prefix'[v] = prefix[v] /\ leaf'[v] = leaf[v]
        BY <2>1, <3>2, OthersStay DEF OthersKeep
      <4> QED BY <2>0, <4>1, ProgressStays
    <3> QED BY <3>1, <3>2
  <2>2. CASE MainThread \/ Interrupt \/ UNCHANGED vars
    <3>1. slot'[v] = slot[v] /\ prefix'[v] = prefix[v] /\ leaf'[v] = leaf[v]
      BY <2>2, MainKeeps
    <3>2. pc'[v] = pc[v] \/ (pc'[v] \notin InJob /\ pc'[v] \notin Recording)
      BY <2>2, MainKeeps DEF InJob, Recording
    <3> QED BY <2>0, <3>1, <3>2, ProgressStays
  <2> QED BY <2>1, <2>2 DEF Next
<1>2. ASSUME NEW e \in remembered' PROVE Covered(e)'
  <2>1. CASE e \in remembered
    BY <2>1, CoveredStays DEF ProgressInv
  <2>2. CASE e \notin remembered
    <3>1. PICK w \in Workers : RememberExtension(w)
      BY <2>2, RememberedChange
    <3>2. /\ pc'[w] = "load" /\ Extension /\ e = Found(w)
          /\ prefix' = prefix /\ leaf' = leaf
      BY <2>2, <3>1 DEF RememberExtension, Goto, TypeOK, PlaceInv, Place
    <3> QED BY <3>2 DEF Covered, Reserving, Found
  <2> QED BY <2>1, <2>2
<1>3. ASSUME NEW s \in completed' PROVE \A p \in JobPrefixes(jobOrder'[s]) : Searched(p)'
  <2>1. CASE s \in completed
    <3>1. \A p \in JobPrefixes(jobOrder[s]) : Searched(p)
      BY <2>1 DEF ProgressInv
    <3>2. jobOrder' = jobOrder
      BY Monotone
    <3> QED BY <3>1, <3>2, SearchedStays
  <2>2. CASE s \notin completed
    <3>1. PICK w \in Workers : CountJob(w)
      BY <2>2, CompletedChange
    <3>2. pc[w] = "count" /\ s = slot[w] /\ jobOrder' = jobOrder
      BY <2>2, <3>1 DEF CountJob, sharedVars
    <3>3. prefix[w] = RangeEnd(PrefixCount, JobCount, JobOf(w)) /\ slot[w] \in Jobs
      BY <3>2 DEF PlaceInv, Place, InJob
    <3>4. JobOf(w) \in Jobs
      BY <3>3 DEF JobOf, TypeOK
    <3>5. ASSUME NEW p \in JobPrefixes(JobOf(w)) PROVE p < prefix[w]
      BY <3>3, <3>4, JobRangeTyped DEF JobPrefixes
    <3>6. \A p \in JobPrefixes(JobOf(w)) : Searched(p)
      BY <3>2, <3>5 DEF ProgressInv, Progress, InJob
    <3>7. JobPrefixes(jobOrder'[s]) = JobPrefixes(JobOf(w))
      BY <3>2 DEF JobOf
    <3> QED BY <3>6, <3>7, SearchedStays
  <2> QED BY <2>1, <2>2
<1>4. \A s \in completed' : \A p \in JobPrefixes(jobOrder'[s]) : Searched(p)'
  BY <1>3
<1>5. ProgressInv' <=> /\ \A w \in Workers : Progress(w)'
                       /\ \A e \in remembered' : Covered(e)'
                       /\ \A s \in completed' : \A p \in JobPrefixes(jobOrder'[s]) : Searched(p)'
  BY DEF ProgressInv, JobPrefixes
<1> HIDE DEF Progress, Covered, Searched
<1> QED BY <1>1, <1>2, <1>4, <1>5

(* A number is only given by a compare-and-exchange, to a leaf.             *)
LEMMA NumberingChange ==
    ASSUME [Next]_vars, numbering' # numbering
    PROVE  \E w \in Workers : CompareExchange(w)
  BY ZenonT(30) DEF Next, Worker, MainThread, CheckStop, ClaimJob, NextPrefix, CountJob, VisitLeaf, PollStop, HitNodeLimit,
    FinishPrefix, LeavePrefix, AllocFails, RememberExtension, LoadCount,
    ReserveRefused, CompareExchange, Enqueue, NotifyWatcher, ReachLimit, Retire,
    ActivateWorker, CreateWorker, CreateFails, LockEvent, TestActive, PollInterrupt,
    WatchDrain, RecheckActive, StartWait, WaitExpires, JoinWorkers, CheckErrors,
    CheckUnfinished, Report, Exit,
    Interrupt, vars, sharedVars, workerVars, mainVars, history

LEMMA OriginStep ==
    ASSUME TypeOK, PlaceInv, OriginInv, [Next]_vars
    PROVE  OriginInv'
<1>1. jobOrder' \in JobOrders
  BY Monotone DEF OriginInv
<1>2. CASE numbering' = numbering
  BY <1>1, <1>2 DEF OriginInv, Numbered
<1>3. CASE numbering' # numbering
  <2>1. PICK w \in Workers : CompareExchange(w)
    BY <1>3, NumberingChange
  <2>2. pc[w] = "cas" /\ Numbered' \subseteq Numbered \union {Found(w)}
    BY <2>1 DEF CompareExchange, Numbered
  <2>3. prefix[w] \in Prefixes /\ leaf[w] \in 1 .. Len(Leaves[prefix[w]])
    BY <2>2, PrefixTyped, SMTT(30) DEF PlaceInv, Place, Recording, Searching, TypeOK
  <2>4. Found(w) \in AllLeaves
    BY <2>3 DEF Found, AllLeaves, Items
  <2> QED BY <1>1, <2>2, <2>4 DEF OriginInv
<1> QED BY <1>2, <1>3

-----------------------------------------------------------------------------
(* What becomes of a number: who may give it, to what, and how it gets     *)
(* printed.                                                                *)

(* Worker w gets the next number for the configuration it has found.       *)
TakesNumber(w) ==
    /\ pc[w] = "cas" /\ ~AtLimit(configurations)
    /\ configurations' = configurations + 1
    /\ numbering' = numbering \union {[number |-> configurations + 1, encoding |-> Found(w)]}
    /\ current' = [current EXCEPT ![w] = configurations + 1]
    /\ pc' = [pc EXCEPT ![w] = "enqueue"]
    /\ UNCHANGED <<nextJob, remembered, internalError, queue, slot, prefix, leaf, mainVars>>

(* Worker w puts its solution on the line.                                 *)
Puts(w) ==
    /\ pc[w] = "enqueue" /\ current[w] <= PrintLimit
    /\ Line' = Append(Line, [number |-> current[w], encoding |-> Found(w)])
    /\ pc' = [pc EXCEPT ![w] = "notify"]
    /\ UNCHANGED <<current, configurations, numbering, internalError>>

(* A worker that neither gets nor puts a number keeps the one it has.      *)
Keeps(w) ==
    /\ pc'[w] \in NumberedSteps => pc[w] \in NumberedSteps /\ current'[w] = current[w]
    /\ pc'[w] = "enqueue" => pc[w] = "enqueue"
    /\ pc[w] = "enqueue" /\ current[w] <= PrintLimit => pc'[w] = "enqueue" \/ internalError'

(* Nothing of a worker changes in this step.                               *)
Same(v) ==
    /\ pc'[v] = pc[v] /\ slot'[v] = slot[v] /\ prefix'[v] = prefix[v]
    /\ leaf'[v] = leaf[v] /\ current'[v] = current[v]

(* A worker in a job goes on at its prefix, *)
Proceeds(w) ==
    /\ pc[w] \in Searching /\ slot'[w] = slot[w] /\ prefix'[w] = prefix[w]
    /\ pc'[w] \in AtPrefix => pc[w] \in AtPrefix
    /\ \/ leaf'[w] = leaf[w] /\ (pc'[w] \in Unnumbered => pc[w] \in Unnumbered)
       \/ pc[w] = "search" /\ pc'[w] \in Unnumbered /\ leaf'[w] = leaf[w] + 1

(* or enters it, *)
Enters(w) ==
    /\ pc[w] = "nextPrefix" /\ pc'[w] = "search" /\ leaf'[w] = 0
    /\ slot'[w] = slot[w] /\ prefix'[w] = prefix[w]
    /\ prefix[w] < RangeEnd(PrefixCount, JobCount, JobOf(w))

(* or leaves it for the next one; *)
Advances(w) ==
    /\ pc[w] = "prefixDone" /\ pc'[w] = "nextPrefix"
    /\ slot'[w] = slot[w] /\ prefix'[w] = prefix[w] + 1

(* and one that draws a job draws the next. *)
Draws(w) ==
    /\ pc'[w] = "nextPrefix" /\ slot'[w] = nextJob /\ nextJob < JobCount
    /\ nextJob' = nextJob + 1

Moves(w) ==
    /\ pc'[w] \in Searching => Proceeds(w) \/ Enters(w)
    /\ pc'[w] = "nextPrefix" =>
           \/ Advances(w) \/ Draws(w)
           \/ pc[w] = "nextPrefix" /\ slot'[w] = slot[w] /\ prefix'[w] = prefix[w]
    /\ Reserving(w)' =>
           \/ Reserving(w) /\ prefix'[w] = prefix[w] /\ leaf'[w] = leaf[w]
           \/ ~Extension
           \/ /\ pc[w] = "remember" /\ ~Known(w)
              /\ remembered' = remembered \union {Found(w)}
              /\ prefix'[w] = prefix[w] /\ leaf'[w] = leaf[w] /\ UNCHANGED numbering

-----------------------------------------------------------------------------
LEMMA ReportStep ==
    Report =>
        /\ mainPc = "report" /\ mainPc' = "exit"
        /\ interrupted => verdict' = "interrupted"
        /\ ~interrupted /\ nodeLimitHit => verdict' = "nodeLimit"
        /\ ~interrupted /\ ~nodeLimitHit /\ LimitReached => verdict' = "solutionLimit"
        /\ ~interrupted /\ ~nodeLimitHit /\ ~LimitReached =>
               verdict' = IF exitStatus = "success" THEN "complete" ELSE "failed"
        /\ UNCHANGED <<sharedVars, workerVars, created, interrupted, exitStatus, printed,
                       history>>
  BY Zenon DEF Report, MainGoto

(* The numbering grows by the next number, and no other way.              *)
LEMMA NumberingFrame ==
    ASSUME TypeOK, [Next]_vars
    PROVE  \/ \E u \in Workers : TakesNumber(u)
           \/ UNCHANGED <<configurations, numbering>>
<1>1. ASSUME NEW w \in Workers, Worker(w)
      PROVE  \/ \E u \in Workers : TakesNumber(u)
             \/ UNCHANGED <<configurations, numbering>>
  <2>1. CASE CheckStop(w) \/ ClaimJob(w) \/ NextPrefix(w) \/ CountJob(w) \/ VisitLeaf(w)
      \/ PollStop(w)
    BY <2>1
    DEF CheckStop, Goto, ClaimJob, Ticket, NextPrefix, CountJob, VisitLeaf, PollStop,
        sharedVars, history
  <2>2. CASE HitNodeLimit(w) \/ FinishPrefix(w) \/ LeavePrefix(w) \/ AllocFails(w) \/
      RememberExtension(w) \/ LoadCount(w)
    BY <2>2
    DEF HitNodeLimit, StopAtNodeLimit, Goto, FinishPrefix, LeavePrefix, AllocFails,
        RememberExtension, LoadCount, sharedVars, history
  <2>3. CASE ReserveRefused(w)
    BY <2>3
    DEF ReserveRefused, Goto, sharedVars, history
  <2>4. CASE CompareExchange(w)
    <3>1. CASE Unchanged(w)
      BY <2>4, <3>1 DEF CompareExchange, TakesNumber, Unchanged, Goto, mainVars
    <3>2. CASE ~Unchanged(w)
      BY <2>4, <3>2 DEF CompareExchange
    <3> QED BY <3>1, <3>2
  <2>5. CASE Enqueue(w) \/ NotifyWatcher(w) \/ ReachLimit(w) \/ Retire(w)
    BY <2>5
    DEF Enqueue, Goto, NotifyWatcher, WakeWatcher, ReachLimit, Retire, sharedVars,
        history
  <2> QED BY <1>1, <2>1, <2>2, <2>3, <2>4, <2>5 DEF Worker
<1>2. CASE MainThread
  <2>1. CASE ActivateWorker \/ CreateWorker \/ CreateFails \/ LockEvent \/ TestActive \/
      PollInterrupt
    BY <2>1
    DEF ActivateWorker, MainGoto, CreateWorker, CreateFails, LockEvent, TestActive,
        PollInterrupt, sharedVars, history
  <2>2. CASE WatchDrain \/ RecheckActive \/ StartWait \/ WaitExpires \/ JoinWorkers \/
      CheckErrors
    BY <2>2
    DEF WatchDrain, DrainSolutions, MainGoto, RecheckActive, StartWait, WaitExpires,
        JoinWorkers, CheckErrors, sharedVars, history
  <2>3. CASE CheckUnfinished \/ Report \/ Exit
    BY <2>3, ReportStep
    DEF CheckUnfinished, MainGoto, Exit, sharedVars, history
  <2> QED BY <1>2, <2>1, <2>2, <2>3 DEF MainThread
<1>3. CASE Interrupt \/ UNCHANGED vars
  BY <1>3
  DEF Interrupt, vars, sharedVars, history
<1> QED BY <1>1, <1>2, <1>3 DEF Next

LEMMA SameOfOthers ==
    ASSUME TypeOK,
           NEW w \in Workers, Worker(w)
    PROVE  \A v \in Workers \ {w} : Same(v)
<1>0. /\ pc \in [Workers -> WorkerSteps] /\ current \in [Workers -> Nat]
      /\ slot \in [Workers -> Nat] /\ prefix \in [Workers -> Nat] /\ leaf \in [Workers -> Nat]
  BY DEF TypeOK
<1>1. CASE CheckStop(w) \/ ClaimJob(w)
  BY <1>1, <1>0
  DEF Same, CheckStop, Goto, ClaimJob, Ticket, workerVars
<1>2. CASE NextPrefix(w) \/ CountJob(w)
  BY <1>2, <1>0
  DEF Same, NextPrefix, Goto, CountJob, workerVars
<1>3. CASE VisitLeaf(w) \/ PollStop(w)
  BY <1>3, <1>0
  DEF Same, VisitLeaf, Goto, PollStop, workerVars
<1>4. CASE HitNodeLimit(w) \/ FinishPrefix(w)
  BY <1>4, <1>0
  DEF Same, HitNodeLimit, StopAtNodeLimit, Goto, FinishPrefix, workerVars
<1>5. CASE LeavePrefix(w) \/ AllocFails(w)
  BY <1>5, <1>0
  DEF Same, LeavePrefix, Goto, AllocFails, workerVars
<1>6. CASE RememberExtension(w) \/ LoadCount(w)
  BY <1>6, <1>0
  DEF Same, RememberExtension, Goto, LoadCount, workerVars
<1>7. CASE ReserveRefused(w) \/ CompareExchange(w)
  BY <1>7, <1>0
  DEF Same, ReserveRefused, Goto, CompareExchange, workerVars
<1>8. CASE Enqueue(w) \/ NotifyWatcher(w)
  BY <1>8, <1>0
  DEF Same, Enqueue, Goto, NotifyWatcher, WakeWatcher, workerVars
<1>9. CASE ReachLimit(w) \/ Retire(w)
  BY <1>9, <1>0
  DEF Same, ReachLimit, Goto, Retire, WakeWatcher, workerVars
<1> QED BY <1>1, <1>2, <1>3, <1>4, <1>5, <1>6, <1>7, <1>8, <1>9 DEF Worker

(* Main touches no worker, but to create it.                               *)
LEMMA MainSame ==
    ASSUME MainThread \/ Interrupt \/ UNCHANGED vars
    PROVE  UNCHANGED <<current, nextJob, internalError, configurations, jobOrder>>
  BY Zenon, ReportStep DEF MainThread, ActivateWorker, CreateWorker, CreateFails, LockEvent,
      TestActive, PollInterrupt, WatchDrain, RecheckActive, StartWait, WaitExpires,
      JoinWorkers, CheckErrors, CheckUnfinished, Exit, Interrupt, vars, sharedVars,
      workerVars

(* Counters only grow, and a failure is not forgotten.                     *)
LEMMA Grows ==
    ASSUME TypeOK, [Next]_vars
    PROVE  nextJob' >= nextJob /\ configurations' >= configurations /\ (internalError => internalError')
<1>0. nextJob \in Nat /\ configurations \in Nat /\ internalError \in BOOLEAN
  BY DEF TypeOK
<1>1. ASSUME NEW w \in Workers, Worker(w)
      PROVE  nextJob' >= nextJob /\ configurations' >= configurations /\ (internalError => internalError')
  <2>1. CASE CheckStop(w) \/ ClaimJob(w) \/ NextPrefix(w)
    BY <2>1, <1>0
    DEF CheckStop, Goto, ClaimJob, Ticket, NextPrefix, sharedVars
  <2>2. CASE CountJob(w) \/ VisitLeaf(w) \/ PollStop(w)
    BY <2>2, <1>0
    DEF CountJob, Goto, VisitLeaf, PollStop, sharedVars
  <2>3. CASE HitNodeLimit(w) \/ FinishPrefix(w) \/ LeavePrefix(w)
    BY <2>3, <1>0
    DEF HitNodeLimit, StopAtNodeLimit, Goto, FinishPrefix, LeavePrefix, sharedVars
  <2>4. CASE AllocFails(w) \/ RememberExtension(w) \/ LoadCount(w)
    BY <2>4, <1>0
    DEF AllocFails, Goto, RememberExtension, LoadCount, sharedVars
  <2>5. CASE ReserveRefused(w)
    BY <2>5, <1>0
    DEF ReserveRefused, Goto, sharedVars
  <2>6. CASE CompareExchange(w)
    BY <2>6, <1>0 DEF CompareExchange, Unchanged
  <2>7. CASE Enqueue(w) \/ NotifyWatcher(w) \/ ReachLimit(w)
    BY <2>7, <1>0
    DEF Enqueue, Goto, NotifyWatcher, WakeWatcher, ReachLimit, sharedVars
  <2>8. CASE Retire(w)
    BY <2>8, <1>0
    DEF Retire, WakeWatcher, Goto, sharedVars
  <2> QED BY <1>1, <2>1, <2>2, <2>3, <2>4, <2>5, <2>6, <2>7, <2>8 DEF Worker
<1>2. CASE MainThread
  <2>1. CASE ActivateWorker \/ CreateWorker \/ CreateFails
    BY <2>1, <1>0
    DEF ActivateWorker, MainGoto, CreateWorker, CreateFails, sharedVars
  <2>2. CASE LockEvent \/ TestActive \/ PollInterrupt
    BY <2>2, <1>0
    DEF LockEvent, MainGoto, TestActive, PollInterrupt, sharedVars
  <2>3. CASE WatchDrain \/ RecheckActive \/ StartWait
    BY <2>3, <1>0
    DEF WatchDrain, DrainSolutions, MainGoto, RecheckActive, StartWait, sharedVars
  <2>4. CASE WaitExpires \/ JoinWorkers \/ CheckErrors
    BY <2>4, <1>0
    DEF WaitExpires, MainGoto, JoinWorkers, DrainSolutions, CheckErrors, sharedVars
  <2>5. CASE CheckUnfinished \/ Report \/ Exit
    BY <2>5, <1>0, ReportStep
    DEF CheckUnfinished, MainGoto, Exit, sharedVars
  <2> QED BY <1>2, <2>1, <2>2, <2>3, <2>4, <2>5 DEF MainThread
<1>3. CASE Interrupt \/ UNCHANGED vars
  BY <1>3, <1>0
  DEF Interrupt, vars, sharedVars
<1> QED BY <1>1, <1>2, <1>3 DEF Next

LEMMA MovesOfMover ==
    ASSUME TypeOK,
           NEW w \in Workers, Worker(w)
    PROVE  Moves(w)
<1>0. /\ pc \in [Workers -> WorkerSteps] /\ slot \in [Workers -> Nat]
      /\ leaf \in [Workers -> Nat] /\ prefix \in [Workers -> Nat]
      /\ nextJob \in Nat /\ Extension \in BOOLEAN
  BY DriverAssumption DEF TypeOK
<1>1. CASE CheckStop(w)
  BY <1>1, <1>0
  DEF Moves, Proceeds, Enters, Advances, Draws, Reserving, WorkerSteps, Searching,
      AtPrefix, Unnumbered, CheckStop, Goto, workerVars, history
<1>2. CASE ClaimJob(w)
  <2>1. CASE nextJob >= JobCount
    BY <1>2, <1>0, <2>1 DEF ClaimJob, Ticket, Goto, Moves, Searching, AtPrefix, Reserving
  <2>2. CASE nextJob < JobCount
    <3>1. ~(nextJob >= JobCount)
      BY <1>0, <2>2, CountsTyped
    <3>2. pc'[w] = "nextPrefix" /\ slot'[w] = nextJob /\ nextJob' = nextJob + 1
      BY <1>2, <1>0, <3>1, Zenon DEF ClaimJob, Ticket, Goto
    <3> QED BY <2>2, <3>2 DEF Moves, Draws, Searching, Reserving
  <2> QED BY <1>0, <2>1, <2>2, CountsTyped
<1>3. CASE NextPrefix(w)
  BY <1>3, <1>0
  DEF Moves, Proceeds, Enters, Advances, Draws, Reserving, WorkerSteps, Searching,
      AtPrefix, Unnumbered, NextPrefix, Goto, workerVars, history
<1>4. CASE CountJob(w)
  BY <1>4, <1>0
  DEF Moves, Proceeds, Enters, Advances, Draws, Reserving, WorkerSteps, Searching,
      AtPrefix, Unnumbered, CountJob, Goto, workerVars, history
<1>5. CASE VisitLeaf(w)
  BY <1>5, <1>0
  DEF Moves, Proceeds, Enters, Advances, Draws, Reserving, WorkerSteps, Searching,
      AtPrefix, Unnumbered, VisitLeaf, Goto, workerVars, history
<1>6. CASE PollStop(w)
  BY <1>6, <1>0
  DEF Moves, Proceeds, Enters, Advances, Draws, Reserving, WorkerSteps, Searching,
      AtPrefix, Unnumbered, PollStop, Goto, workerVars, history
<1>7. CASE HitNodeLimit(w)
  BY <1>7, <1>0
  DEF Moves, Proceeds, Enters, Advances, Draws, Reserving, WorkerSteps, Searching,
      AtPrefix, Unnumbered, HitNodeLimit, StopAtNodeLimit, Goto, workerVars, history
<1>8. CASE FinishPrefix(w)
  BY <1>8, <1>0
  DEF Moves, Proceeds, Enters, Advances, Draws, Reserving, WorkerSteps, Searching,
      AtPrefix, Unnumbered, FinishPrefix, Goto, workerVars, history
<1>9. CASE LeavePrefix(w)
  <2>1. CASE ShouldStop(w)
    BY <1>9, <1>0, <2>1 DEF LeavePrefix, Goto, Moves, Searching, Reserving
  <2>2. CASE ~ShouldStop(w)
    <3>1. /\ pc[w] = "prefixDone" /\ pc'[w] = "nextPrefix"
          /\ slot'[w] = slot[w] /\ prefix'[w] = prefix[w] + 1
      BY <1>9, <1>0, <2>2 DEF LeavePrefix, Goto
    <3> QED BY <3>1 DEF Moves, Advances, Searching, Reserving
  <2> QED BY <2>1, <2>2
<1>10. CASE AllocFails(w)
  BY <1>10, <1>0
  DEF Moves, Proceeds, Enters, Advances, Draws, Reserving, WorkerSteps, Searching,
      AtPrefix, Unnumbered, AllocFails, Goto, workerVars, history
<1>11. CASE RememberExtension(w)
  BY <1>11, <1>0
  DEF Moves, Proceeds, Enters, Advances, Draws, Reserving, WorkerSteps, Searching,
      AtPrefix, Unnumbered, RememberExtension, Goto, workerVars, history
<1>12. CASE LoadCount(w)
  BY <1>12, <1>0
  DEF Moves, Proceeds, Enters, Advances, Draws, Reserving, WorkerSteps, Searching,
      AtPrefix, Unnumbered, LoadCount, Goto, workerVars, history
<1>13. CASE ReserveRefused(w)
  BY <1>13, <1>0
  DEF Moves, Proceeds, Enters, Advances, Draws, Reserving, WorkerSteps, Searching,
      AtPrefix, Unnumbered, ReserveRefused, Goto, workerVars, history
<1>14. CASE CompareExchange(w)
  BY <1>14, <1>0
  DEF Moves, Proceeds, Enters, Advances, Draws, Reserving, WorkerSteps, Searching,
      AtPrefix, Unnumbered, CompareExchange, Goto, workerVars, history
<1>15. CASE Enqueue(w)
  BY <1>15, <1>0
  DEF Moves, Proceeds, Enters, Advances, Draws, Reserving, WorkerSteps, Searching,
      AtPrefix, Unnumbered, Enqueue, Goto, workerVars, history
<1>16. CASE NotifyWatcher(w)
  BY <1>16, <1>0
  DEF Moves, Proceeds, Enters, Advances, Draws, Reserving, WorkerSteps, Searching,
      AtPrefix, Unnumbered, NotifyWatcher, WakeWatcher, Goto, workerVars, history
<1>17. CASE ReachLimit(w)
  BY <1>17, <1>0
  DEF Moves, Proceeds, Enters, Advances, Draws, Reserving, WorkerSteps, Searching,
      AtPrefix, Unnumbered, ReachLimit, Goto, workerVars, history
<1>18. CASE Retire(w)
  BY <1>18, <1>0
  DEF Moves, Proceeds, Enters, Advances, Draws, Reserving, WorkerSteps, Searching,
      AtPrefix, Unnumbered, Retire, WakeWatcher, Goto, workerVars, history
<1> QED BY <1>1, <1>2, <1>3, <1>4, <1>5, <1>6, <1>7, <1>8, <1>9, <1>10, <1>11, <1>12,
    <1>13, <1>14, <1>15, <1>16, <1>17, <1>18 DEF Worker

(* How a worker can come to be where it is after a step.                   *)
LEMMA EachMoves ==
    ASSUME TypeOK, CreationInv, [Next]_vars, NEW v \in Workers
    PROVE  Moves(v)
<1>1. ASSUME NEW w \in Workers, Worker(w)
      PROVE  Moves(v)
  <2>1. CASE v = w
    BY <1>1, <2>1, MovesOfMover
  <2>2. CASE v # w
    <3>1. pc'[v] = pc[v] /\ slot'[v] = slot[v] /\ prefix'[v] = prefix[v] /\ leaf'[v] = leaf[v]
      BY <1>1, <2>2, OthersStay DEF OthersKeep
    <3> QED BY <3>1 DEF Moves, Proceeds, Reserving
  <2> QED BY <2>1, <2>2
<1>2. CASE MainThread \/ Interrupt \/ UNCHANGED vars
  <2>1. slot' = slot /\ prefix' = prefix /\ leaf' = leaf
    BY <1>2, MainKeeps
  <2>2. pc'[v] = pc[v] \/ (pc[v] = "absent" /\ pc'[v] = "checkStop")
    BY <1>2, MainKeeps
  <2> QED BY <2>1, <2>2 DEF Moves, Proceeds, Searching, Reserving
<1> QED BY <1>1, <1>2 DEF Next

(* Who takes a number numbers what it has found.                           *)
LEMMA NumberedGrows ==
    ASSUME NEW w \in Workers, TakesNumber(w)
    PROVE  Numbered' = Numbered \union {Found(w)}
<1> DEFINE r == [number |-> configurations + 1, encoding |-> Found(w)]
<1>1. numbering' = numbering \union {r} /\ r.encoding = Found(w)
  BY DEF TakesNumber
<1> HIDE DEF r
<1> QED BY <1>1 DEF Numbered

LEMMA NumberTaker ==
    ASSUME TypeOK, PlaceInv, NEW w \in Workers, TakesNumber(w)
    PROVE  /\ pc[w] \in Searching /\ pc[w] \in AtPrefix /\ pc[w] \in InJob
           /\ pc[w] \in Unnumbered /\ Reserving(w) /\ pc'[w] = "enqueue"
           /\ prefix[w] \in Prefixes /\ leaf[w] \in 1 .. Len(Leaves[prefix[w]])
           /\ Found(w) = Leaves[prefix[w]][leaf[w]]
<1>1. pc[w] = "cas" /\ pc'[w] = "enqueue"
  BY DEF TakesNumber, TypeOK
<1>2. pc[w] \in Searching /\ pc[w] \in Recording
  BY <1>1 DEF Searching, Recording
<1>3. prefix[w] \in Prefixes /\ leaf[w] \in Nat /\ Len(Leaves[prefix[w]]) \in Nat
  BY <1>2, PrefixTyped DEF TypeOK
<1>4. leaf[w] >= 1 /\ leaf[w] <= Len(Leaves[prefix[w]])
  BY <1>2 DEF PlaceInv, Place
<1> QED BY <1>1, <1>3, <1>4 DEF Searching, AtPrefix, InJob, Unnumbered, Reserving, Found

(* What an encoding's number needs is that somebody takes it.              *)
LEMMA NumberedFrame ==
    ASSUME TypeOK, [Next]_vars, NEW e, e \in Numbered'
    PROVE  e \in Numbered \/ \E w \in Workers : TakesNumber(w) /\ e = Found(w)
<1>1. CASE UNCHANGED <<configurations, numbering>>
  BY <1>1 DEF Numbered
<1> QED BY <1>1, NumberedGrows, NumberingFrame

-----------------------------------------------------------------------------
(* A prefix is of one slot only: the ranges of the jobs are disjoint and   *)
(* job_order names every job once.                                         *)
LEMMA OrderInjective ==
    ASSUME OriginInv, NEW s \in Jobs, NEW t \in Jobs, jobOrder[s] = jobOrder[t]
    PROVE  s = t
<1>1. CASE RandomOrder
  <2>1. jobOrder \in Surjection(Jobs, Jobs)
    BY <1>1 DEF OriginInv, JobOrders, Surjection
  <2>2. jobOrder \in Injection(Jobs, Jobs)
    BY <2>1, JobsFinite, FS_SurjSameCardinalityImpliesInj
  <2> QED BY <2>2 DEF Injection, IsInjective
<1>2. CASE ~RandomOrder
  BY <1>2 DEF OriginInv, JobOrders
<1> QED BY <1>1, <1>2

LEMMA PrefixesOfJob ==
    ASSUME NEW j \in Jobs, NEW p \in JobPrefixes(j)
    PROVE  p \in Prefixes /\ p \in Nat
<1>1. JobCount \in Nat \ {0} /\ j \in 0 .. JobCount - 1 /\ PrefixCount \in Nat
  BY CountsTyped, DriverAssumption DEF Jobs
<1>2. /\ RangeBegin(PrefixCount, JobCount, j) \in Nat
      /\ RangeEnd(PrefixCount, JobCount, j) \in Nat
      /\ RangeEnd(PrefixCount, JobCount, j) <= PrefixCount
  BY <1>1, RangeWithin
<1> QED BY <1>1, <1>2 DEF JobPrefixes, Prefixes

LEMMA SlotOfPrefix ==
    ASSUME OriginInv, TypeOK, NEW s \in Jobs, NEW t \in Jobs,
           NEW p \in JobPrefixes(jobOrder[s]), p \in JobPrefixes(jobOrder[t])
    PROVE  s = t
<1>1. /\ JobCount \in Nat \ {0} /\ jobOrder[s] \in 0 .. JobCount - 1
      /\ jobOrder[t] \in 0 .. JobCount - 1
  BY CountsTyped DEF TypeOK, Jobs
<1>2. PICK i \in 0 .. JobCount - 1 : i = jobOrder[s]
  BY <1>1
<1>3. PICK j \in 0 .. JobCount - 1 : j = jobOrder[t]
  BY <1>1
<1>4. i \in Jobs /\ j \in Jobs /\ p \in JobPrefixes(i) /\ p \in JobPrefixes(j)
  BY <1>2, <1>3 DEF Jobs
<1>5. /\ p \in Int
      /\ RangeBegin(PrefixCount, JobCount, i) <= p /\ p < RangeEnd(PrefixCount, JobCount, i)
      /\ RangeBegin(PrefixCount, JobCount, j) <= p /\ p < RangeEnd(PrefixCount, JobCount, j)
  BY <1>4, JobRangeTyped DEF JobPrefixes
<1>6. i = j
  BY <1>1, <1>5, RangesDisjoint, DriverAssumption
<1> QED BY <1>2, <1>3, <1>6, OrderInjective

(* A worker in a job: where it is.                                         *)
LEMMA InJobTyped ==
    ASSUME TypeOK, PlaceInv, NEW w \in Workers, pc[w] \in InJob
    PROVE  /\ slot[w] \in Jobs /\ JobOf(w) \in Jobs /\ prefix[w] \in Nat
           /\ pc[w] \in Searching => prefix[w] \in JobPrefixes(JobOf(w))
           /\ prefix[w] < RangeEnd(PrefixCount, JobCount, JobOf(w)) =>
                  prefix[w] \in JobPrefixes(JobOf(w))
<1>1. slot[w] \in Jobs /\ RangeBegin(PrefixCount, JobCount, JobOf(w)) <= prefix[w]
  BY DEF PlaceInv, Place
<1>2. JobOf(w) \in Jobs /\ prefix[w] \in Nat
  BY <1>1 DEF TypeOK, JobOf
<1>3. PICK j \in Jobs : j = JobOf(w)
  BY <1>2
<1>4. PICK p \in Nat : p = prefix[w]
  BY <1>2
<1>5. /\ RangeBegin(PrefixCount, JobCount, j) \in Nat
      /\ RangeEnd(PrefixCount, JobCount, j) \in Nat
  BY JobRangeTyped
<1>6. p < RangeEnd(PrefixCount, JobCount, j) => p \in JobPrefixes(j)
  BY <1>1, <1>3, <1>4, <1>5 DEF JobPrefixes
<1>7. pc[w] \in Searching => p < RangeEnd(PrefixCount, JobCount, j)
  BY <1>3, <1>4 DEF PlaceInv, Place
<1> QED BY <1>1, <1>2, <1>3, <1>4, <1>6, <1>7

LEMMA OnePerPrefix ==
    ASSUME TypeOK, PlaceInv, OriginInv, JobExclusive, NEW v \in Workers, NEW w \in Workers,
           pc[v] \in InJob, pc[w] \in Searching, prefix[w] \in JobPrefixes(JobOf(v))
    PROVE  v = w
<1>1. pc[w] \in InJob
  BY DEF InJob, Searching
<1>2. slot[v] \in Jobs /\ slot[w] \in Jobs /\ prefix[w] \in JobPrefixes(JobOf(w))
  BY <1>1, InJobTyped
<1>3. slot[v] = slot[w]
  <2>1. PICK p \in JobPrefixes(JobOf(w)) : p = prefix[w]
    BY <1>2
  <2> QED BY <1>2, <2>1, SlotOfPrefix DEF JobOf
<1> QED BY <1>1, <1>3 DEF JobExclusive

(* What nobody works on is not touched.                                    *)
LEMMA UntouchedStays ==
    ASSUME TypeOK, PlaceInv, ~Extension, [Next]_vars, NEW p \in Prefixes, Untouched(p),
           \A w \in Workers : pc[w] \in Searching => prefix[w] # p
    PROVE  Untouched(p)'
<1>1. ASSUME NEW i \in 1 .. Len(Leaves[p]), Leaves[p][i] \in Numbered'
      PROVE  FALSE
  <2>1. Leaves[p][i] \notin Numbered
    BY DEF Untouched
  <2>2. PICK w \in Workers : TakesNumber(w) /\ Leaves[p][i] = Found(w)
    BY <1>1, <2>1, NumberedFrame
  <2>3. /\ prefix[w] \in Prefixes /\ leaf[w] \in 1 .. Len(Leaves[prefix[w]])
        /\ Found(w) = Leaves[prefix[w]][leaf[w]] /\ prefix[w] # p
    BY <2>2, NumberTaker
  <2> QED BY <2>2, <2>3, DistinctLeaves
<1> QED BY <1>1 DEF Untouched

LEMMA UntouchedInJob ==
    ASSUME TypeOK, PlaceInv, OriginInv, JobExclusive, ~Extension, [Next]_vars,
           NEW v \in Workers, pc[v] \in InJob, NEW p \in JobPrefixes(JobOf(v)),
           pc[v] \in Searching => prefix[v] # p, Untouched(p)
    PROVE  Untouched(p)'
<1>1. \A w \in Workers : pc[w] \in Searching => prefix[w] # p
  BY OnePerPrefix
<1>2. p \in Prefixes
  BY InJobTyped, PrefixesOfJob
<1> QED BY <1>1, <1>2, UntouchedStays

LEMMA UntouchedUndrawn ==
    ASSUME TypeOK, PlaceInv, OriginInv, TicketInv, FreshInv, ~Extension, [Next]_vars,
           NEW s \in Jobs, s >= nextJob, NEW p \in JobPrefixes(jobOrder[s])
    PROVE  Untouched(p)'
<1>0. nextJob \in Nat /\ s \in Nat /\ jobOrder[s] \in Jobs
  BY CountsTyped DEF TypeOK, Jobs
<1>1. \A w \in Workers : pc[w] \in Searching => prefix[w] # p
  <2>1. SUFFICES ASSUME NEW w \in Workers, pc[w] \in Searching, prefix[w] = p
                 PROVE  FALSE
    OBVIOUS
  <2>2. pc[w] \in InJob
    BY <2>1 DEF InJob, Searching
  <2>3. slot[w] \in Jobs /\ p \in JobPrefixes(JobOf(w)) /\ slot[w] < nextJob
    BY <2>1, <2>2, InJobTyped DEF TicketInv
  <2>4. slot[w] = s
    BY <2>3, SlotOfPrefix DEF JobOf
  <2> QED BY <1>0, <2>3, <2>4
<1>2. Untouched(p)
  BY DEF FreshInv
<1>3. p \in Prefixes
  BY <1>0, PrefixesOfJob
<1> QED BY <1>1, <1>2, <1>3, UntouchedStays

(* A worker that goes on at its prefix leaves what lies ahead as it was.   *)
LEMMA AheadStays ==
    ASSUME TypeOK, TypeOK', PlaceInv, OriginInv, JobExclusive, FreshInv, ~Extension,
           [Next]_vars, NEW v \in Workers, Proceeds(v), pc'[v] \in AtPrefix,
           NEW i \in 1 .. Len(Leaves[prefix[v]]), Ahead(v, i)'
    PROVE  Leaves[prefix[v]][i] \notin Numbered'
<1>0. /\ pc[v] \in AtPrefix /\ pc[v] \in Searching /\ pc[v] \in InJob
      /\ prefix[v] \in JobPrefixes(JobOf(v)) /\ prefix[v] \in Prefixes
  <2>1. pc[v] \in AtPrefix /\ pc[v] \in Searching
    BY DEF Proceeds
  <2>2. pc[v] \in InJob
    BY <2>1 DEF Searching, InJob
  <2> QED BY <2>1, <2>2, InJobTyped, PrefixTyped
<1>1. \A w \in Workers : pc[w] \in Searching /\ prefix[w] = prefix[v] => w = v
  BY <1>0, OnePerPrefix
<1>2. leaf[v] \in Nat /\ leaf'[v] \in Nat /\ i \in Nat
  <2>1. leaf \in [Workers -> Nat] /\ leaf' \in [Workers -> Nat]
    BY DEF TypeOK
  <2> QED BY <2>1
<1>3. Ahead(v, i)
  BY <1>2 DEF Ahead, Proceeds, Unnumbered
<1>4. Leaves[prefix[v]][i] \notin Numbered
  BY <1>0, <1>3 DEF FreshInv, Fresh
<1>5. SUFFICES ASSUME Leaves[prefix[v]][i] \in Numbered'
               PROVE  FALSE
  OBVIOUS
<1>6. PICK w \in Workers : TakesNumber(w) /\ Leaves[prefix[v]][i] = Found(w)
  BY <1>4, <1>5, NumberedFrame
<1>7. /\ prefix[w] \in Prefixes /\ leaf[w] \in 1 .. Len(Leaves[prefix[w]])
      /\ Found(w) = Leaves[prefix[w]][leaf[w]] /\ pc[w] \in Searching /\ pc'[w] = "enqueue"
  BY <1>6, NumberTaker
<1>8. prefix[v] = prefix[w] /\ i = leaf[w]
  BY <1>0, <1>6, <1>7, DistinctLeaves
<1>9. w = v /\ pc[v] = "cas"
  BY <1>1, <1>6, <1>7, <1>8 DEF TakesNumber
<1> QED BY <1>2, <1>7, <1>8, <1>9 DEF Ahead, Proceeds, Unnumbered

LEMMA FreshOfEach ==
    ASSUME TypeOK, TypeOK', CreationInv, PlaceInv, PlaceInv', OriginInv, JobExclusive,
           TicketInv, FreshInv, ~Extension, [Next]_vars, NEW v \in Workers
    PROVE  Fresh(v)'
<1>0. /\ jobOrder' = jobOrder /\ Moves(v) /\ Fresh(v)
      /\ prefix[v] \in Nat /\ prefix'[v] \in Nat
  <2>1. prefix \in [Workers -> Nat] /\ prefix' \in [Workers -> Nat]
    BY DEF TypeOK
  <2> QED BY <2>1, Monotone, EachMoves DEF FreshInv
<1>1. ASSUME slot'[v] = slot[v]
      PROVE  JobOf(v)' = JobOf(v) /\ JobPrefixes(JobOf(v))' = JobPrefixes(JobOf(v))
  BY <1>0, <1>1 DEF JobOf, JobPrefixes
<1>2. ASSUME pc'[v] = "nextPrefix", NEW p \in JobPrefixes(JobOf(v))', p >= prefix'[v]
      PROVE  Untouched(p)'
  <2>1. CASE Advances(v)
    <3>1. pc[v] \in InJob /\ pc[v] \in Searching /\ p \in JobPrefixes(JobOf(v))
      BY <1>1, <1>2, <2>1 DEF Advances, InJob, Searching
    <3>2. p \in Nat /\ prefix'[v] = prefix[v] + 1
      BY <2>1, <3>1, InJobTyped, PrefixesOfJob DEF Advances
    <3>3. p > prefix[v] /\ p # prefix[v]
      BY <1>0, <1>2, <3>2
    <3>4. Untouched(p)
      BY <1>0, <3>1, <3>3 DEF Fresh
    <3> QED BY <3>1, <3>3, <3>4, UntouchedInJob
  <2>2. CASE Draws(v)
    <3>1. nextJob \in Jobs /\ nextJob >= nextJob
      BY <2>2, CountsTyped DEF Draws, TypeOK, Jobs
    <3>2. p \in JobPrefixes(jobOrder[nextJob])
      BY <1>0, <1>2, <2>2 DEF Draws, JobOf, JobPrefixes
    <3>3. PICK s \in Jobs : s = nextJob
      BY <3>1
    <3> QED BY <3>1, <3>2, <3>3, UntouchedUndrawn
  <2>3. CASE pc[v] = "nextPrefix" /\ slot'[v] = slot[v] /\ prefix'[v] = prefix[v]
    <3>1. pc[v] \in InJob /\ pc[v] \notin Searching /\ p \in JobPrefixes(JobOf(v))
      BY <1>1, <1>2, <2>3 DEF InJob, Searching
    <3>2. Untouched(p)
      BY <1>0, <1>2, <2>3, <3>1 DEF Fresh
    <3> QED BY <3>1, <3>2, UntouchedInJob
  <2> QED BY <1>0, <1>2, <2>1, <2>2, <2>3 DEF Moves
<1>3. ASSUME Enters(v), NEW p \in JobPrefixes(JobOf(v)), p >= prefix[v]
      PROVE  Untouched(p)'
  <2>1. pc[v] \in InJob /\ pc[v] \notin Searching /\ pc[v] = "nextPrefix"
    BY <1>3 DEF Enters, InJob, Searching
  <2>2. Untouched(p)
    BY <1>0, <1>3, <2>1 DEF Fresh
  <2> QED BY <2>1, <2>2, UntouchedInJob
<1>4. ASSUME pc'[v] \in Searching, NEW p \in JobPrefixes(JobOf(v))', p > prefix'[v]
      PROVE  Untouched(p)'
  <2>1. CASE Proceeds(v)
    <3>1. /\ pc[v] \in Searching /\ pc[v] \in InJob /\ p \in JobPrefixes(JobOf(v))
          /\ prefix'[v] = prefix[v]
      BY <1>1, <1>4, <2>1 DEF Proceeds, InJob, Searching
    <3>2. p \in Nat
      BY <3>1, InJobTyped, PrefixesOfJob
    <3>3. p > prefix[v] /\ p # prefix[v]
      BY <1>0, <1>4, <3>1, <3>2
    <3>4. Untouched(p)
      BY <1>0, <3>1, <3>3 DEF Fresh
    <3> QED BY <3>1, <3>3, <3>4, UntouchedInJob
  <2>2. CASE Enters(v)
    <3>1. /\ pc[v] \in InJob /\ p \in JobPrefixes(JobOf(v)) /\ prefix'[v] = prefix[v]
      BY <1>1, <1>4, <2>2 DEF Enters, InJob
    <3>2. p \in Nat
      BY <3>1, InJobTyped, PrefixesOfJob
    <3>3. p >= prefix[v]
      BY <1>0, <1>4, <3>1, <3>2
    <3> QED BY <1>3, <2>2, <3>1, <3>3
  <2> QED BY <1>0, <1>4, <2>1, <2>2 DEF Moves
<1>5. ASSUME pc'[v] \in AtPrefix, NEW i \in 1 .. Len(Leaves[prefix[v]]), Ahead(v, i)'
      PROVE  prefix'[v] = prefix[v] /\ Leaves[prefix[v]][i] \notin Numbered'
  <2>1. pc'[v] \in Searching
    BY <1>5 DEF AtPrefix
  <2>2. CASE Proceeds(v)
    BY <1>5, <2>2, AheadStays DEF Proceeds
  <2>3. CASE Enters(v)
    <3>1. pc[v] \in InJob
      BY <2>3 DEF Enters, InJob
    <3>2. PICK p \in JobPrefixes(JobOf(v)) : p = prefix[v]
      BY <2>3, <3>1, InJobTyped DEF Enters
    <3>3. Untouched(p)'
      BY <1>0, <1>3, <2>3, <3>2
    <3> QED BY <1>5, <2>3, <3>2, <3>3 DEF Untouched, Enters
  <2> QED BY <1>0, <2>1, <2>2, <2>3 DEF Moves
<1>6. pc'[v] \in AtPrefix => prefix'[v] = prefix[v]
  BY <1>0 DEF Moves, AtPrefix, Proceeds, Enters
<1> QED BY <1>2, <1>4, <1>5, <1>6 DEF Fresh

LEMMA FreshStep ==
    ASSUME TypeOK, TypeOK', CreationInv, PlaceInv, PlaceInv', OriginInv, JobExclusive,
           TicketInv, FreshInv, [Next]_vars
    PROVE  FreshInv'
<1> SUFFICES ASSUME ~Extension
             PROVE  /\ \A s \in Jobs : s >= nextJob' =>
                           \A p \in JobPrefixes(jobOrder'[s]) : Untouched(p)'
                    /\ \A w \in Workers : Fresh(w)'
  BY DEF FreshInv, JobPrefixes
<1>1. ASSUME NEW s \in Jobs, s >= nextJob'
      PROVE  \A p \in JobPrefixes(jobOrder'[s]) : Untouched(p)'
  <2>1. nextJob \in Nat /\ nextJob' \in Nat /\ s \in Nat
    BY CountsTyped DEF TypeOK, Jobs
  <2>2. nextJob' >= nextJob /\ jobOrder' = jobOrder
    BY Grows, Monotone
  <2>3. s >= nextJob
    BY <1>1, <2>1, <2>2
  <2> QED BY <2>2, <2>3, UntouchedUndrawn
<1> QED BY <1>1, FreshOfEach

-----------------------------------------------------------------------------
LEMMA RememberedGrows ==
    ASSUME [Next]_vars
    PROVE  remembered \subseteq remembered'
<1>1. CASE remembered' = remembered
  BY <1>1
<1>2. CASE remembered' # remembered
  <2>1. PICK w \in Workers : RememberExtension(w)
    BY <1>2, RememberedChange
  <2> QED BY <2>1 DEF RememberExtension
<1> QED BY <1>1, <1>2

(* How a worker comes to hold a reservation, when encodings are remembered. *)
LEMMA ReservingMoves ==
    ASSUME TypeOK, CreationInv, Extension, [Next]_vars, NEW v \in Workers, Reserving(v)'
    PROVE  /\ Found(v)' = Found(v)
           /\ \/ Reserving(v)
              \/ /\ pc[v] = "remember" /\ pc'[v] # pc[v] /\ Found(v) \notin remembered
                 /\ Found(v) \in remembered' /\ UNCHANGED numbering
<1>1. Moves(v)
  BY EachMoves
<1> QED BY <1>1 DEF Moves, Found, Known, Reserving

LEMMA OneMoves ==
    ASSUME TypeOK, CreationInv, [Next]_vars, NEW v \in Workers, NEW w \in Workers,
           pc[v] = "remember", pc[w] = "remember", pc'[v] # pc[v], pc'[w] # pc[w]
    PROVE  v = w
<1>1. ~(MainThread \/ Interrupt \/ UNCHANGED vars)
  BY MainKeeps
<1>2. PICK u \in Workers : Worker(u)
  BY <1>1 DEF Next
<1> QED BY <1>2, OthersStay DEF OthersKeep

LEMMA RememberedStep ==
    ASSUME TypeOK, CreationInv, PlaceInv, RememberedInv, [Next]_vars
    PROVE  RememberedInv'
<1> SUFFICES ASSUME Extension
             PROVE  /\ Numbered' \subseteq remembered'
                    /\ \A w \in Workers : Reserving(w)' => Found(w)' \in remembered'
                    /\ \A v, w \in Workers :
                           Reserving(v)' /\ Reserving(w)' /\ Found(v)' = Found(w)' => v = w
  BY DEF RememberedInv
<1>0. /\ Numbered \subseteq remembered
      /\ \A w \in Workers : Reserving(w) => Found(w) \in remembered
      /\ \A v, w \in Workers : Reserving(v) /\ Reserving(w) /\ Found(v) = Found(w) => v = w
  BY DEF RememberedInv
<1>1. remembered \subseteq remembered'
  BY RememberedGrows
<1>2. ASSUME NEW e \in Numbered'
      PROVE  e \in remembered'
  <2>1. CASE e \in Numbered
    BY <1>0, <1>1, <2>1
  <2>2. ASSUME NEW w \in Workers, TakesNumber(w), e = Found(w)
        PROVE  e \in remembered'
    BY <1>0, <1>1, <2>2, NumberTaker
  <2> QED BY <2>1, <2>2, NumberedFrame
<1>3. ASSUME NEW w \in Workers, Reserving(w)'
      PROVE  Found(w)' \in remembered'
  BY <1>0, <1>1, <1>3, ReservingMoves
<1>4. ASSUME NEW v \in Workers, NEW w \in Workers,
             Reserving(v)', Reserving(w)', Found(v)' = Found(w)'
      PROVE  v = w
  <2>1. Found(v) = Found(w)
    BY <1>4, ReservingMoves
  <2>2. CASE Reserving(v) /\ Reserving(w)
    BY <1>0, <2>1, <2>2
  <2>3. CASE ~Reserving(v) /\ Reserving(w)
    BY <1>0, <1>4, <2>1, <2>3, ReservingMoves
  <2>4. CASE Reserving(v) /\ ~Reserving(w)
    BY <1>0, <1>4, <2>1, <2>4, ReservingMoves
  <2>5. CASE ~Reserving(v) /\ ~Reserving(w)
    <3>1. pc[v] = "remember" /\ pc'[v] # pc[v]
      BY <1>4, <2>5, ReservingMoves
    <3>2. pc[w] = "remember" /\ pc'[w] # pc[w]
      BY <1>4, <2>5, ReservingMoves
    <3> QED BY <3>1, <3>2, OneMoves
  <2> QED BY <2>2, <2>3, <2>4, <2>5
<1> QED BY <1>2, <1>3, <1>4

(* Without --extend-solutions what a worker reserves a number for lies     *)
(* ahead in its prefix.                                                    *)
LEMMA FreshUnnumbered ==
    TypeOK /\ PlaceInv /\ FreshInv /\ ~Extension
        => \A w \in Workers : Reserving(w) => Found(w) \notin Numbered
<1> SUFFICES ASSUME TypeOK, PlaceInv, FreshInv, ~Extension, NEW w \in Workers, Reserving(w)
             PROVE  Found(w) \notin Numbered
  OBVIOUS
<1>1. pc[w] \in AtPrefix /\ pc[w] \in Searching /\ pc[w] \in Recording /\ pc[w] \in Unnumbered
  BY DEF Reserving, AtPrefix, Searching, Recording, Unnumbered
<1>2. leaf[w] \in Nat /\ Len(Leaves[prefix[w]]) \in Nat
  BY <1>1, PrefixTyped DEF TypeOK
<1>3. leaf[w] \in 1 .. Len(Leaves[prefix[w]])
  BY <1>1, <1>2 DEF PlaceInv, Place
<1>4. Ahead(w, leaf[w])
  BY <1>1 DEF Ahead
<1> QED BY <1>1, <1>3, <1>4 DEF FreshInv, Fresh, Found

LEMMA FreshUnnumberedNext ==
    (TypeOK /\ PlaceInv /\ FreshInv /\ ~Extension
        => \A w \in Workers : Reserving(w) => Found(w) \notin Numbered)'
  BY FreshUnnumbered, PTL

LEMMA OnceStep ==
    ASSUME TypeOK, TypeOK', CreationInv, PlaceInv, PlaceInv', FreshInv', RememberedInv,
           OnceInv, [Next]_vars
    PROVE  OnceInv'
<1>1. NumberedOnce'
  <2>1. CASE UNCHANGED <<configurations, numbering>>
    BY <2>1 DEF OnceInv, NumberedOnce
  <2>2. ASSUME NEW w \in Workers, TakesNumber(w)
        PROVE  NumberedOnce'
    <3> DEFINE new == [number |-> configurations + 1, encoding |-> Found(w)]
    <3>1. numbering' = numbering \union {new} /\ new.encoding = Found(w)
      BY <2>2 DEF TakesNumber
    <3>2. \A r \in numbering : r.encoding # new.encoding
      BY <2>2, <3>1, NumberTaker DEF OnceInv, Numbered
    <3> HIDE DEF new
    <3> QED BY <3>1, <3>2 DEF OnceInv, NumberedOnce
  <2> QED BY <2>1, <2>2, NumberingFrame
<1>2. ASSUME NEW w \in Workers, Reserving(w)', Extension
      PROVE  Found(w)' \notin Numbered'
  <2>1. SUFFICES ASSUME Found(w)' \in Numbered'
                 PROVE  FALSE
    OBVIOUS
  <2>2. Found(w)' = Found(w)
    BY <1>2, ReservingMoves
  <2>3. CASE Reserving(w)
    <3>1. Found(w) \notin Numbered
      BY <2>3 DEF OnceInv
    <3>2. PICK e : e = Found(w)
      OBVIOUS
    <3>3. PICK u \in Workers : TakesNumber(u) /\ e = Found(u)
      BY <2>1, <2>2, <3>1, <3>2, NumberedFrame
    <3>4. Reserving(u) /\ pc'[u] = "enqueue"
      BY <3>3, NumberTaker
    <3>5. u = w
      BY <1>2, <2>3, <3>2, <3>3, <3>4 DEF RememberedInv
    <3> QED BY <1>2, <3>4, <3>5 DEF Reserving
  <2>4. CASE ~Reserving(w)
    <3>1. Found(w) \notin remembered /\ UNCHANGED numbering
      BY <1>2, <2>4, ReservingMoves
    <3>2. Found(w) \notin Numbered /\ Numbered' = Numbered
      BY <1>2, <3>1 DEF RememberedInv, Numbered
    <3> QED BY <2>1, <2>2, <3>2
  <2> QED BY <2>3, <2>4
<1>3. ASSUME ~Extension
      PROVE  \A w \in Workers : Reserving(w)' => Found(w)' \notin Numbered'
  BY <1>3, FreshUnnumberedNext
<1> QED BY <1>1, <1>2, <1>3 DEF OnceInv

-----------------------------------------------------------------------------
LEMMA AppendToSecond ==
    ASSUME NEW S, NEW p \in Seq(S), NEW q \in Seq(S), NEW x \in S
    PROVE  p \o Append(q, x) = Append(p \o q, x)
  OBVIOUS

LEMMA NothingAppended ==
    ASSUME NEW S, NEW p \in Seq(S), NEW q \in Seq(S)
    PROVE  (p \o q) \o <<>> = p \o q
  OBVIOUS

LEMMA LineTyped ==
    ASSUME TypeOK
    PROVE  Line \in Seq(Announcement) /\ Len(Line) \in Nat
  BY DEF TypeOK, Line

(* Draining the list takes nothing off the line.                           *)
LEMMA DrainKeepsLine ==
    ASSUME TypeOK, DrainSolutions
    PROVE  Line' = Line
<1>1. printed' = printed \o queue /\ queue' = <<>>
  BY DEF DrainSolutions
<1>2. printed \in Seq(Announcement) /\ queue \in Seq(Announcement)
  BY DEF TypeOK
<1> QED BY <1>1, <1>2, NothingAppended DEF Line

(* The line grows at its end, and no other way.                            *)
LEMMA LineFrame ==
    ASSUME TypeOK, ReservationInv, [Next]_vars
    PROVE  Line' = Line \/ \E u \in Workers : Puts(u)
<1>1. ASSUME NEW w \in Workers, Worker(w)
      PROVE  Line' = Line \/ \E u \in Workers : Puts(u)
  <2>1. CASE CheckStop(w) \/ ClaimJob(w) \/ NextPrefix(w) \/ CountJob(w) \/ VisitLeaf(w)
      \/ PollStop(w)
    BY <2>1
    DEF Line, CheckStop, Goto, ClaimJob, Ticket, NextPrefix, CountJob, VisitLeaf,
        PollStop, sharedVars, mainVars
  <2>2. CASE HitNodeLimit(w) \/ FinishPrefix(w) \/ LeavePrefix(w) \/ AllocFails(w) \/
      RememberExtension(w) \/ LoadCount(w)
    BY <2>2
    DEF Line, HitNodeLimit, StopAtNodeLimit, Goto, FinishPrefix, LeavePrefix,
        AllocFails, RememberExtension, LoadCount, sharedVars, mainVars
  <2>3. CASE ReserveRefused(w) \/ CompareExchange(w)
    BY <2>3
    DEF Line, ReserveRefused, Goto, CompareExchange, sharedVars, mainVars
  <2>4. CASE Enqueue(w)
    <3> DEFINE new == [number |-> current[w], encoding |-> Found(w)]
    <3>1. CASE current[w] <= PrintLimit
      <4>1. new \in Announcement
        BY <2>4 DEF Enqueue, ReservationInv, Reserved, NumberedSteps, TypeOK
      <4>2. printed' = printed /\ queue' = Append(queue, new)
        BY <2>4, <3>1 DEF Enqueue, mainVars
      <4>3. Line' = Append(Line, new)
        <5> HIDE DEF new
        <5> QED BY SMTT(30), <4>1, <4>2, AppendToSecond DEF Line, TypeOK
      <4> QED BY <2>4, <3>1, <4>3 DEF Puts, Enqueue, Goto, history
    <3>2. CASE ~(current[w] <= PrintLimit)
      BY <2>4, <3>2 DEF Enqueue, Line, mainVars
    <3> QED BY <3>1, <3>2
  <2>5. CASE NotifyWatcher(w) \/ ReachLimit(w) \/ Retire(w)
    BY <2>5
    DEF Line, NotifyWatcher, WakeWatcher, Goto, ReachLimit, Retire, sharedVars, mainVars
  <2> QED BY <1>1, <2>1, <2>2, <2>3, <2>4, <2>5 DEF Worker
<1>2. CASE MainThread
  <2>1. CASE ActivateWorker \/ CreateWorker \/ CreateFails \/ LockEvent \/ TestActive \/
      PollInterrupt
    BY <2>1
    DEF Line, ActivateWorker, MainGoto, CreateWorker, CreateFails, LockEvent,
        TestActive, PollInterrupt, sharedVars, mainVars
  <2>2. CASE WatchDrain
    BY <2>2, DrainKeepsLine DEF WatchDrain
  <2>3. CASE RecheckActive \/ StartWait \/ WaitExpires
    BY <2>3
    DEF Line, RecheckActive, MainGoto, StartWait, WaitExpires, sharedVars, mainVars
  <2>4. CASE JoinWorkers
    BY <2>4, DrainKeepsLine DEF JoinWorkers
  <2>5. CASE CheckErrors \/ CheckUnfinished
    BY <2>5
    DEF Line, CheckErrors, MainGoto, CheckUnfinished, sharedVars, mainVars
  <2>6. CASE Report
    BY <2>6, ReportStep DEF sharedVars, Line
  <2>7. CASE Exit
    BY <2>7
    DEF Line, Exit, MainGoto, sharedVars, mainVars
  <2> QED BY <1>2, <2>1, <2>2, <2>3, <2>4, <2>5, <2>6, <2>7 DEF MainThread
<1>3. CASE Interrupt \/ UNCHANGED vars
  BY <1>3
  DEF Line, Interrupt, vars, sharedVars, mainVars
<1> QED BY <1>1, <1>2, <1>3 DEF Next

LEMMA KeepsOfMover ==
    ASSUME TypeOK, ReservationInv, [Next]_vars,
           NEW w \in Workers, Worker(w)
    PROVE  TakesNumber(w) \/ Puts(w) \/ Keeps(w)
<1>0. pc \in [Workers -> WorkerSteps] /\ current \in [Workers -> Nat]
  BY DEF TypeOK
<1>1. CASE CheckStop(w) \/ ClaimJob(w)
  BY <1>1, <1>0
  DEF WorkerSteps, NumberedSteps, Keeps, CheckStop, Goto, ClaimJob, Ticket, workerVars
<1>2. CASE NextPrefix(w) \/ CountJob(w)
  BY <1>2, <1>0
  DEF WorkerSteps, NumberedSteps, Keeps, NextPrefix, Goto, CountJob, workerVars
<1>3. CASE VisitLeaf(w) \/ PollStop(w)
  BY <1>3, <1>0
  DEF WorkerSteps, NumberedSteps, Keeps, VisitLeaf, Goto, PollStop, workerVars
<1>4. CASE HitNodeLimit(w) \/ FinishPrefix(w)
  BY <1>4, <1>0
  DEF WorkerSteps, NumberedSteps, Keeps, HitNodeLimit, StopAtNodeLimit, Goto,
      FinishPrefix, workerVars
<1>5. CASE LeavePrefix(w) \/ AllocFails(w)
  BY <1>5, <1>0
  DEF WorkerSteps, NumberedSteps, Keeps, LeavePrefix, Goto, AllocFails, workerVars
<1>6. CASE RememberExtension(w) \/ LoadCount(w)
  BY <1>6, <1>0
  DEF WorkerSteps, NumberedSteps, Keeps, RememberExtension, Goto, LoadCount, workerVars
<1>7. CASE ReserveRefused(w)
  BY <1>7, <1>0
  DEF WorkerSteps, NumberedSteps, Keeps, ReserveRefused, Goto, workerVars
<1>8. CASE CompareExchange(w)
  <2>1. CASE Unchanged(w)
    BY <1>8, <2>1 DEF CompareExchange, TakesNumber, Unchanged, Goto, mainVars
  <2>2. CASE ~Unchanged(w)
    <3>1. pc' = pc /\ pc[w] = "cas"
      BY <1>8, <2>2 DEF CompareExchange
    <3> QED BY <3>1 DEF Keeps, NumberedSteps
  <2> QED BY <2>1, <2>2
<1>9. CASE Enqueue(w)
  <2>1. CASE current[w] <= PrintLimit
    <3>1. Line' # Line
      <4>1. queue' = Append(queue, [number |-> current[w], encoding |-> Found(w)])
        BY <1>9, <2>1 DEF Enqueue
      <4> QED BY <1>9, <4>1 DEF Enqueue, mainVars, TypeOK, Line
    <3>2. PICK v \in Workers : Puts(v)
      BY <3>1, LineFrame
    <3>3. v = w
      BY <1>9, <3>2, <1>0 DEF Enqueue, Goto, Puts, WorkerSteps
    <3> QED BY <3>2, <3>3
  <2>2. CASE ~(current[w] <= PrintLimit)
    BY <1>9, <2>2, <1>0 DEF Enqueue, Goto, Keeps, NumberedSteps, WorkerSteps
  <2> QED BY <2>1, <2>2
<1>10. CASE NotifyWatcher(w) \/ ReachLimit(w)
  BY <1>10, <1>0
  DEF WorkerSteps, NumberedSteps, Keeps, NotifyWatcher, WakeWatcher, Goto, ReachLimit,
      workerVars
<1>11. CASE Retire(w)
  BY <1>11, <1>0
  DEF WorkerSteps, NumberedSteps, Keeps, Retire, WakeWatcher, Goto, workerVars
<1> QED BY <1>1, <1>2, <1>3, <1>4, <1>5, <1>6, <1>7, <1>8, <1>9, <1>10, <1>11 DEF Worker

(* Every worker gets a number, puts it on the line or keeps it.            *)
LEMMA EachKeeps ==
    ASSUME TypeOK, CreationInv, ReservationInv, [Next]_vars, NEW v \in Workers
    PROVE  TakesNumber(v) \/ Puts(v) \/ Keeps(v)
<1>1. ASSUME NEW w \in Workers, Worker(w)
      PROVE  TakesNumber(v) \/ Puts(v) \/ Keeps(v)
  <2>1. CASE v = w
    BY <1>1, <2>1, KeepsOfMover
  <2>2. CASE v # w
    <3>1. Same(v)
      BY <1>1, <2>2, SameOfOthers
    <3> QED BY <3>1 DEF Same, Keeps
  <2> QED BY <2>1, <2>2
<1>2. CASE MainThread \/ Interrupt \/ UNCHANGED vars
  <2>1. current' = current
    BY <1>2, MainSame
  <2>2. pc'[v] = pc[v] \/ (pc[v] = "absent" /\ pc'[v] = "checkStop")
    BY <1>2, MainKeeps
  <2> QED BY <2>1, <2>2 DEF Keeps, NumberedSteps
<1> QED BY <1>1, <1>2 DEF Next

(* Main judges an empty list: it has emptied it itself, and nobody is left *)
(* to fill it.                                                             *)
LEMMA EmptyAtLast ==
    ASSUME TypeOK, CreationInv, LineInv, [Next]_vars
    PROVE  mainPc' \in AfterJoin => queue' = <<>>
<1>1. ASSUME NEW w \in Workers, Worker(w)
      PROVE  mainPc' \in AfterJoin => queue' = <<>>
  <2>1. CASE CheckStop(w) \/ ClaimJob(w) \/ NextPrefix(w) \/ CountJob(w) \/ VisitLeaf(w)
    BY <2>1
    DEF LineInv, AfterJoin, CheckStop, Goto, ClaimJob, Ticket, NextPrefix, CountJob,
        VisitLeaf, sharedVars, mainVars
  <2>2. CASE PollStop(w) \/ HitNodeLimit(w) \/ FinishPrefix(w) \/ LeavePrefix(w) \/
      AllocFails(w)
    BY <2>2
    DEF LineInv, AfterJoin, PollStop, Goto, HitNodeLimit, StopAtNodeLimit, FinishPrefix,
        LeavePrefix, AllocFails, sharedVars, mainVars
  <2>3. CASE RememberExtension(w) \/ LoadCount(w) \/ ReserveRefused(w) \/
      CompareExchange(w)
    BY <2>3
    DEF LineInv, AfterJoin, RememberExtension, Goto, LoadCount, ReserveRefused,
        CompareExchange, sharedVars, mainVars
  <2>4. CASE Enqueue(w)
    BY <2>4 DEF Enqueue, CreationInv, AfterJoin, mainVars
  <2>5. CASE NotifyWatcher(w) \/ ReachLimit(w) \/ Retire(w)
    BY <2>5
    DEF LineInv, AfterJoin, NotifyWatcher, WakeWatcher, Goto, ReachLimit, Retire,
        sharedVars, mainVars
  <2> QED BY <1>1, <2>1, <2>2, <2>3, <2>4, <2>5 DEF Worker
<1>2. CASE MainThread
  <2>1. CASE ActivateWorker \/ CreateWorker \/ CreateFails \/ LockEvent \/ TestActive
    BY <2>1
    DEF LineInv, AfterJoin, ActivateWorker, MainGoto, CreateWorker, CreateFails,
        LockEvent, TestActive, sharedVars, mainVars
  <2>2. CASE PollInterrupt \/ WatchDrain \/ RecheckActive \/ StartWait \/ WaitExpires
    BY <2>2
    DEF LineInv, AfterJoin, PollInterrupt, MainGoto, WatchDrain, DrainSolutions,
        RecheckActive, StartWait, WaitExpires, sharedVars, mainVars
  <2>3. CASE JoinWorkers \/ CheckErrors \/ CheckUnfinished
    BY <2>3
    DEF LineInv, AfterJoin, JoinWorkers, DrainSolutions, MainGoto, CheckErrors,
        CheckUnfinished, sharedVars, mainVars
  <2>4. CASE Report
    BY <2>4, ReportStep DEF LineInv, AfterJoin, sharedVars
  <2>5. CASE Exit
    BY <2>5
    DEF LineInv, AfterJoin, Exit, MainGoto, sharedVars, mainVars
  <2> QED BY <1>2, <2>1, <2>2, <2>3, <2>4, <2>5 DEF MainThread
<1>3. CASE Interrupt \/ UNCHANGED vars
  BY <1>3
  DEF LineInv, AfterJoin, Interrupt, vars, sharedVars, mainVars
<1> QED BY <1>1, <1>2, <1>3 DEF Next

LEMMA LineStep ==
    ASSUME TypeOK, TypeOK', CreationInv, NumbersAreDense, ReservationInv, LineInv, [Next]_vars
    PROVE  LineInv'
<1>0. \A r \in numbering : r.number \in 1 .. configurations
  BY DEF NumbersAreDense
<1>1. /\ PrintLimit \in Nat
      /\ configurations \in Nat /\ configurations' \in Nat
      /\ Line \in Seq(Announcement)
      /\ \A w \in Workers : current[w] \in Nat /\ current'[w] \in Nat
  BY LineTyped, DriverAssumption DEF TypeOK
<1>a. numbering \subseteq numbering' /\ (internalError => internalError')
  BY Grows, Monotone
<1>2. \A v \in Workers : TakesNumber(v) \/ Puts(v) \/ Keeps(v)
  BY EachKeeps
<1>3. \A v \in Workers : pc[v] \in NumberedSteps =>
          /\ current[v] \in 1 .. configurations
          /\ [number |-> current[v], encoding |-> Found(v)] \in numbering
  <2>1. ASSUME NEW v \in Workers, pc[v] \in NumberedSteps
        PROVE  [number |-> current[v], encoding |-> Found(v)] \in numbering
    BY <2>1 DEF ReservationInv, Reserved
  <2>2. ASSUME NEW v \in Workers, pc[v] \in NumberedSteps
        PROVE  current[v] \in 1 .. configurations
    BY <1>0, <2>1, <2>2
  <2> QED BY <2>1, <2>2
<1>4. \A i \in 1 .. Len(Line) : Line[i].number \in 1 .. configurations
  BY <1>0 DEF LineInv
<1>5. \A v, w \in Workers :
          pc'[v] \in NumberedSteps /\ pc'[w] \in NumberedSteps /\ current'[v] = current'[w]
              => v = w
  <2>1. ASSUME NEW v \in Workers, TakesNumber(v), NEW w \in Workers, v # w,
               pc'[w] \in NumberedSteps
        PROVE  current'[v] # current'[w]
    <3>1. pc'[w] = pc[w] /\ current'[w] = current[w] /\ current'[v] = configurations + 1
      BY <2>1 DEF TakesNumber, TypeOK
    <3>2. pc[w] \in NumberedSteps
      BY <2>1, <3>1
    <3>3. current[w] \in 1 .. configurations
      BY <1>3, <3>2
    <3> QED BY <1>1, <3>1, <3>3
  <2>2. ASSUME NEW v \in Workers, Puts(v), NEW w \in Workers, pc'[w] \in NumberedSteps
        PROVE  pc[w] \in NumberedSteps /\ current'[w] = current[w]
    BY <2>2 DEF Puts, TypeOK, NumberedSteps
  <2> QED BY <1>2, <2>1, <2>2 DEF Keeps, LineInv
<1>7. mainPc' \in AfterJoin => queue' = <<>>
  BY EmptyAtLast
<1>8. ASSUME NEW w \in Workers, Puts(w)
      PROVE  LineInv'
  <2> DEFINE new == [number |-> current[w], encoding |-> Found(w)]
  <2>1. /\ Line' = Append(Line, new) /\ new \in numbering /\ new \in Announcement
        /\ new.number = current[w] /\ current[w] <= PrintLimit
        /\ ~OnLine(current[w])
    BY <1>3, <1>8 DEF Puts, NumberedSteps, TypeOK, LineInv
  <2> HIDE DEF new
  <2>2. /\ Len(Line') = Len(Line) + 1 /\ Line'[Len(Line) + 1] = new
        /\ \A i \in 1 .. Len(Line) : Line'[i] = Line[i]
    BY <1>1, <2>1
  <2>3. \A n \in Nat : OnLine(n)' <=> OnLine(n) \/ n = current[w]
    <3>1. PICK c : c = current[w]
      OBVIOUS
    <3>2. new.number = c
      BY <2>1, <3>1
    <3>3. Len(Line) \in Nat /\ Len(Line') = Len(Line) + 1
      BY <1>1, <2>2
    <3>4. \A i \in 1 .. Len(Line') : i \in 1 .. Len(Line) \/ i = Len(Line) + 1
      BY <3>3
    <3>5. 1 .. Len(Line) \subseteq 1 .. Len(Line') /\ Len(Line) + 1 \in 1 .. Len(Line')
      BY <3>3
    <3>6. \A n \in Nat : OnLine(n)' => OnLine(n) \/ n = c
      BY <2>2, <3>2, <3>4 DEF OnLine
    <3>7. \A n \in Nat : OnLine(n) => OnLine(n)'
      BY <2>2, <3>5 DEF OnLine
    <3>8. OnLine(c)'
      BY <2>2, <3>2, <3>5 DEF OnLine
    <3> QED BY <3>1, <3>6, <3>7, <3>8
  <2>4. \A i, j \in 1 .. Len(Line') : Line'[i].number = Line'[j].number => i = j
    BY <1>1, <2>1, <2>2 DEF LineInv, OnLine
  <2>5. \A i \in 1 .. Len(Line') : Line'[i] \in numbering' /\ Line'[i].number <= PrintLimit
    BY <1>1, <1>a, <2>1, <2>2 DEF LineInv
  <2>6. \A v \in Workers : pc'[v] = "enqueue" =>
            v # w /\ pc[v] = "enqueue" /\ current'[v] = current[v] /\ current[v] # current[w]
    BY <1>8 DEF Puts, TypeOK, NumberedSteps, LineInv
  <2>7. \A v \in Workers : pc[v] = "enqueue" /\ v # w =>
            pc'[v] = "enqueue" /\ current'[v] = current[v]
    BY <1>8 DEF Puts, TypeOK
  <2>8. \A v \in Workers : pc'[v] = "enqueue" => ~OnLine(current[v])'
    BY <1>1, <2>3, <2>6 DEF LineInv
  <2>9. \A n \in 1 .. Smaller(configurations', PrintLimit) :
            internalError' \/ OnLine(n)' \/ InHand(n)'
    <3> SUFFICES ASSUME NEW n \in 1 .. Smaller(configurations, PrintLimit)
                 PROVE  internalError' \/ OnLine(n)' \/ InHand(n)'
      BY <1>8 DEF Puts
    <3>1. n \in Nat
      BY <1>1 DEF Smaller
    <3>2. CASE internalError \/ OnLine(n)
      BY <1>a, <2>3, <3>1, <3>2
    <3>3. ASSUME NEW v \in Workers, pc[v] = "enqueue", current[v] = n
          PROVE  OnLine(n)' \/ InHand(n)'
      BY <2>3, <2>7, <3>1, <3>3 DEF InHand
    <3> QED BY <3>2, <3>3 DEF LineInv, InHand
  <2> QED BY <1>5, <1>7, <2>4, <2>5, <2>8, <2>9 DEF LineInv
<1>9. ASSUME Line' = Line
      PROVE  LineInv'
  <2>1. \A v \in Workers : ~Puts(v)
    BY <1>1, <1>9 DEF Puts
  <2>2. \A n : OnLine(n)' <=> OnLine(n)
    BY <1>9 DEF OnLine
  <2>3. ASSUME NEW v \in Workers, pc'[v] = "enqueue"
        PROVE  ~OnLine(current'[v])
    <3>1. CASE TakesNumber(v)
      <4>1. current'[v] = configurations + 1
        BY <3>1 DEF TakesNumber, TypeOK
      <4> QED BY <1>1, <1>4, <4>1 DEF OnLine
    <3>2. CASE Keeps(v)
      BY <2>3, <3>2 DEF Keeps, LineInv, NumberedSteps
    <3> QED BY <1>2, <2>1, <3>1, <3>2
  <2>4. ASSUME NEW n \in 1 .. Smaller(configurations', PrintLimit)
        PROVE  internalError' \/ OnLine(n) \/ InHand(n)'
    <3>1. CASE n <= configurations
      <4>1. n \in 1 .. Smaller(configurations, PrintLimit) /\ n <= PrintLimit
        BY <1>1, <3>1 DEF Smaller
      <4>2. ASSUME NEW v \in Workers, pc[v] = "enqueue", current[v] = n
            PROVE  internalError' \/ InHand(n)'
        <5>1. Keeps(v)
          BY <1>2, <2>1, <4>2 DEF TakesNumber
        <5>2. current[v] <= PrintLimit
          BY <4>1, <4>2
        <5>3. pc'[v] = "enqueue" \/ internalError'
          BY <4>2, <5>1, <5>2, Zenon DEF Keeps
        <5>4. pc'[v] = "enqueue" => current'[v] = n
          BY <4>2, <5>1 DEF Keeps, NumberedSteps
        <5> QED BY <5>3, <5>4 DEF InHand
      <4> QED BY <1>a, <4>1, <4>2 DEF LineInv, InHand
    <3>2. CASE n > configurations
      <4>1. PICK w \in Workers : TakesNumber(w)
        BY <1>1, <3>2, NumberingFrame DEF Smaller
      <4>2. /\ configurations' = configurations + 1 /\ current'[w] = configurations + 1
            /\ pc'[w] = "enqueue"
        BY <4>1 DEF TakesNumber, TypeOK
      <4>3. n = current'[w]
        BY <1>1, <3>2, <4>2 DEF Smaller
      <4> QED BY <4>2, <4>3 DEF InHand
    <3> QED BY <1>1, <3>1, <3>2 DEF Smaller
  <2>5. /\ \A i, j \in 1 .. Len(Line') : Line'[i].number = Line'[j].number => i = j
        /\ \A i \in 1 .. Len(Line') : Line'[i] \in numbering' /\ Line'[i].number <= PrintLimit
    BY <1>a, <1>9 DEF LineInv
  <2>6. \A v \in Workers : pc'[v] = "enqueue" => ~OnLine(current[v])'
    BY <1>9, <2>3 DEF OnLine
  <2>7. \A n \in 1 .. Smaller(configurations', PrintLimit) :
            internalError' \/ OnLine(n)' \/ InHand(n)'
    BY <2>2, <2>4
  <2> QED BY <1>5, <1>7, <2>5, <2>6, <2>7 DEF LineInv
<1> QED BY <1>8, <1>9, LineFrame

(* Nothing fails or is cut short that cannot be.                           *)
LEMMA CauseStep ==
    ASSUME TypeOK, CreationInv, CauseInv, [Next]_vars
    PROVE  CauseInv'
<1>0. created \in Nat /\ WorkerCount \in Nat
  BY CountsTyped DEF TypeOK
<1>1. ASSUME NEW w \in Workers, Worker(w)
      PROVE  CauseInv'
  <2>1. CASE CheckStop(w) \/ ClaimJob(w) \/ NextPrefix(w)
    BY <2>1, <1>0
    DEF CauseInv, CheckStop, Goto, ClaimJob, Ticket, NextPrefix, sharedVars, mainVars
  <2>2. CASE CountJob(w) \/ VisitLeaf(w) \/ PollStop(w)
    BY <2>2, <1>0
    DEF CauseInv, CountJob, Goto, VisitLeaf, PollStop, sharedVars, mainVars
  <2>3. CASE HitNodeLimit(w) \/ FinishPrefix(w) \/ LeavePrefix(w)
    BY <2>3, <1>0
    DEF CauseInv, HitNodeLimit, StopAtNodeLimit, Goto, FinishPrefix, LeavePrefix,
        sharedVars, mainVars
  <2>4. CASE AllocFails(w) \/ RememberExtension(w) \/ LoadCount(w)
    BY <2>4, <1>0
    DEF CauseInv, AllocFails, Goto, RememberExtension, LoadCount, sharedVars, mainVars
  <2>5. CASE ReserveRefused(w) \/ CompareExchange(w) \/ Enqueue(w)
    BY <2>5, <1>0
    DEF CauseInv, ReserveRefused, Goto, CompareExchange, Enqueue, sharedVars, mainVars
  <2>6. CASE NotifyWatcher(w) \/ ReachLimit(w) \/ Retire(w)
    BY <2>6, <1>0
    DEF CauseInv, NotifyWatcher, WakeWatcher, Goto, ReachLimit, Retire, sharedVars,
        mainVars
  <2> QED BY <1>1, <2>1, <2>2, <2>3, <2>4, <2>5, <2>6 DEF Worker
<1>2. CASE MainThread
  <2>1. CASE ActivateWorker
    BY <2>1, <1>0
    DEF CauseInv, ActivateWorker, MainGoto, sharedVars, mainVars
  <2>2. CASE CreateWorker
    <3>1. mainPc = "create" /\ created < WorkerCount /\ created' = created + 1
      BY <2>2 DEF CreateWorker, CreationInv
    <3>2. mainPc' \notin {"activate", "create"} => ~(created' < WorkerCount)
      BY <2>2, <1>0, <3>1 DEF CreateWorker, MainGoto
    <3>3. internalError' = internalError /\ nodeLimitHit' = nodeLimitHit
      BY <2>2 DEF CreateWorker, sharedVars
    <3> QED BY <3>2, <3>3 DEF CauseInv
  <2>3. CASE CreateFails \/ LockEvent \/ TestActive
    BY <2>3, <1>0
    DEF CauseInv, CreateFails, MainGoto, LockEvent, TestActive, sharedVars, mainVars
  <2>4. CASE PollInterrupt \/ WatchDrain \/ RecheckActive
    BY <2>4, <1>0
    DEF CauseInv, PollInterrupt, MainGoto, WatchDrain, DrainSolutions, RecheckActive,
        sharedVars, mainVars
  <2>5. CASE StartWait \/ WaitExpires \/ JoinWorkers
    BY <2>5, <1>0
    DEF CauseInv, StartWait, MainGoto, WaitExpires, JoinWorkers, DrainSolutions,
        sharedVars, mainVars
  <2>6. CASE CheckErrors \/ CheckUnfinished
    BY <2>6, <1>0
    DEF CauseInv, CheckErrors, MainGoto, CheckUnfinished, sharedVars, mainVars
  <2>7. CASE Report
    BY <2>7, ReportStep DEF CauseInv, sharedVars
  <2>8. CASE Exit
    BY <2>8, <1>0
    DEF CauseInv, Exit, MainGoto, sharedVars, mainVars
  <2> QED BY <1>2, <2>1, <2>2, <2>3, <2>4, <2>5, <2>6, <2>7, <2>8 DEF MainThread
<1>3. CASE Interrupt \/ UNCHANGED vars
  BY <1>3, <1>0
  DEF CauseInv, Interrupt, vars, sharedVars, mainVars
<1> QED BY <1>1, <1>2, <1>3 DEF Next

-----------------------------------------------------------------------------
(* The parts together. *)

USE DriverAssumption

LEMMA IInvInit == Init => IInv
<1> SUFFICES ASSUME Init PROVE IInv
  OBVIOUS
<1>1. TypeOK
  <2>1. jobOrder \in [Jobs -> Jobs]
    BY CountsTyped DEF Init, JobOrders
  <2>2. <<>> \in Seq(Announcement)
    OBVIOUS
  <2>3. queue \in Seq(Announcement) /\ printed \in Seq(Announcement)
    BY <2>2 DEF Init
  <2>4. /\ pc \in [Workers -> WorkerSteps] /\ slot \in [Workers -> Nat]
        /\ prefix \in [Workers -> Nat] /\ leaf \in [Workers -> Nat]
        /\ current \in [Workers -> Nat] /\ failed \in [Workers -> BOOLEAN]
    BY DEF Init, WorkerSteps
  <2>5. active \in 0 .. WorkerCount /\ created \in 0 .. WorkerCount
    BY CountsTyped DEF Init
  <2> QED BY <2>1, <2>3, <2>4, <2>5 DEF Init, TypeOK, MainSteps, Verdicts
<1>2. CreationInv
  BY CountsTyped DEF Init, CreationInv, AfterJoin, Workers
<1>3. MutexInv /\ NoLostWakeup
  BY CountsTyped DEF Init, MutexInv, NoLostWakeup
<1>4. ActiveCountExact
  <2>1. {w \in Workers : Running(w)} = {}
    BY DEF Init, Running
  <2>2. active = 0 /\ mainPc # "create"
    BY DEF Init
  <2> QED BY <2>1, <2>2, FS_EmptySet DEF ActiveCountExact
<1>5. PlaceInv /\ ReservationInv /\ JobExclusive
  BY DriverAssumption DEF Init, PlaceInv, Place, ReservationInv, Reserved, JobExclusive, InJob,
      Searching, Recording, NumberedSteps
<1>6. NumbersAreDense
  BY DEF Init, NumbersAreDense
<1>7. TicketInv
  <2>1. jobsDone = Cardinality(completed)
    BY FS_EmptySet DEF Init
  <2>2. /\ \A w \in Workers : pc[w] \in InJob => slot[w] < nextJob
        /\ \A s \in completed : s < nextJob
        /\ \A s \in Jobs : ~(s < nextJob)
        /\ \A w \in Workers : pc[w] \notin {"retire", "exited"}
    BY CountsTyped DEF Init, InJob, Jobs
  <2> QED BY <2>1, <2>2 DEF TicketInv
<1>8. ProgressInv
  BY DEF Init, ProgressInv, Progress, InJob, Recording
<1>9. OriginInv
  BY DEF Init, OriginInv, Numbered
<1>10. StopInv /\ VerdictInv
  BY DEF Init, StopInv, VerdictInv
<1>11. Numbered = {}
  BY DEF Init, Numbered
<1>12. FreshInv
  BY <1>11 DEF Init, FreshInv, Fresh, Untouched, Searching, AtPrefix
<1>13. RememberedInv /\ OnceInv
  BY <1>11 DEF Init, RememberedInv, OnceInv, NumberedOnce, Reserving
<1>14. LineInv
  <2>1. Len(Line) = 0
    BY DEF Init, Line
  <2>2. 1 .. Smaller(configurations, PrintLimit) = {} /\ 1 .. Len(Line) = {}
    BY <2>1, DriverAssumption DEF Init, Smaller
  <2>3. mainPc \notin AfterJoin
    BY DEF Init, AfterJoin
  <2>4. \A w \in Workers : pc[w] \notin NumberedSteps /\ pc[w] # "enqueue"
    BY DEF Init, NumberedSteps
  <2> QED BY <2>2, <2>3, <2>4 DEF LineInv
<1>15. CauseInv
  BY CountsTyped DEF Init, CauseInv
<1> QED BY <1>1, <1>2, <1>3, <1>4, <1>5, <1>6, <1>7, <1>8, <1>9, <1>10, <1>12, <1>13, <1>14,
           <1>15 DEF IInv

LEMMA CreatedChange ==
    ASSUME [Next]_vars, created' # created
    PROVE  mainPc = "create" /\ created' = created + 1
  BY ZenonT(60) DEF Next, Worker, MainThread, CheckStop, ClaimJob, NextPrefix, CountJob, VisitLeaf, PollStop, HitNodeLimit,
    FinishPrefix, LeavePrefix, AllocFails, RememberExtension, LoadCount,
    ReserveRefused, CompareExchange, Enqueue, NotifyWatcher, ReachLimit, Retire,
    ActivateWorker, CreateWorker, CreateFails, LockEvent, TestActive, PollInterrupt,
    WatchDrain, RecheckActive, StartWait, WaitExpires, JoinWorkers, CheckErrors,
    CheckUnfinished, Report, Exit,
    Interrupt, vars, sharedVars, workerVars, mainVars, history

LEMMA ActiveBound ==
    ActiveCountExact /\ CreationInv /\ created \in 0 .. WorkerCount
        => active \in 0 .. WorkerCount
  BY ActiveTyped

LEMMA ActiveBoundNext ==
    (ActiveCountExact /\ CreationInv /\ created \in 0 .. WorkerCount
        => active \in 0 .. WorkerCount)'
  BY ActiveBound, PTL

LEMMA IInvStep == IInv /\ [Next]_vars => IInv'
<1> SUFFICES ASSUME IInv, [Next]_vars PROVE IInv'
  OBVIOUS
<1> USE DEF IInv
<1>1. CreationInv' /\ ActiveCountExact'
  BY CreationStep, ActiveStep
<1>2. created' \in 0 .. WorkerCount
  <2>1. CASE created' = created
    BY <2>1 DEF TypeOK
  <2>2. CASE created' # created
    BY <2>2, CreatedChange, CountsTyped DEF CreationInv, TypeOK
  <2> QED BY <2>1, <2>2
<1>3. active' \in 0 .. WorkerCount
  BY <1>1, <1>2, ActiveBoundNext
<1>4. TypeOK'
  BY <1>3, TypeStep
<1>5. MutexInv' /\ NoLostWakeup' /\ PlaceInv'
  BY MutexStep, WakeupStep, PlaceStep
<1>6. NumbersAreDense' /\ ReservationInv' /\ JobExclusive'
  BY NumbersStep, ReservationStep, ExclusiveStep
<1>7. TicketInv' /\ OriginInv'
  BY TicketStep, OriginStep
<1>8. ProgressInv'
  BY ProgressStep
<1>9. StopInv' /\ VerdictInv'
  BY StopStep, VerdictStep
<1>10. FreshInv'
  BY <1>4, <1>5, FreshStep
<1>11. RememberedInv' /\ OnceInv'
  BY <1>4, <1>5, <1>10, RememberedStep, OnceStep
<1>12. LineInv' /\ CauseInv'
  BY <1>4, LineStep, CauseStep
<1> QED BY <1>1, <1>4, <1>5, <1>6, <1>7, <1>8, <1>9, <1>10, <1>11, <1>12

(* The inductive invariant holds in every reachable state.                  *)
THEOREM Invariance == Spec => []IInv
  BY IInvInit, IInvStep, PTL DEF Spec

(* Every variable of the driver keeps its type.                             *)
THEOREM TypeCorrect == Spec => []TypeOK
<1>1. IInv => TypeOK
  BY DEF IInv
<1> QED BY <1>1, Invariance, PTL

(* --limit N: the counter never passes N, whoever races on it, and a        *)
(* session that blames the limit has counted exactly N configurations.      *)
THEOREM LimitSafe == Spec => []LimitRespected
<1>1. IInv => LimitRespected
  BY DEF IInv, TypeOK, ReservationInv, VerdictInv, LimitRespected, LimitReached
<1> QED BY <1>1, Invariance, PTL

(* Configurations are numbered 1, 2, ... without a gap or a repetition.     *)
THEOREM NumbersSafe == Spec => []NumbersAreDense
<1>1. IInv => NumbersAreDense
  BY DEF IInv
<1> QED BY <1>1, Invariance, PTL

(* No two workers search the same job, and no job is searched again.        *)
THEOREM JobsSafe == Spec => []JobExclusive
<1>1. IInv => JobExclusive
  BY DEF IInv
<1> QED BY <1>1, Invariance, PTL

(* active_workers is the number of running workers, and the watcher never   *)
(* sleeps on it after the last one has gone.                                *)
THEOREM WatcherSafe == Spec => [](ActiveCountExact /\ NoLostWakeup)
<1>1. IInv => ActiveCountExact /\ NoLostWakeup
  BY DEF IInv
<1> QED BY <1>1, Invariance, PTL

(* A job counted in jobs_done was searched to its end, each leaf of it      *)
(* numbered, or (for extensions) about to be.                               *)
THEOREM CountedSafe == Spec => []CountedJobIsSearched
<1>1. IInv => CountedJobIsSearched
  BY DEF IInv, TicketInv, ProgressInv, CountedJobIsSearched, Searched, Covered
<1> QED BY <1>1, Invariance, PTL

(* The session fails only for want of memory or of a thread.                *)
THEOREM FailureExplained == Spec => []NoSpuriousFailure
<1>1. IInv => NoSpuriousFailure
  BY DEF IInv, VerdictInv, NoSpuriousFailure
<1> QED BY <1>1, Invariance, PTL

LEMMA EveryPrefixHasASlot ==
    ASSUME OriginInv, NEW p \in Prefixes
    PROVE  \E s \in Jobs : p \in JobPrefixes(jobOrder[s])
<1>1. JobCount \in Nat \ {0} /\ JobCount <= PrefixCount /\ p \in 0 .. PrefixCount - 1
  BY CountsTyped, DriverAssumption DEF Prefixes
<1>2. PICK j \in Jobs : p \in JobPrefixes(j)
  <2>1. PICK j \in 0 .. JobCount - 1 :
            /\ RangeBegin(PrefixCount, JobCount, j) <= p
            /\ p < RangeEnd(PrefixCount, JobCount, j)
    BY <1>1, RangesCover, DriverAssumption
  <2>2. j \in Jobs
    BY DEF Jobs
  <2> QED BY <1>1, <2>1, <2>2, JobRangeTyped DEF JobPrefixes
<1>3. PICK s \in Jobs : jobOrder[s] = j
  BY DEF OriginInv, JobOrders
<1> QED BY <1>2, <1>3

LEMMA CompleteFromInvariant == IInv => CompleteIsExhaustive
<1> SUFFICES ASSUME IInv, verdict = "complete"
             PROVE  /\ explored = Prefixes /\ Numbered = AllLeaves
                    /\ ~internalError /\ created = WorkerCount
  BY DEF CompleteIsExhaustive
<1>1. ~stop /\ created = WorkerCount /\ mainPc \in AfterJoin
  BY DEF IInv, VerdictInv, AfterJoin
<1>2. ~internalError
  BY <1>1 DEF IInv, StopInv
<1>3. completed = Jobs
  BY <1>1, AllJobsDone DEF IInv
<1>4. \A w \in Workers : pc[w] = "exited"
  BY <1>1, CountsTyped DEF IInv, CreationInv, Workers
<1>5. ASSUME NEW p \in Prefixes PROVE Searched(p)
  <2>1. PICK s \in Jobs : p \in JobPrefixes(jobOrder[s])
    BY EveryPrefixHasASlot DEF IInv
  <2> QED BY <1>3, <2>1 DEF IInv, ProgressInv
<1>6. explored = Prefixes
  BY <1>5 DEF Searched, IInv, TypeOK
<1>7. AllLeaves \subseteq Numbered
  BY <1>1, <1>4, <1>5 DEF Searched, Covered, Reserving, AllLeaves
<1> QED BY <1>1, <1>2, <1>6, <1>7 DEF IInv, OriginInv

(* A session that reports "complete" has searched every prefix and          *)
(* numbered exactly the fair configurations, whatever order the workers     *)
(* drew and finished the jobs in.                                           *)
THEOREM CompleteSafe == Spec => []CompleteIsExhaustive
  BY CompleteFromInvariant, Invariance, PTL

(* No configuration gets two numbers: without --extend-solutions because no *)
(* prefix is searched twice, with it because only the worker that           *)
(* remembers an encoding reserves a number for it.                          *)
THEOREM OnceSafe == Spec => []NumberedOnce
<1>1. IInv => NumberedOnce
  BY DEF IInv, OnceInv
<1> QED BY <1>1, Invariance, PTL

LEMMA PrintedOfLine ==
    ASSUME TypeOK
    PROVE  /\ \A i \in 1 .. Len(printed) : i \in 1 .. Len(Line) /\ Line[i] = printed[i]
           /\ queue = <<>> => Line = printed
<1>1. /\ printed \in Seq(Announcement) /\ queue \in Seq(Announcement)
      /\ Len(printed) \in Nat /\ Len(queue) \in Nat
  BY DEF TypeOK
<1> QED BY <1>1 DEF Line

LEMMA PrintedFromInvariant == IInv => PrintedExactlyOnce
<1> SUFFICES ASSUME IInv
             PROVE  PrintedExactlyOnce
  OBVIOUS
<1>0. TypeOK /\ CreationInv /\ NumbersAreDense /\ LineInv
  BY DEF IInv
<1>1. \A i, j \in 1 .. Len(printed) : printed[i].number = printed[j].number => i = j
  BY <1>0, PrintedOfLine DEF LineInv
<1>2. \A i \in 1 .. Len(printed) : printed[i] \in numbering /\ printed[i].number <= PrintLimit
  BY <1>0, PrintedOfLine DEF LineInv
<1>3. Items(printed) \subseteq numbering
  BY <1>2 DEF Items
<1>4. ASSUME mainPc = "done", ~internalError
      PROVE  {r.number : r \in Items(printed)} = 1 .. Smaller(configurations, PrintLimit)
  <2>1. queue = <<>> /\ Line = printed
    BY <1>0, <1>4, PrintedOfLine DEF LineInv, AfterJoin
  <2>2. \A n : ~InHand(n)
    BY <1>0, <1>4 DEF CreationInv, AfterJoin, InHand
  <2>3. ASSUME NEW n \in 1 .. Smaller(configurations, PrintLimit)
        PROVE  n \in {r.number : r \in Items(printed)}
    <3>1. PICK i \in 1 .. Len(printed) : printed[i].number = n
      BY <1>0, <1>4, <2>1, <2>2 DEF LineInv, OnLine
    <3>2. printed[i] \in Items(printed)
      BY DEF Items
    <3> QED BY <3>1, <3>2
  <2>4. ASSUME NEW r \in Items(printed)
        PROVE  r.number \in 1 .. Smaller(configurations, PrintLimit)
    <3>1. r \in numbering /\ r.number <= PrintLimit
      BY <1>2 DEF Items
    <3>2. r.number \in 1 .. configurations
      BY <1>0, <3>1 DEF NumbersAreDense
    <3>3. configurations \in Nat /\ PrintLimit \in Nat
      BY <1>0, DriverAssumption DEF TypeOK
    <3> QED BY <3>1, <3>2, <3>3 DEF Smaller
  <2> QED BY <2>3, <2>4
<1> QED BY <1>1, <1>3, <1>4 DEF PrintedExactlyOnce

(* Unless memory runs out, exactly the configurations numbered up to        *)
(* --print-limit are printed, once each, through a list that the watcher    *)
(* detaches while workers append to it.                                     *)
THEOREM PrintedSafe == Spec => []PrintedExactlyOnce
  BY PrintedFromInvariant, Invariance, PTL

(* Nothing the report is made from changes once the workers are joined.     *)
THEOREM ReportSafe == Spec => ReportIsFinal
<1>1. IInv /\ [Next]_vars
          => (mainPc \in AfterJoin =>
                 UNCHANGED <<sharedVars, workerVars, printed, history>>)
  <2> SUFFICES ASSUME IInv, [Next]_vars, mainPc \in AfterJoin
               PROVE  UNCHANGED <<sharedVars, workerVars, printed, history>>
    OBVIOUS
  <2>1. \A w \in Workers : pc[w] \in {"absent", "exited"}
    BY DEF IInv, CreationInv
  <2>2. \A w \in Workers : ~Worker(w)
    BY <2>1 DEF Worker, CheckStop, ClaimJob, NextPrefix, CountJob, VisitLeaf, PollStop,
        HitNodeLimit, FinishPrefix, LeavePrefix, AllocFails, RememberExtension, LoadCount,
        ReserveRefused, CompareExchange, Enqueue, NotifyWatcher, ReachLimit, Retire
  <2>3. CASE MainThread
    BY <2>3 DEF MainThread, AfterJoin, ActivateWorker, CreateWorker, CreateFails, LockEvent,
        TestActive, PollInterrupt, WatchDrain, RecheckActive, StartWait, WaitExpires,
        JoinWorkers, CheckErrors, CheckUnfinished, Report, Exit, MainGoto, history
  <2>4. CASE Interrupt \/ UNCHANGED vars
    BY <2>4 DEF Interrupt, vars, mainVars, history
  <2> QED BY <2>2, <2>3, <2>4 DEF Next
<1> QED BY <1>1, Invariance, PTL DEF Spec, ReportIsFinal
-----------------------------------------------------------------------------
(* The driver implements a session.                                         *)

LEMMA SessionInit == Init => Session!Init
<1> SUFFICES ASSUME Init
             PROVE  Session!Init
  OBVIOUS
<1>1. Numbered = {}
  BY DEF Init, Numbered
<1> QED BY <1>1 DEF Init, Session!Init

LEMMA SessionLimit ==
    ASSUME configurations \in Nat
    PROVE  /\ Session!AtLimit <=> AtLimit(configurations)
           /\ Session!AtLimit <=> LimitReached
  BY DriverAssumption DEF Session!AtLimit, AtLimit, LimitReached

LEMMA FindImplements ==
    ASSUME IInv, [Next]_vars, NEW w \in Workers, TakesNumber(w)
    PROVE  Found(w) \in AllLeaves /\ Session!Find(Found(w))
<1>0. TypeOK /\ CreationInv /\ PlaceInv /\ OnceInv /\ VerdictInv /\ configurations \in Nat
  BY DEF IInv, TypeOK
<1>1. /\ Reserving(w) /\ prefix[w] \in Prefixes /\ leaf[w] \in 1 .. Len(Leaves[prefix[w]])
      /\ Found(w) = Leaves[prefix[w]][leaf[w]]
  BY <1>0, NumberTaker
<1>2. Found(w) \in AllLeaves /\ Found(w) \notin Numbered
  BY <1>0, <1>1 DEF AllLeaves, Items, OnceInv
<1>3. mainPc \notin {"exit", "done"}
  BY <1>0, <1>1 DEF CreationInv, AfterJoin, Reserving
<1>4. verdict = "running"
  BY <1>0, <1>3 DEF VerdictInv
<1>5. /\ ~AtLimit(configurations) /\ configurations' = configurations + 1
      /\ interrupted' = interrupted /\ verdict' = verdict
  BY DEF TakesNumber, mainVars
<1>6. Numbered' = Numbered \union {Found(w)}
  BY NumberedGrows
<1> QED BY <1>0, <1>2, <1>4, <1>5, <1>6, SessionLimit DEF Session!Find

LEMMA CompleteFromInvariantNext == IInv' => CompleteIsExhaustive'
<1>1. IInv => CompleteIsExhaustive
  BY CompleteFromInvariant
<1> QED BY <1>1, PTL

LEMMA ReportImplements ==
    ASSUME IInv, IInv', [Next]_vars, Report
    PROVE  Session!Conclude
<1>0. /\ TypeOK /\ CreationInv /\ VerdictInv /\ CauseInv /\ configurations \in Nat
  BY DEF IInv, TypeOK
<1>1. mainPc = "report" /\ verdict = "running" /\ exitStatus \in {"success", "failure"}
  BY <1>0, ReportStep DEF VerdictInv, TypeOK
<1>2. UNCHANGED <<configurations, numbering, interrupted>>
  BY ReportStep DEF sharedVars, history
<1>3. Numbered' = Numbered
  BY <1>2 DEF Numbered
<1>4. CASE interrupted
  <2>1. verdict' = "interrupted"
    BY <1>4, ReportStep
  <2> QED BY <1>1, <1>2, <1>3, <1>4, <2>1 DEF Session!Conclude
<1>5. CASE ~interrupted /\ nodeLimitHit
  <2>1. verdict' = "nodeLimit" /\ NodeLimited
    BY <1>0, <1>5, ReportStep DEF CauseInv
  <2> QED BY <1>1, <1>2, <1>3, <1>5, <2>1 DEF Session!Conclude
<1>6. CASE ~interrupted /\ ~nodeLimitHit /\ LimitReached
  <2>1. verdict' = "solutionLimit"
    BY <1>6, ReportStep
  <2> QED BY <1>0, <1>1, <1>2, <1>3, <1>6, <2>1, SessionLimit DEF Session!Conclude
<1>7. CASE ~interrupted /\ ~nodeLimitHit /\ ~LimitReached /\ exitStatus = "success"
  <2>1. verdict' = "complete"
    BY <1>7, ReportStep
  <2>2. Numbered' = AllLeaves
    BY <2>1, CompleteFromInvariantNext DEF CompleteIsExhaustive
  <2> QED BY <1>0, <1>1, <1>2, <1>3, <1>7, <2>1, <2>2, SessionLimit DEF Session!Conclude
<1>8. CASE ~interrupted /\ ~nodeLimitHit /\ ~LimitReached /\ exitStatus = "failure"
  <2>1. verdict' = "failed"
    BY <1>8, ReportStep
  <2>2. AllocMayFail \/ CreateMayFail
    BY <1>0, <1>1, <1>8 DEF VerdictInv, CauseInv
  <2> QED BY <1>0, <1>1, <1>2, <1>3, <1>8, <2>1, <2>2, SessionLimit DEF Session!Conclude
<1> QED BY <1>1, <1>4, <1>5, <1>6, <1>7, <1>8

(* Only the report changes the verdict, only Ctrl-C interrupts.             *)
LEMMA VerdictFrame ==
    ASSUME [Next]_vars
    PROVE  \/ Report \/ Interrupt
           \/ UNCHANGED <<interrupted, verdict>>
<1>1. ASSUME NEW w \in Workers, Worker(w)
      PROVE  UNCHANGED <<interrupted, verdict>>
  BY <1>1, Zenon DEF Worker, CheckStop, ClaimJob, NextPrefix, CountJob, VisitLeaf, PollStop,
      HitNodeLimit, FinishPrefix, LeavePrefix, AllocFails, RememberExtension, LoadCount,
      ReserveRefused, CompareExchange, Enqueue, NotifyWatcher, ReachLimit, Retire, mainVars
<1>2. CASE MainThread /\ ~Report
  BY <1>2, Zenon DEF MainThread, ActivateWorker, CreateWorker, CreateFails, LockEvent, TestActive,
      PollInterrupt, WatchDrain, RecheckActive, StartWait, WaitExpires, JoinWorkers,
      CheckErrors, CheckUnfinished, Exit
<1>3. CASE UNCHANGED vars
  BY <1>3 DEF vars, mainVars
<1> QED BY <1>1, <1>2, <1>3 DEF Next

LEMMA SessionStep == IInv /\ IInv' /\ [Next]_vars => [Session!Next]_(Session!vars)
<1> SUFFICES ASSUME IInv, IInv', [Next]_vars
             PROVE  [Session!Next]_(Session!vars)
  OBVIOUS
<1>0. TypeOK
  BY DEF IInv
<1>2. ASSUME NEW w \in Workers, TakesNumber(w)
      PROVE  Session!Next
  BY <1>2, FindImplements DEF Session!Next
<1>3. CASE Report
  BY <1>3, ReportImplements DEF Session!Next
<1>4. CASE Interrupt
  <2>1. /\ ~interrupted /\ interrupted' = TRUE
        /\ UNCHANGED <<configurations, numbering, verdict>>
    BY <1>4 DEF Interrupt, sharedVars, history
  <2>2. Numbered' = Numbered
    BY <2>1 DEF Numbered
  <2> QED BY <2>1, <2>2 DEF Session!Next, Session!Interrupt
<1>5. CASE UNCHANGED <<configurations, numbering>> /\ UNCHANGED <<interrupted, verdict>>
  <2>1. Numbered' = Numbered
    BY <1>5 DEF Numbered
  <2> QED BY <1>5, <2>1 DEF Session!vars
<1> QED BY <1>0, <1>2, <1>3, <1>4, <1>5, NumberingFrame, VerdictFrame

(* residual_search keeps what a session promises: each configuration is     *)
(* found once, never more than the limit, and the verdict has its reason.   *)
THEOREM SessionImplemented == Spec => SessionSpec
<1>1. Init => Session!Init
  BY SessionInit
<1>2. IInv /\ IInv' /\ [Next]_vars => [Session!Next]_(Session!vars)
  BY SessionStep
<1> QED BY <1>1, <1>2, Invariance, PTL DEF Spec, SessionSpec, Session!Spec
=============================================================================
