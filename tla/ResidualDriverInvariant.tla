----------------------- MODULE ResidualDriverInvariant -----------------------
(***************************************************************************)
(* The inductive invariant of ResidualDriver, in named parts: what the     *)
(* safety properties need to be told about the steps in between.           *)
(***************************************************************************)
EXTENDS ResidualDriver

Searching == {"search", "remember", "load", "cas", "enqueue", "notify", "limit", "prefixDone"}
Recording == {"remember", "load", "cas", "enqueue", "notify", "limit"}
NumberedSteps == {"enqueue", "notify", "limit"}

(* Workers come into being in order, until main has them all or gives up.  *)
CreationInv ==
    /\ \A w \in Workers : pc[w] = "absent" <=> w > created
    /\ mainPc \in {"activate", "create"} => created < WorkerCount /\ exitStatus = "success"
    /\ mainPc \notin {"activate", "create"} /\ created < WorkerCount =>
           exitStatus = "failure" /\ stop
    /\ mainPc \in AfterJoin => \A w \in Workers : pc[w] \in {"absent", "exited"}

(* event_mutex is held by the watcher just while it looks and decides.     *)
MutexInv == eventOwner = Main <=> mainPc \in {"test", "recheck", "wait"}

(* A worker in a job has a slot, a prefix of that job and a leaf of it.    *)
Place(w) ==
    /\ pc[w] \in InJob =>
           /\ slot[w] \in Jobs
           /\ RangeBegin(PrefixCount, JobCount, JobOf(w)) <= prefix[w]
           /\ prefix[w] <= RangeEnd(PrefixCount, JobCount, JobOf(w))
    /\ pc[w] \in Searching =>
           /\ prefix[w] < RangeEnd(PrefixCount, JobCount, JobOf(w))
           /\ leaf[w] <= Len(Leaves[prefix[w]])
    /\ pc[w] \in Recording => leaf[w] >= 1
    /\ pc[w] = "remember" => Extension
    /\ pc[w] = "count" => prefix[w] = RangeEnd(PrefixCount, JobCount, JobOf(w))

PlaceInv == \A w \in Workers : Place(w)

(* A number that is reserved is recorded, and a stale count is a low one.  *)
Reserved(w) ==
    /\ pc[w] = "cas" => current[w] <= configurations
    /\ pc[w] \in NumberedSteps =>
           [number |-> current[w], encoding |-> Found(w)] \in numbering

ReservationInv ==
    /\ Limit # 0 => configurations <= Limit
    /\ \A w \in Workers : Reserved(w)

(* Slots are drawn once, and those drawn are searched, counted or given up. *)
InJobAt(w, s) == pc[w] \in InJob /\ slot[w] = s

TicketInv ==
    /\ \A w \in Workers : pc[w] \in InJob => slot[w] < nextJob
    /\ \A s \in completed : s < nextJob
    /\ \A s \in Jobs : s < nextJob =>
           stop \/ s \in completed \/ \E w \in Workers : InJobAt(w, s)
    /\ \A w \in Workers : pc[w] \in {"retire", "exited"} => stop \/ nextJob >= JobCount
    /\ jobsDone = Cardinality(completed)

(* An encoding that was visited has its number, or is about to have it.    *)
Covered(e) ==
    \/ e \in Numbered
    \/ Extension /\ (stop \/ \E v \in Workers : Reserving(v) /\ Found(v) = e)

Searched(p) == p \in explored /\ \A e \in Items(Leaves[p]) : Covered(e)

(* What a worker has behind it in its job is searched and covered.         *)
Progress(w) ==
    /\ pc[w] \in InJob => \A p \in JobPrefixes(JobOf(w)) : p < prefix[w] => Searched(p)
    /\ pc[w] = "search" => \A i \in 1 .. leaf[w] : stop \/ Covered(Leaves[prefix[w]][i])
    /\ pc[w] \in Recording =>
           \A i \in 1 .. leaf[w] - 1 : stop \/ Covered(Leaves[prefix[w]][i])
    /\ pc[w] = "prefixDone" => stop \/ Searched(prefix[w])

ProgressInv ==
    /\ \A w \in Workers : Progress(w)
    /\ \A e \in remembered : Covered(e)
    /\ \A s \in completed : \A p \in JobPrefixes(jobOrder[s]) : Searched(p)

(* The job order is never disturbed, and numbers are given to real leaves.  *)
OriginInv == jobOrder \in JobOrders /\ Numbered \subseteq AllLeaves

(* Nothing stops the workers without leaving its reason behind.            *)
StopInv ==
    /\ stop => \/ interrupted \/ nodeLimitHit \/ LimitReached \/ internalError
               \/ mainPc \notin {"activate", "create"} /\ created < WorkerCount
    /\ nodeLimitHit \/ internalError => stop
    /\ \A w \in Workers : failed[w] => internalError

(* The verdict follows from what main reads after the join.                *)
VerdictInv ==
    /\ mainPc \notin {"exit", "done"} => verdict = "running"
    /\ mainPc # "done" => exitStatus # "sigint"
    /\ exitStatus = "failure" => internalError \/ created < WorkerCount
    /\ mainPc \in {"unfinished", "report", "exit", "done"} /\ internalError =>
           exitStatus = "failure"
    /\ verdict = "solutionLimit" => LimitReached
    /\ verdict = "failed" => exitStatus = "failure"
    /\ verdict = "complete" => ~stop /\ created = WorkerCount /\ mainPc \in {"exit", "done"}

(* A numbered encoding lies behind a worker: nothing ahead of one, and     *)
(* nothing in a job that nobody has drawn, has its number yet.             *)
Unnumbered == {"remember", "load", "cas"}
AtPrefix   == Searching \ {"prefixDone"}

Untouched(p) == \A i \in 1 .. Len(Leaves[p]) : Leaves[p][i] \notin Numbered
Ahead(w, i)  == i > leaf[w] \/ (pc[w] \in Unnumbered /\ i = leaf[w])

Fresh(w) ==
    /\ pc[w] = "nextPrefix" =>
           \A p \in JobPrefixes(JobOf(w)) : p >= prefix[w] => Untouched(p)
    /\ pc[w] \in Searching =>
           \A p \in JobPrefixes(JobOf(w)) : p > prefix[w] => Untouched(p)
    /\ pc[w] \in AtPrefix =>
           \A i \in 1 .. Len(Leaves[prefix[w]]) :
               Ahead(w, i) => Leaves[prefix[w]][i] \notin Numbered

FreshInv ==
    ~Extension =>
        /\ \A s \in Jobs : s >= nextJob => \A p \in JobPrefixes(jobOrder[s]) : Untouched(p)
        /\ \A w \in Workers : Fresh(w)

(* With --extend-solutions an encoding is remembered before it gets its    *)
(* number, and only the worker that remembered it may number it.           *)
RememberedInv ==
    Extension =>
        /\ Numbered \subseteq remembered
        /\ \A w \in Workers : Reserving(w) => Found(w) \in remembered
        /\ \A v, w \in Workers : Reserving(v) /\ Reserving(w) /\ Found(v) = Found(w) => v = w

OnceInv ==
    /\ NumberedOnce
    /\ \A w \in Workers : Reserving(w) => Found(w) \notin Numbered

(* What was ever put into the list, in order: draining does not change it. *)
Line == printed \o queue

OnLine(n) == \E i \in 1 .. Len(Line) : Line[i].number = n
InHand(n) == \E w \in Workers : pc[w] = "enqueue" /\ current[w] = n

(* A number to print is on the line once, or in the hands of the one       *)
(* worker that was given it, unless that worker ran out of memory.         *)
LineInv ==
    /\ \A i, j \in 1 .. Len(Line) : Line[i].number = Line[j].number => i = j
    /\ \A i \in 1 .. Len(Line) : Line[i] \in numbering /\ Line[i].number <= PrintLimit
    /\ \A v, w \in Workers :
           pc[v] \in NumberedSteps /\ pc[w] \in NumberedSteps /\ current[v] = current[w] => v = w
    /\ \A w \in Workers : pc[w] = "enqueue" => ~OnLine(current[w])
    /\ \A n \in 1 .. Smaller(configurations, PrintLimit) :
           internalError \/ OnLine(n) \/ InHand(n)
    /\ mainPc \in AfterJoin => queue = <<>>

(* Nothing fails or is cut short that cannot be.                           *)
CauseInv ==
    /\ internalError => AllocMayFail
    /\ nodeLimitHit => NodeLimited
    /\ mainPc \notin {"activate", "create"} /\ created < WorkerCount => CreateMayFail

IInv ==
    /\ TypeOK /\ CreationInv /\ MutexInv /\ ActiveCountExact /\ NoLostWakeup
    /\ PlaceInv /\ NumbersAreDense /\ ReservationInv /\ JobExclusive /\ TicketInv
    /\ ProgressInv /\ OriginInv /\ StopInv /\ VerdictInv
    /\ FreshInv /\ RememberedInv /\ OnceInv /\ LineInv /\ CauseInv
=============================================================================
