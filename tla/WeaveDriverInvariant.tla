------------------------ MODULE WeaveDriverInvariant ------------------------
(***************************************************************************)
(* The inductive invariant of WeaveDriver, in named parts: what the safety *)
(* properties need to be told about the steps in between.                  *)
(***************************************************************************)
EXTENDS WeaveDriver

Recording == {"load", "exchange", "enqueue", "waiting", "limit"}
Unnumbered == {"load", "exchange"}
NumberedSteps == {"enqueue", "waiting", "limit"}
Handing   == {"enqueue", "waiting"}
Searching == {"search"} \union Recording
Working   == {"prefixDone", "jobDone"} \union Searching
InJob     == {"check"} \union Working
Gone      == {"leave", "retire", "exited"}
Creating  == {"create", "created"}
Ended     == {"finalDrain", "join", "lastDrain", "assess", "report", "done"}

Jobs == 0 .. JobCount - 1
JobPrefixes(j) == {p \in Prefixes : p % JobCount = j}

Active(w) == pc[w] \notin {"absent", "exited"}
ActiveWorkers == {w \in Workers : Active(w)}

(* Nothing has asked the workers to stop.                                  *)
Quiet == ~stop /\ ~interrupted

(* Workers come into being in order, until main has them all or gives up,  *)
(* and main leaves its loop only when the last of them has gone.           *)
CreationInv ==
    /\ \A w \in Workers : pc[w] = "absent" <=> w > created
    /\ mainPc \in Creating => created < WorkerCount /\ exitStatus = "success"
    /\ mainPc \notin Creating /\ created < WorkerCount =>
           exitStatus = "failure" /\ stop /\ CreateMayFail
    /\ mainPc \in Ended => ActiveWorkers = {}

ActiveInv ==
    activeWorkers = Cardinality(ActiveWorkers) + (IF mainPc = "created" THEN 1 ELSE 0)

(* A worker that searches is at a leaf of its prefix, or before the first. *)
Place(w) ==
    /\ pc[w] \in Searching => leaf[w] <= Len(Leaves[prefix[w]])
    /\ pc[w] \in Recording => leaf[w] >= 1

PlaceInv == \A w \in Workers : Place(w)

(* The numbers in use are 1 .. solutionTotal, one per configuration; one   *)
(* that a worker has been given is recorded, and a stale total is too low. *)
Reserved(w) ==
    /\ pc[w] = "exchange" => number[w] <= solutionTotal /\ Limit # 0
    /\ pc[w] \in NumberedSteps =>
           [number |-> number[w], encoding |-> Found(w)] \in numbering

NumbersInv ==
    /\ \A r \in numbering : r.number <= solutionTotal
    /\ \A r, s \in numbering : r.number = s.number \/ r.encoding = s.encoding => r = s
    /\ Numbered \subseteq AllLeaves
    /\ Limit # 0 => solutionTotal <= Limit
    /\ \A w \in Workers : Reserved(w)

(* What was ever put into the ring, in order: DrainOne does not change it. *)
Line == printed \o queue

OnLine(n) == \E i \in 1 .. Len(Line) : Line[i].number = n
InHand(n) == \E w \in Workers : pc[w] \in Handing /\ number[w] = n

(* A number to print is on the line once, or in the hands of the one       *)
(* worker that was given it.                                               *)
LineInv ==
    /\ \A i, j \in 1 .. Len(Line) : Line[i].number = Line[j].number => i = j
    /\ \A i \in 1 .. Len(Line) : Line[i] \in numbering /\ Line[i].number <= PrintLimit
    /\ \A v, w \in Workers :
           pc[v] \in NumberedSteps /\ pc[w] \in NumberedSteps /\ number[v] = number[w] => v = w
    /\ \A w \in Workers : pc[w] \in Handing => ~OnLine(number[w])
    /\ \A n \in 1 .. Smaller(solutionTotal, PrintLimit) : OnLine(n) \/ InHand(n)
    /\ \A w \in Workers : pc[w] = "waiting" => ToPrint(w)
    /\ mainPc \in {"assess", "report", "done"} => queue = <<>>

(* A job is drawn once; those that were given back are the ones counted,   *)
(* as long as nothing has asked the workers to stop.                       *)
Held(j) == \E w \in Workers : pc[w] \in InJob /\ job[w] = j
Returned == {j \in Jobs : j < nextJob /\ ~Held(j)}

Drawn(w) ==
    /\ pc[w] \in InJob => job[w] < nextJob
    /\ pc[w] \in Working => prefix[w] \in JobPrefixes(job[w])
    /\ pc[w] \in Gone => ~Quiet \/ nextJob >= JobCount

JobInv ==
    /\ \A w \in Workers : Drawn(w)
    /\ \A v, w \in Workers :
           pc[v] \in InJob /\ pc[w] \in InJob /\ job[v] = job[w] => v = w
    /\ jobsDone <= Cardinality(Returned)
    /\ Quiet => jobsDone = Cardinality(Returned)

(* No prefix and no leaf is reached before its turn, so none is reached    *)
(* twice.                                                                  *)
Untouched(p) ==
    searched[p] = 0 /\ \A i \in 1 .. Len(Leaves[p]) : Leaves[p][i] \notin Numbered

Ahead(w, i) == i > leaf[w] \/ (pc[w] \in Unnumbered /\ i = leaf[w])

Fresh(w) ==
    /\ pc[w] = "check" => \A p \in JobPrefixes(job[w]) : Untouched(p)
    /\ pc[w] \in Working => \A p \in JobPrefixes(job[w]) : p > prefix[w] => Untouched(p)
    /\ pc[w] \in Searching =>
           /\ searched[prefix[w]] = 0
           /\ \A i \in 1 .. Len(Leaves[prefix[w]]) :
                  Ahead(w, i) => Leaves[prefix[w]][i] \notin Numbered

FreshInv ==
    /\ \A p \in Prefixes : p % JobCount >= nextJob => Untouched(p)
    /\ \A w \in Workers : Fresh(w)

(* What lies behind a worker is searched, and numbered up to the limit.    *)
Covered(e) == e \in Numbered \/ HitLimit

Progress(w) ==
    /\ pc[w] \in Working => \A p \in JobPrefixes(job[w]) : p < prefix[w] => searched[p] = 1
    /\ pc[w] \in Searching =>
           \A i \in 1 .. leaf[w] : Ahead(w, i) \/ Covered(Leaves[prefix[w]][i])
    /\ pc[w] = "prefixDone" => ~Quiet \/ searched[prefix[w]] = 1
    /\ pc[w] = "jobDone" => ~Quiet \/ \A p \in JobPrefixes(job[w]) : searched[p] = 1

ProgressInv ==
    /\ \A p \in Prefixes :
           searched[p] # 0 => \A i \in 1 .. Len(Leaves[p]) : Covered(Leaves[p][i])
    /\ \A w \in Workers : Progress(w)
    /\ Quiet => \A j \in Returned : \A p \in JobPrefixes(j) : searched[p] = 1

(* Nothing stops the workers without leaving its reason behind.            *)
StopInv ==
    /\ stop => \/ interrupted \/ HitLimit \/ internalError
               \/ (mainPc \notin Creating /\ created < WorkerCount)
    /\ internalError => stop /\ CheckMayFail
    /\ \A w \in Workers : failed[w] => internalError

(* The verdict follows from what main reads after the join.                *)
VerdictInv ==
    /\ mainPc # "done" => status = "running" /\ exitStatus # "sigint"
    /\ exitStatus = "failure" => internalError \/ created < WorkerCount
    /\ mainPc \in {"report", "done"} /\ internalError => exitStatus = "failure"
    /\ status = "complete" => exitStatus # "failure" /\ ~interrupted /\ ~HitLimit
    /\ status = "failed" => exitStatus = "failure"
    /\ status = "solutionLimit" => HitLimit

IInv ==
    /\ RingInvariant /\ CreationInv /\ ActiveInv /\ PlaceInv /\ NumbersInv /\ LineInv
    /\ JobInv /\ FreshInv /\ ProgressInv /\ StopInv /\ VerdictInv
=============================================================================
