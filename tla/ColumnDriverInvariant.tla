----------------------- MODULE ColumnDriverInvariant -----------------------
(***************************************************************************)
(* The inductive invariant of ColumnDriver, in named parts: what the       *)
(* safety properties need to be told about the steps in between.           *)
(***************************************************************************)
EXTENDS ColumnDriver

Admitted   == {"record", "countOnly", "enqueue", "waiting"}
Unnumbered == {"claimLimit"} \union Admitted
Finding    == {"turnAway", "flush", "recorded"} \union Unnumbered
Searching  == {"search"} \union Finding
Working    == {"prefixDone", "countJob"} \union Searching
InJob      == {"enterPrefix"} \union Working
Gone       == {"retire", "exited"}
Creating   == {"create", "created"}
Draining   == {"swap", "append", "print"}
Judging    == {"assess", "report", "exit", "done"}

JobPrefixes(j) == {p \in Prefixes : p % JobCount = j}

Active(w) == pc[w] \notin {"absent", "exited"}
ActiveWorkers == {w \in Workers : Active(w)}

(* Workers come into being in order, until main has them all or gives up.  *)
CreationInv ==
    /\ \A w \in Workers : pc[w] = "absent" <=> w > created
    /\ mainPc \in Creating => created < WorkerCount /\ exitStatus = "success"
    /\ mainPc \notin Creating /\ created < WorkerCount =>
           exitStatus = "failure" /\ stop /\ CreateMayFail

RunningInv ==
    running = Cardinality(ActiveWorkers) + (IF mainPc = "created" THEN 1 ELSE 0)

(* The main thread knows when the workers are gone, and only then leaves   *)
(* its loop; what has been put into the buffer by then it still takes out. *)
WatchInv ==
    /\ owner <=> mainPc \in {"test", "wait"}
    /\ mainPc \in {"test", "wait"} => seen = running
    /\ mainPc \in {"wait", "sleep"} =>
           /\ running # 0
           /\ count >= Threshold => \E w \in Workers : pc[w] = "flush"
    /\ mainPc \in {"poll"} \union Draining /\ seen = 0 => ActiveWorkers = {}
    /\ mainPc = "join" \/ drainFor # "watch" => ActiveWorkers = {}
    /\ drainFor # "watch" => mainPc \in Draining \union Judging
    /\ mainPc \in Judging => drainFor # "watch"
    /\ drainFor # "watch" /\ mainPc # "swap" => count = 0
    /\ drainFor = "cleanup" => count = 0 /\ mainPc \in {"swap", "done"}
    /\ mainPc = "done" => drainFor = "cleanup"

(* A worker waits only at a full buffer; what it holds ahead of a limit it *)
(* was admitted under, what it holds without a number may be only counted. *)
Place(w) ==
    /\ pc[w] \in Searching => leaf[w] <= Len(Leaves[prefix[w]])
    /\ pc[w] \in Finding => leaf[w] >= 1
    /\ pc[w] = "waiting" => count = Capacity
    /\ pc[w] = "countOnly" => Suppressed(Found(w))
    /\ pc[w] \in {"claimLimit", "turnAway"} => Limit # 0
    /\ pc[w] = "turnAway" => limitClaims >= Limit
    /\ pc[w] \in Admitted \union {"flush", "recorded"} /\ Limit # 0 => claim[w] < limitClaims

PlaceInv == \A w \in Workers : Place(w)

(* Each class is numbered 1, 2, ...; a configuration has one number.       *)
OfKind(kind) == {r \in numbering : r.kind = kind}

NumbersInv ==
    /\ \A r, s \in numbering : r.encoding = s.encoding => r = s
    /\ \A r, s \in numbering : r.kind = s.kind /\ r.number = s.number => r = s
    /\ \A r \in numbering : r.kind = Kind(r.encoding) /\ r.number <= total[r.kind]
    /\ \A kind \in Kinds : \A n \in 1 .. total[kind] :
           \E r \in numbering : r.kind = kind /\ r.number = n
    /\ Numbered \subseteq AllLeaves
    /\ IsFiniteSet(numbering)
    /\ \A kind \in Kinds : Cardinality(OfKind(kind)) = total[kind]

(* Whoever was admitted under the limit has a number or will get one.      *)
ClaimsInv ==
    Limit # 0 =>
        Cardinality(numbering) + Cardinality(Recording) =
            IF limitClaims < Limit THEN limitClaims ELSE Limit

-----------------------------------------------------------------------------
(* What is in the buffers: entries put there and not taken out, entries    *)
(* taken out and not yet appended, and those not yet printed.              *)
Pending   == SubSeq(buffer[front], 1, count)
Unwritten == IF mainPc = "append" THEN Batch \o Pending ELSE Pending
Unprinted == SubSeq(buffer[1 - front], shown + 1, taken) \o Pending

BufferInv ==
    /\ count <= Len(buffer[front]) /\ taken <= Len(buffer[1 - front])
    /\ mainPc \notin {"append", "print"} => taken = 0 /\ shown = 0
    /\ mainPc \in {"append", "print"} => shown < taken
    /\ mainPc = "append" => shown = 0

(* The file and what will be appended to it are all there is, in order.    *)
FileLine == file \o Unwritten

FileInv ==
    /\ InOrder(file)
    /\ ToFile /\ ~fileFailed => InOrder(FileLine) /\ Items(FileLine) = numbering

(* The terminal lacks what --print-limit withholds; of the rest, what was  *)
(* printed and what will be is all there is, in order.                     *)
TerminalLine == printed \o Unprinted

TerminalInv ==
    /\ \A i \in 1 .. Len(printed) : ToPrint(printed[i])
    /\ Distinct(TerminalLine)
    /\ \A i \in 1 .. Len(TerminalLine) :
           /\ TerminalLine[i] \in numbering
           /\ ToPrint(TerminalLine[i]) =>
                  \/ TerminalLine[i].number = 1
                  \/ \E j \in 1 .. i - 1 : Follows(TerminalLine[i], TerminalLine[j])
    /\ \A r \in numbering : ToPrint(r) => \E i \in 1 .. Len(TerminalLine) : TerminalLine[i] = r

(* The symmetric ones are counted when they are taken out.                 *)
SymmetricNumbered ==
    {r \in numbering : r.kind = "PERMUTATION_FAIR" /\ r.encoding \in Symmetric}

MirroredInv ==
    ~FullMirror => mirrored = Cardinality(SymmetricNumbered \ Items(Unwritten))

-----------------------------------------------------------------------------
(* A job is drawn once; those that were given back are the ones counted,   *)
(* unless the workers were stopped.                                        *)
Drawn(j) == \E i \in Jobs : i < nextJob /\ jobOrder[i] = j
Held(j)  == \E w \in Workers : pc[w] \in InJob /\ job[w] = j
Returned == {j \in Jobs : Drawn(j) /\ ~Held(j)}

JobInv ==
    /\ jobOrder \in JobOrders
    /\ \A w \in Workers :
           /\ pc[w] \in InJob => Drawn(job[w]) /\ prefix[w] \in JobPrefixes(job[w])
           /\ pc[w] \in Gone => stop \/ nextJob >= JobCount
    /\ \A v, w \in Workers :
           pc[v] \in InJob /\ pc[w] \in InJob /\ job[v] = job[w] => v = w
    /\ jobsDone <= Cardinality(Returned)
    /\ stop \/ jobsDone = Cardinality(Returned)

(* No prefix and no leaf is reached before its turn, so none is reached    *)
(* twice.                                                                  *)
Untouched(p) ==
    searched[p] = 0 /\ \A i \in 1 .. Len(Leaves[p]) : Leaves[p][i] \notin Numbered

Ahead(w, i) == i > leaf[w] \/ (pc[w] \in Unnumbered /\ i = leaf[w])

Fresh(w) ==
    /\ pc[w] \in InJob => \A p \in JobPrefixes(job[w]) : p > prefix[w] => Untouched(p)
    /\ pc[w] = "enterPrefix" => Untouched(prefix[w])
    /\ pc[w] \in Searching =>
           /\ searched[prefix[w]] = 0
           /\ \A i \in 1 .. Len(Leaves[prefix[w]]) :
                  Ahead(w, i) => Leaves[prefix[w]][i] \notin Numbered

FreshInv ==
    /\ \A j \in Jobs : ~Drawn(j) => \A p \in JobPrefixes(j) : Untouched(p)
    /\ \A w \in Workers : Fresh(w)

(* What lies behind a worker is searched, and numbered up to the limit.    *)
Covered(e) == e \in Numbered \/ HitLimit

Progress(w) ==
    /\ pc[w] \in InJob => \A p \in JobPrefixes(job[w]) : p < prefix[w] => searched[p] = 1
    /\ pc[w] \in Searching =>
           \A i \in 1 .. leaf[w] : Ahead(w, i) \/ Covered(Leaves[prefix[w]][i])
    /\ pc[w] = "prefixDone" => stop \/ searched[prefix[w]] = 1
    /\ pc[w] = "countJob" => \A p \in JobPrefixes(job[w]) : searched[p] = 1

ProgressInv ==
    /\ \A p \in Prefixes :
           searched[p] # 0 => \A i \in 1 .. Len(Leaves[p]) : Covered(Leaves[p][i])
    /\ \A w \in Workers : Progress(w)
    /\ stop \/ \A j \in Returned : \A p \in JobPrefixes(j) : searched[p] = 1

(* Nothing stops the workers without leaving its reason behind.            *)
StopInv ==
    /\ stop => \/ interrupted \/ HitLimit \/ internalError
               \/ (mainPc \notin Creating /\ created < WorkerCount)
    /\ internalError => stop /\ (CheckMayFail \/ FileMayFail)
    /\ fileFailed => internalError

(* The verdict follows from what main reads after the join.                *)
VerdictInv ==
    /\ mainPc \notin {"exit", "done"} /\ drainFor # "cleanup" => status = "running"
    /\ mainPc # "done" /\ drainFor # "cleanup" => exitStatus # "sigint"
    /\ exitStatus = "failure" => internalError \/ created < WorkerCount
    /\ (mainPc \in {"report", "exit", "done"} \/ drainFor = "cleanup") /\ internalError =>
           exitStatus = "failure"
    /\ status = "complete" => ~stop /\ ~HitLimit /\ (mainPc = "exit" \/ drainFor = "cleanup")
    /\ status = "failed" => exitStatus = "failure"
    /\ status = "solutionLimit" => HitLimit

IInv ==
    /\ BufferInvariant /\ CreationInv /\ RunningInv /\ WatchInv /\ PlaceInv /\ NumbersInv
    /\ ClaimsInv /\ BufferInv /\ FileInv /\ TerminalInv /\ MirroredInv
    /\ JobInv /\ FreshInv /\ ProgressInv /\ StopInv /\ VerdictInv
=============================================================================
