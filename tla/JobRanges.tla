----------------------------- MODULE JobRanges -----------------------------
(***************************************************************************)
(* How residual_search.c cuts the list of search prefixes into jobs, and   *)
(* the order in which the workers' tickets name them.  Pure functions: the *)
(* prefixes 0 .. count-1 are dealt to job_count contiguous ranges whose    *)
(* sizes differ by at most one.                                            *)
(***************************************************************************)
EXTENDS Integers

(* shared.job_count: never more jobs than viable prefixes. *)
JobCountOf(count, desired) == IF count < desired THEN count ELSE desired

(* worker_count: never more threads than jobs. *)
WorkerCountOf(threads, jobs) == IF threads > jobs THEN jobs ELSE threads

(* job_prefix_range: the first prefix of a job ... *)
RangeBegin(count, jobs, job) ==
    LET extra == count % jobs IN
    job * (count \div jobs) + (IF job < extra THEN job ELSE extra)

(* ... and the one after its last. *)
RangeEnd_ExtraDropped(count, jobs, job) ==
    RangeBegin(count, jobs, job) + (count \div jobs)
RangeEnd(count, jobs, job) ==
    RangeBegin(count, jobs, job) + (count \div jobs)
        + (IF job < count % jobs THEN 1 ELSE 0)
=============================================================================
