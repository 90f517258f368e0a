----------------------------- MODULE JobService -----------------------------
(***************************************************************************)
(* What api/main.py promises of its job dispatcher, with none of its       *)
(* machinery (no queue, no consumer task, no semaphore, no tracking sets): *)
(* a first-come-first-served service with MaxWorkers servers that never    *)
(* holds two jobs of one document.  JobDispatcher implements it.           *)
(***************************************************************************)
EXTENDS Integers, Sequences, FiniteSets

CONSTANTS
    Jobs,           \* every IngestJob object a scan may hand over
    DocOf(_),       \* the doc_id of a job
    MaxWorkers,     \* settings.SCAN_MAX_WORKERS
    MaxBatch        \* jobs accepted at once: no more than the queue holds

VARIABLES
    pending,        \* accepted jobs that have not started, oldest first
    executing       \* jobs whose ingest is under way

svcVars == <<pending, executing>>

Waiting == {pending[i] : i \in 1..Len(pending)}

ServedDocs == {DocOf(j) : j \in Waiting \cup executing}

\* The documents of a batch are pairwise distinct: a listing names a key once.
DistinctDocs(batch) ==
    \A i, k \in 1..Len(batch) : DocOf(batch[i]) = DocOf(batch[k]) => i = k

Batches == UNION {[1..n -> Jobs] : n \in 0..MaxBatch}

Init == pending = <<>> /\ executing = {}

\* A batch of jobs of documents that are not being served joins the line.
Accept ==
    \E batch \in Batches :
        /\ DistinctDocs(batch)
        /\ \A i \in 1..Len(batch) : DocOf(batch[i]) \notin ServedDocs
        /\ pending' = pending \o batch
        /\ UNCHANGED executing

\* The oldest pending job starts, if a server is free.
Start ==
    /\ pending # <<>>
    /\ Cardinality(executing) < MaxWorkers
    /\ executing' = executing \cup {Head(pending)}
    /\ pending' = Tail(pending)

Finish ==
    \E j \in executing :
        /\ executing' = executing \ {j}
        /\ UNCHANGED pending

\* The process ends; the line and the running jobs are held in memory only.
Exit == pending' = <<>> /\ executing' = {}

Next == Accept \/ Start \/ Finish \/ Exit

Spec == Init /\ [][Next]_svcVars
=============================================================================
