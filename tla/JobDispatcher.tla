--------------------------- MODULE JobDispatcher ----------------------------
(***************************************************************************)
(* The job dispatcher of api/main.py (class _JobDispatcher), the scan lock *)
(* in front of it and the process that owns both.                          *)
(*                                                                         *)
(* Everything here runs on one asyncio event loop: a handler runs alone    *)
(* from one await to the next, and each action below is such a stretch.    *)
(* What execute() does to a document is in IngestLifecycle; here a job     *)
(* only starts, runs and ends.                                             *)
(***************************************************************************)
EXTENDS Integers, Sequences, FiniteSets

CONSTANTS
    Docs,           \* doc_ids
    Copies,         \* tells apart the IngestJob objects made for one document
    MaxWorkers,     \* settings.SCAN_MAX_WORKERS
    QueueCapacity,  \* maxsize of the asyncio.Queue, _queue_capacity()
    Handlers,       \* concurrent POST /scan requests
    Loop            \* the background scanner task

ASSUME MaxWorkersAssumption == MaxWorkers \in Nat \ {0}
ASSUME CapacityAssumption == QueueCapacity \in Nat \ {0}
ASSUME DocsAssumption == IsFiniteSet(Docs) /\ IsFiniteSet(Copies)
ASSUME LoopAssumption == Loop \notin Handlers

Jobs == Docs \X Copies

DocOf(j) == j[1]

Scanners == Handlers \cup {Loop}

VARIABLES
    task,           \* where each job is: see Places
    queue,          \* self._queue
    ready,          \* _run_job tasks created by the consumer and not begun
    waiters,        \* FIFO of tasks suspended in self._semaphore.acquire()
    permits,        \* value of self._semaphore
    queuedDocs,     \* self._queued_doc_ids
    runningDocs,    \* self._running_doc_ids
    consumer,       \* self._consumer_task: suspended in queue.get, or ended
    phase,          \* of the process: see Phases
    scanLock,       \* _scan_lock is held
    scanning        \* the scanners between acquire and release of _scan_lock

dispatcherVars == <<task, queue, ready, waiters, permits, queuedDocs,
                    runningDocs, consumer>>
scanVars == <<scanLock, scanning>>
vars == <<task, queue, ready, waiters, permits, queuedDocs, runningDocs,
          consumer, phase, scanLock, scanning>>

Places == {"idle", "queued", "spawned", "waiting", "executing"}

Phases == {"serving", "draining", "stopped", "exited"}

-----------------------------------------------------------------------------
Init ==
    /\ task = [j \in Jobs |-> "idle"]
    /\ queue = <<>>
    /\ ready = <<>>
    /\ waiters = <<>>
    /\ permits = MaxWorkers
    /\ queuedDocs = {}
    /\ runningDocs = {}
    /\ consumer = "getting"
    /\ phase = "serving"
    /\ scanLock = FALSE
    /\ scanning = {}

-----------------------------------------------------------------------------
(* enqueue_jobs: one stretch of the loop, so the whole list is taken at    *)
(* once.  A job of a tracked document is skipped and changes nothing, so   *)
(* the list is given by its untracked jobs, in listing order; when the     *)
(* queue fills up the rest of the list is dropped with a warning.          *)

\* Slip: only the queued documents are looked up.
TrackedIfQueued(d) == d \in queuedDocs

Tracked(d) == d \in queuedDocs \/ d \in runningDocs

JobLists == UNION {[1..n -> Jobs] : n \in 0..Cardinality(Docs)}

\* The scan lists a key once, and makes a new IngestJob for it.
IsScanResult(list) ==
    /\ \A i \in 1..Len(list) : task[list[i]] = "idle"
    /\ \A i, k \in 1..Len(list) : DocOf(list[i]) = DocOf(list[k]) => i = k

UntrackedOnly(list) == \A i \in 1..Len(list) : ~Tracked(DocOf(list[i]))

\* Slip: off by one.
RoomPlusOne == QueueCapacity - Len(queue) + 1

Room == QueueCapacity - Len(queue)

EnqueueJobs(list) ==
    LET n == IF Len(list) < Room THEN Len(list) ELSE Room
        taken == SubSeq(list, 1, n)
        put == {taken[i] : i \in 1..n}
    IN  /\ queue' = queue \o taken
        /\ queuedDocs' = queuedDocs \cup {DocOf(j) : j \in put}
        /\ task' = [j \in Jobs |-> IF j \in put THEN "queued" ELSE task[j]]

-----------------------------------------------------------------------------
(* _scan_and_enqueue_once and POST /scan: try-acquire, the scan in a       *)
(* thread, release in a finally, then enqueue in the same stretch.         *)

\* A scanner that finds the lock held gives up: no change, so no action.
StartScan(s) ==
    /\ phase = "serving"
    /\ s \notin scanning
    /\ ~scanLock
    /\ scanLock' = TRUE
    /\ scanning' = scanning \cup {s}
    /\ UNCHANGED <<dispatcherVars, phase>>

ReleaseScanLock(s) ==
    /\ scanLock' = FALSE
    /\ scanning' = scanning \ {s}

EndScan(s) ==
    /\ s \in scanning
    /\ ReleaseScanLock(s)
    /\ \E list \in JobLists :
          /\ IsScanResult(list)
          /\ UntrackedOnly(list)
          /\ EnqueueJobs(list)
    /\ UNCHANGED <<ready, waiters, permits, runningDocs, consumer, phase>>

\* Slip: no finally clause.
FailScanHoldsLock(s) ==
    /\ s \in scanning
    /\ scanning' = scanning \ {s}
    /\ UNCHANGED <<dispatcherVars, phase, scanLock>>

\* The scan raises: the finally clause still releases, nothing is enqueued.
FailScan(s) ==
    /\ s \in scanning
    /\ ReleaseScanLock(s)
    /\ UNCHANGED <<dispatcherVars, phase>>

-----------------------------------------------------------------------------
(* _consumer_loop.  The stop event is only looked at between two gets, so  *)
(* an item that arrives as the loop is stopped may still be spawned.       *)

ConsumerAfterItem == IF phase = "stopped" THEN "ended" ELSE "getting"

ConsumerTake ==
    /\ consumer = "getting"
    /\ queue # <<>>
    /\ queue' = Tail(queue)
    /\ ready' = Append(ready, Head(queue))
    /\ task' = [task EXCEPT ![Head(queue)] = "spawned"]
    /\ consumer' = ConsumerAfterItem
    /\ UNCHANGED <<waiters, permits, queuedDocs, runningDocs, phase, scanVars>>

\* The cancellation, or the 0.2 s timeout followed by the stop-event test.
ConsumerStop ==
    /\ consumer = "getting"
    /\ phase = "stopped"
    /\ consumer' = "ended"
    /\ UNCHANGED <<task, queue, ready, waiters, permits, queuedDocs,
                   runningDocs, phase, scanVars>>

-----------------------------------------------------------------------------
(* _run_job.  Tasks begin in the order they were created (the loop's ready *)
(* queue is FIFO); the document moves from one tracking set to the other   *)
(* before the semaphore is asked for.                                      *)

\* Slip: a newcomer overtakes the waiters.
PermitFreeForNewcomer == permits > 0

PermitFree == permits > 0 /\ waiters = <<>>

BeginJob ==
    /\ ready # <<>>
    /\ LET j == Head(ready)
           free == PermitFree
       IN  /\ ready' = Tail(ready)
           /\ queuedDocs' = queuedDocs \ {DocOf(j)}
           /\ runningDocs' = runningDocs \cup {DocOf(j)}
           /\ task' = [task EXCEPT ![j] = IF free THEN "executing" ELSE "waiting"]
           /\ permits' = IF free THEN permits - 1 ELSE permits
           /\ waiters' = IF free THEN waiters ELSE Append(waiters, j)
    /\ UNCHANGED <<queue, consumer, phase, scanVars>>

\* asyncio.Semaphore wakes its waiters in FIFO order.
AcquirePermit ==
    /\ waiters # <<>>
    /\ permits > 0
    /\ waiters' = Tail(waiters)
    /\ permits' = permits - 1
    /\ task' = [task EXCEPT ![Head(waiters)] = "executing"]
    /\ UNCHANGED <<queue, ready, queuedDocs, runningDocs, consumer, phase,
                   scanVars>>

\* Slip: the document is discarded only when execute() returns.
FinishJobKeepsDoc(j) ==
    /\ task[j] = "executing"
    /\ task' = [task EXCEPT ![j] = "idle"]
    /\ runningDocs' \in {runningDocs, runningDocs \ {DocOf(j)}}
    /\ permits' = permits + 1
    /\ UNCHANGED <<queue, ready, waiters, queuedDocs, consumer, phase, scanVars>>

\* Slip: an exception skips the release of the semaphore.
FinishJobKeepsPermit(j) ==
    /\ task[j] = "executing"
    /\ task' = [task EXCEPT ![j] = "idle"]
    /\ runningDocs' = runningDocs \ {DocOf(j)}
    /\ permits' \in {permits, permits + 1}
    /\ UNCHANGED <<queue, ready, waiters, queuedDocs, consumer, phase, scanVars>>

\* execute() returns or raises: an exception is logged and swallowed, the
\* finally clause and the end of the "async with" are the same either way.
FinishJob(j) ==
    /\ task[j] = "executing"
    /\ task' = [task EXCEPT ![j] = "idle"]
    /\ runningDocs' = runningDocs \ {DocOf(j)}
    /\ permits' = permits + 1
    /\ UNCHANGED <<queue, ready, waiters, queuedDocs, consumer, phase, scanVars>>

-----------------------------------------------------------------------------
(* lifespan.  The server lets open requests end before it shuts down.      *)

\* The scanner task is cancelled: its finally clause releases the lock.
BeginShutdown ==
    /\ phase = "serving"
    /\ scanning \subseteq {Loop}
    /\ phase' = "draining"
    /\ scanLock' = FALSE
    /\ scanning' = {}
    /\ UNCHANGED dispatcherVars

\* flush_and_close is over: dispatcher.stop() sets the event and cancels.
StopDispatcher ==
    /\ phase = "draining"
    /\ phase' = "stopped"
    /\ UNCHANGED <<dispatcherVars, scanVars>>

\* The loop is torn down after the stop, or the process is killed at any
\* time: all of this state is held in memory.
ProcessExit ==
    /\ phase # "exited"
    /\ phase' = "exited"
    /\ task' = [j \in Jobs |-> "idle"]
    /\ queue' = <<>>
    /\ ready' = <<>>
    /\ waiters' = <<>>
    /\ permits' = MaxWorkers
    /\ queuedDocs' = {}
    /\ runningDocs' = {}
    /\ consumer' = "ended"
    /\ scanLock' = FALSE
    /\ scanning' = {}

\* The pod is started again.
Restart ==
    /\ phase = "exited"
    /\ phase' = "serving"
    /\ consumer' = "getting"
    /\ UNCHANGED <<task, queue, ready, waiters, permits, queuedDocs,
                   runningDocs, scanVars>>

-----------------------------------------------------------------------------
Next ==
    \/ \E s \in Scanners : StartScan(s) \/ EndScan(s) \/ FailScan(s)
    \/ ConsumerTake
    \/ ConsumerStop
    \/ BeginJob
    \/ AcquirePermit
    \/ \E j \in Jobs : FinishJob(j)
    \/ BeginShutdown
    \/ StopDispatcher
    \/ ProcessExit
    \/ Restart

\* The loop runs every ready task; execute() returns, for every stage is a
\* call that ends or raises.  No fairness for the scans, the shutdown or a
\* crash.
Fairness ==
    /\ WF_vars(ConsumerTake)
    /\ WF_vars(ConsumerStop)
    /\ WF_vars(BeginJob)
    /\ WF_vars(AcquirePermit)
    /\ \A j \in Jobs : WF_vars(FinishJob(j))

Spec == Init /\ [][Next]_vars

FairSpec == Spec /\ Fairness

-----------------------------------------------------------------------------
InPlace(places) == {j \in Jobs : task[j] \in places}

\* Type of every variable; the queue never exceeds its maxsize.
TypeOK ==
    /\ task \in [Jobs -> Places]
    /\ queue \in Seq(Jobs) /\ Len(queue) <= QueueCapacity
    /\ ready \in Seq(Jobs)
    /\ waiters \in Seq(Jobs)
    /\ permits \in 0..MaxWorkers
    /\ queuedDocs \subseteq Docs
    /\ runningDocs \subseteq Docs
    /\ consumer \in {"getting", "ended"}
    /\ phase \in Phases
    /\ scanLock \in BOOLEAN
    /\ scanning \subseteq Scanners

\* A document never has two jobs between enqueue_jobs and the end of
\* _run_job, whatever the scans return and however their tasks interleave:
\* two ingests of one document never run together in a process.
OneLiveJobPerDoc ==
    \A j, k \in Jobs :
        task[j] # "idle" /\ task[k] # "idle" /\ DocOf(j) = DocOf(k) => j = k

\* _queued_doc_ids and _running_doc_ids say exactly which documents have a
\* job before, and after, the start of _run_job: a document left in a set
\* could never be enqueued again, one missing could be enqueued twice.
TrackingExact ==
    /\ queuedDocs = {DocOf(j) : j \in InPlace({"queued", "spawned"})}
    /\ runningDocs = {DocOf(j) : j \in InPlace({"waiting", "executing"})}

\* The semaphore counts the running ingests: never more than MaxWorkers, and
\* no permit is lost when an ingest ends.
WorkerBound == permits + Cardinality(InPlace({"executing"})) = MaxWorkers

\* _scan_lock is held exactly while one scan is in progress: two scans never
\* overlap, and no exit path leaves the lock held (every later scan would be
\* refused with 409).
ScanLockExact ==
    /\ \A s, t \in scanning : s = t
    /\ scanLock <=> scanning # {}

\* An accepted job starts, unless the process is being shut down first.
AcceptedJobStarts ==
    \A j \in Jobs :
        task[j] \in {"queued", "spawned", "waiting"}
            ~> task[j] = "executing" \/ phase # "serving"

\* The dispatcher is a first-come-first-served service: the three places
\* where an accepted job waits form one line.
Service == INSTANCE JobService
    WITH pending <- waiters \o ready \o queue,
         executing <- InPlace({"executing"}),
         MaxBatch <- QueueCapacity

FirstComeFirstServed == Service!Spec
=============================================================================
