------------------------ MODULE JobDispatcher_proofs ------------------------
(***************************************************************************)
(* Proofs about JobDispatcher, for every number of documents, of jobs per  *)
(* document, of workers, of queue places and of concurrent scans.          *)
(*                                                                         *)
(* The invariant is inductive only with what the three lines of jobs say:  *)
(* a job stands in the line of its place, and stands there once.           *)
(***************************************************************************)
EXTENDS JobDispatcher, TLAPS, FiniteSetTheorems, SequenceTheorems

\* No job stands twice in a line.
Distinct(line) ==
    \A i, k \in 1..Len(line) : line[i] = line[k] => i = k

AllAt(line, place) == \A i \in 1..Len(line) : task[line[i]] = place

LinesMatchTasks ==
    /\ Distinct(queue) /\ AllAt(queue, "queued")
    /\ Distinct(ready) /\ AllAt(ready, "spawned")
    /\ Distinct(waiters) /\ AllAt(waiters, "waiting")

IInv ==
    /\ TypeOK
    /\ LinesMatchTasks
    /\ OneLiveJobPerDoc
    /\ TrackingExact
    /\ WorkerBound
    /\ ScanLockExact

-----------------------------------------------------------------------------
\* The document of a job is one of Docs.
LEMMA DocOfType == \A j \in Jobs : DocOf(j) \in Docs
BY DEF Jobs, DocOf

\* There are finitely many jobs: the semaphore counts a finite set.
LEMMA JobsFinite == IsFiniteSet(Jobs)
BY DocsAssumption, FS_Product DEF Jobs

\* What the head and the tail of a line of distinct jobs are: Tail(queue)
\* after a get, Tail(ready) and Tail(waiters) after a task has begun.
LEMMA LeaveLine ==
    ASSUME NEW line \in Seq(Jobs), line # <<>>, Distinct(line)
    PROVE  /\ Len(line) \in Nat \ {0}
           /\ Head(line) \in Jobs /\ Head(line) = line[1]
           /\ Tail(line) \in Seq(Jobs)
           /\ Len(Tail(line)) = Len(line) - 1
           /\ Distinct(Tail(line))
           /\ \A i \in 1..Len(Tail(line)) :
                 /\ Tail(line)[i] \in Jobs
                 /\ Tail(line)[i] # Head(line)
                 /\ \E k \in 1..Len(line) : Tail(line)[i] = line[k]
<1>1. Len(line) \in Nat \ {0} /\ Head(line) = line[1]
  BY EmptySeq
<1>2. /\ Head(line) \in Jobs /\ Tail(line) \in Seq(Jobs)
      /\ Len(Tail(line)) = Len(line) - 1
      /\ \A i \in 1..Len(Tail(line)) : Tail(line)[i] = line[i + 1]
  BY HeadTailProperties
<1>3. \A i \in 1..Len(Tail(line)) : Tail(line)[i] \in Jobs
  BY <1>2, ElementOfSeq
<1>4. \A i \in 1..Len(Tail(line)) : i + 1 \in 1..Len(line) /\ i + 1 # 1
  BY <1>1, <1>2
<1>5. \A i \in 1..Len(Tail(line)) : Tail(line)[i] # Head(line)
  BY <1>1, <1>2, <1>4 DEF Distinct
<1>6. Distinct(Tail(line))
  BY <1>1, <1>2, <1>4 DEF Distinct
<1> QED
  BY <1>1, <1>2, <1>3, <1>4, <1>5, <1>6

\* A line stays one of distinct jobs when a job that is not in it joins it.
LEMMA JoinLine ==
    ASSUME NEW line \in Seq(Jobs), NEW j \in Jobs, Distinct(line),
           \A i \in 1..Len(line) : line[i] # j
    PROVE  /\ Append(line, j) \in Seq(Jobs)
           /\ Distinct(Append(line, j))
           /\ \A i \in 1..Len(Append(line, j)) :
                 \/ Append(line, j)[i] = j
                 \/ \E k \in 1..Len(line) : Append(line, j)[i] = line[k]
<1>1. /\ Append(line, j) \in Seq(Jobs)
      /\ Len(line) \in Nat
      /\ Len(Append(line, j)) = Len(line) + 1
      /\ \A i \in 1..Len(line) : Append(line, j)[i] = line[i]
      /\ Append(line, j)[Len(line) + 1] = j
  BY AppendProperties, LenProperties
<1>2. \A i \in 1..Len(Append(line, j)) : i \in 1..Len(line) \/ i = Len(line) + 1
  BY <1>1
<1>3. Distinct(Append(line, j))
  BY <1>1, <1>2 DEF Distinct
<1> QED
  BY <1>1, <1>2, <1>3

-----------------------------------------------------------------------------
\* The invariant holds at the start.
LEMMA InitIInv == Init => IInv
<1> SUFFICES ASSUME Init PROVE IInv
  OBVIOUS
<1>1. TypeOK
  <2>1. <<>> \in Seq(Jobs) /\ Len(<<>>) = 0 /\ 0 <= QueueCapacity
    BY CapacityAssumption
  <2>2. MaxWorkers \in 0..MaxWorkers
    BY MaxWorkersAssumption
  <2> QED
    BY <2>1, <2>2 DEF Init, TypeOK, Places, Phases
<1>2. LinesMatchTasks
  BY DEF Init, LinesMatchTasks, Distinct, AllAt
<1>3. OneLiveJobPerDoc
  BY DEF Init, OneLiveJobPerDoc
<1>4. TrackingExact
  BY DEF Init, TrackingExact, InPlace
<1>5. WorkerBound
  <2>1. InPlace({"executing"}) = {}
    BY DEF Init, InPlace
  <2> QED
    BY <2>1, FS_EmptySet, MaxWorkersAssumption DEF Init, WorkerBound
<1>6. ScanLockExact
  BY DEF Init, ScanLockExact
<1> QED
  BY <1>1, <1>2, <1>3, <1>4, <1>5, <1>6 DEF IInv

\* A step that leaves the dispatcher alone only has to respect the scan lock.
LEMMA ScanStep ==
    ASSUME IInv, UNCHANGED dispatcherVars, phase' \in Phases,
           scanLock' \in BOOLEAN, scanning' \subseteq Scanners, ScanLockExact'
    PROVE  IInv'
<1>1. TypeOK'
  BY DEF IInv, TypeOK, dispatcherVars
<1>2. LinesMatchTasks'
  BY DEF IInv, LinesMatchTasks, Distinct, AllAt, dispatcherVars
<1>3. OneLiveJobPerDoc' /\ TrackingExact' /\ WorkerBound'
  BY DEF IInv, OneLiveJobPerDoc, TrackingExact, WorkerBound, InPlace,
         dispatcherVars
<1> QED
  BY <1>1, <1>2, <1>3 DEF IInv

\* _scan_lock is taken only when it is free, so there is no other scan.
LEMMA StartScanIInv ==
    ASSUME IInv, NEW s \in Scanners, StartScan(s)
    PROVE  IInv'
<1>1. ScanLockExact' /\ scanning' \subseteq Scanners /\ scanLock' \in BOOLEAN
  BY DEF IInv, TypeOK, ScanLockExact, StartScan
<1> QED
  BY <1>1, ScanStep DEF IInv, TypeOK, StartScan

\* The finally clause gives the lock back.
LEMMA FailScanIInv ==
    ASSUME IInv, NEW s \in Scanners, FailScan(s)
    PROVE  IInv'
<1>1. ScanLockExact' /\ scanning' \subseteq Scanners /\ scanLock' \in BOOLEAN
  BY DEF IInv, TypeOK, ScanLockExact, FailScan, ReleaseScanLock
<1> QED
  BY <1>1, ScanStep DEF IInv, TypeOK, FailScan

\* Only the background scanner can be inside a scan, and its finally clause
\* runs too.
LEMMA BeginShutdownIInv ==
    ASSUME IInv, BeginShutdown
    PROVE  IInv'
<1>1. ScanLockExact' /\ scanning' \subseteq Scanners /\ scanLock' \in BOOLEAN
  BY DEF ScanLockExact, BeginShutdown
<1> QED
  BY <1>1, ScanStep DEF BeginShutdown, Phases

\* dispatcher.stop() does not touch the jobs.
LEMMA StopDispatcherIInv ==
    ASSUME IInv, StopDispatcher
    PROVE  IInv'
<1>1. ScanLockExact'
  BY DEF IInv, ScanLockExact, StopDispatcher, scanVars
<1> QED
  BY <1>1, ScanStep DEF IInv, TypeOK, StopDispatcher, scanVars, Phases

\* The consumer ends; every other variable is unchanged.
LEMMA ConsumerStopIInv ==
    ASSUME IInv, ConsumerStop
    PROVE  IInv'
<1>1. TypeOK'
  BY DEF IInv, TypeOK, ConsumerStop, scanVars
<1>2. LinesMatchTasks'
  BY DEF IInv, LinesMatchTasks, Distinct, AllAt, ConsumerStop
<1>3. OneLiveJobPerDoc' /\ TrackingExact' /\ WorkerBound' /\ ScanLockExact'
  BY DEF IInv, OneLiveJobPerDoc, TrackingExact, WorkerBound, ScanLockExact,
         InPlace, ConsumerStop, scanVars
<1> QED
  BY <1>1, <1>2, <1>3 DEF IInv

\* The pod starts again with everything that ProcessExit left empty.
LEMMA RestartIInv ==
    ASSUME IInv, Restart
    PROVE  IInv'
<1>1. TypeOK'
  BY DEF IInv, TypeOK, Restart, scanVars, Phases
<1>2. LinesMatchTasks'
  BY DEF IInv, LinesMatchTasks, Distinct, AllAt, Restart
<1>3. OneLiveJobPerDoc' /\ TrackingExact' /\ WorkerBound' /\ ScanLockExact'
  BY DEF IInv, OneLiveJobPerDoc, TrackingExact, WorkerBound, ScanLockExact,
         InPlace, Restart, scanVars
<1> QED
  BY <1>1, <1>2, <1>3 DEF IInv

\* Everything is held in memory: the process leaves nothing behind.
LEMMA ProcessExitIInv ==
    ASSUME ProcessExit
    PROVE  IInv'
<1>1. TypeOK'
  <2>1. <<>> \in Seq(Jobs) /\ Len(<<>>) = 0 /\ 0 <= QueueCapacity
    BY CapacityAssumption
  <2>2. MaxWorkers \in 0..MaxWorkers
    BY MaxWorkersAssumption
  <2> QED
    BY <2>1, <2>2 DEF ProcessExit, TypeOK, Places, Phases
<1>2. LinesMatchTasks'
  BY DEF ProcessExit, LinesMatchTasks, Distinct, AllAt
<1>3. OneLiveJobPerDoc' /\ TrackingExact' /\ ScanLockExact'
  BY DEF ProcessExit, OneLiveJobPerDoc, TrackingExact, InPlace, ScanLockExact
<1>4. WorkerBound'
  <2>1. InPlace({"executing"})' = {}
    BY DEF ProcessExit, InPlace
  <2> QED
    BY <2>1, FS_EmptySet, MaxWorkersAssumption DEF ProcessExit, WorkerBound
<1> QED
  BY <1>1, <1>2, <1>3, <1>4 DEF IInv

-----------------------------------------------------------------------------
\* A line whose jobs do not move stays the line of its place.
LEMMA OthersStay ==
    ASSUME NEW line \in Seq(Jobs), NEW place, NEW j \in Jobs, NEW to,
           task \in [Jobs -> Places], AllAt(line, place), task[j] # place,
           task' = [task EXCEPT ![j] = to]
    PROVE  \A i \in 1..Len(line) : task'[line[i]] = place
BY ElementOfSeq DEF AllAt

\* The job that leaves the queue becomes the last of the unstarted tasks; its
\* document stays in _queued_doc_ids.
LEMMA ConsumerTakeIInv ==
    ASSUME IInv, ConsumerTake
    PROVE  IInv'
<1> DEFINE j == Head(queue)
<1>1. /\ task \in [Jobs -> Places] /\ queue \in Seq(Jobs)
      /\ ready \in Seq(Jobs) /\ waiters \in Seq(Jobs) /\ queue # <<>>
      /\ Distinct(queue) /\ Distinct(ready) /\ Distinct(waiters)
      /\ AllAt(queue, "queued") /\ AllAt(ready, "spawned")
      /\ AllAt(waiters, "waiting")
  BY DEF IInv, TypeOK, LinesMatchTasks, ConsumerTake
<1>2. j \in Jobs /\ task[j] = "queued"
  BY <1>1, LeaveLine DEF AllAt
<1>3. task' = [task EXCEPT ![j] = "spawned"] /\ task' \in [Jobs -> Places]
  BY <1>1, <1>2 DEF ConsumerTake, Places
<1>4. \A i \in 1..Len(ready) : ready[i] # j
  BY <1>1, <1>2 DEF AllAt
<1>5. TypeOK'
  <2>1. queue' \in Seq(Jobs) /\ Len(queue') <= QueueCapacity
    BY <1>1, LeaveLine, CapacityAssumption DEF IInv, TypeOK, ConsumerTake
  <2>2. ready' \in Seq(Jobs)
    BY <1>1, <1>2, <1>4, JoinLine DEF ConsumerTake
  <2> QED
    BY <1>3, <2>1, <2>2
    DEF IInv, TypeOK, ConsumerTake, ConsumerAfterItem, scanVars
<1>6. LinesMatchTasks'
  <2>1. Distinct(queue)' /\ AllAt(queue, "queued")'
    BY <1>1, <1>2, <1>3, LeaveLine, ElementOfSeq
    DEF ConsumerTake, Distinct, AllAt
  <2>2. Distinct(ready)' /\ AllAt(ready, "spawned")'
    BY <1>1, <1>2, <1>3, <1>4, JoinLine, ElementOfSeq
    DEF ConsumerTake, Distinct, AllAt
  <2>3. Distinct(waiters)' /\ AllAt(waiters, "waiting")'
    BY <1>1, <1>2, <1>3, OthersStay DEF ConsumerTake, Distinct, AllAt
  <2> QED
    BY <2>1, <2>2, <2>3 DEF LinesMatchTasks
<1>7. OneLiveJobPerDoc'
  BY <1>1, <1>2, <1>3 DEF IInv, OneLiveJobPerDoc
<1>8. TrackingExact'
  <2>1. /\ InPlace({"queued", "spawned"})' = InPlace({"queued", "spawned"})
        /\ InPlace({"waiting", "executing"})' = InPlace({"waiting", "executing"})
    BY <1>1, <1>2, <1>3 DEF InPlace
  <2> QED
    BY <2>1 DEF IInv, TrackingExact, ConsumerTake
<1>9. WorkerBound'
  <2>1. InPlace({"executing"})' = InPlace({"executing"})
    BY <1>1, <1>2, <1>3 DEF InPlace
  <2> QED
    BY <2>1 DEF IInv, WorkerBound, ConsumerTake
<1>10. ScanLockExact'
  BY DEF IInv, ScanLockExact, ConsumerTake, scanVars
<1> QED
  BY <1>5, <1>6, <1>7, <1>8, <1>9, <1>10 DEF IInv

\* A permit that is taken or given back counts the running jobs.
LEMMA Executing ==
    ASSUME IInv
    PROVE  /\ IsFiniteSet(InPlace({"executing"}))
           /\ permits \in Nat
           /\ Cardinality(InPlace({"executing"})) \in Nat
           /\ permits + Cardinality(InPlace({"executing"})) = MaxWorkers
<1>1. InPlace({"executing"}) \in SUBSET Jobs
  BY DEF InPlace
<1> QED
  BY <1>1, JobsFinite, FS_Subset, FS_CardinalityType
  DEF IInv, WorkerBound, TypeOK

\* The task that begins moves its document from one tracking set to the
\* other, and takes a permit or joins the waiters.
LEMMA BeginJobIInv ==
    ASSUME IInv, BeginJob
    PROVE  IInv'
<1> DEFINE j == Head(ready)
           place == IF PermitFree THEN "executing" ELSE "waiting"
<1>1. /\ task \in [Jobs -> Places] /\ queue \in Seq(Jobs)
      /\ ready \in Seq(Jobs) /\ waiters \in Seq(Jobs) /\ ready # <<>>
      /\ Distinct(queue) /\ Distinct(ready) /\ Distinct(waiters)
      /\ AllAt(queue, "queued") /\ AllAt(ready, "spawned")
      /\ AllAt(waiters, "waiting")
  BY DEF IInv, TypeOK, LinesMatchTasks, BeginJob
<1>2. j \in Jobs /\ task[j] = "spawned"
  BY <1>1, LeaveLine DEF AllAt
<1>3. /\ task' = [task EXCEPT ![j] = place] /\ task' \in [Jobs -> Places]
      /\ place \in {"executing", "waiting"}
  BY <1>1, <1>2 DEF BeginJob, Places
<1>4. \A i \in 1..Len(waiters) : waiters[i] # j
  BY <1>1, <1>2 DEF AllAt
<1>5. LinesMatchTasks'
  <2>1. Distinct(queue)' /\ AllAt(queue, "queued")'
    BY <1>1, <1>2, <1>3, OthersStay DEF BeginJob, Distinct, AllAt
  <2>2. Distinct(ready)' /\ AllAt(ready, "spawned")'
    BY <1>1, <1>2, <1>3, LeaveLine, ElementOfSeq
    DEF BeginJob, Distinct, AllAt
  <2>3. Distinct(waiters)' /\ AllAt(waiters, "waiting")'
    <3>1. CASE PermitFree
      BY <1>1, <1>2, <1>3, <3>1, OthersStay DEF BeginJob, Distinct, AllAt
    <3>2. CASE ~PermitFree
      BY <1>1, <1>2, <1>3, <1>4, <3>2, JoinLine, ElementOfSeq
      DEF BeginJob, Distinct, AllAt
    <3> QED
      BY <3>1, <3>2
  <2> QED
    BY <2>1, <2>2, <2>3 DEF LinesMatchTasks
<1>6. TypeOK' /\ WorkerBound'
  <2>1. ready' \in Seq(Jobs) /\ waiters' \in Seq(Jobs)
    BY <1>1, <1>2, <1>4, LeaveLine, JoinLine DEF BeginJob
  <2>2. queuedDocs' \subseteq Docs /\ runningDocs' \subseteq Docs
    BY <1>2, DocOfType DEF IInv, TypeOK, BeginJob
  <2>3. permits' \in 0..MaxWorkers /\ WorkerBound'
    <3>1. CASE PermitFree
      <4>1. InPlace({"executing"})' = InPlace({"executing"}) \cup {j}
        BY <1>1, <1>2, <1>3, <3>1 DEF InPlace
      <4>2. j \notin InPlace({"executing"})
        BY <1>2 DEF InPlace
      <4>3. Cardinality(InPlace({"executing"}))' =
              Cardinality(InPlace({"executing"})) + 1
        BY <4>1, <4>2, Executing, FS_AddElement
      <4>4. permits' = permits - 1 /\ permits > 0
        BY <3>1 DEF BeginJob, PermitFree
      <4> QED
        BY <4>3, <4>4, Executing DEF WorkerBound
    <3>2. CASE ~PermitFree
      <4>1. InPlace({"executing"})' = InPlace({"executing"})
        BY <1>1, <1>2, <1>3, <3>2 DEF InPlace
      <4> QED
        BY <3>2, <4>1 DEF IInv, TypeOK, WorkerBound, BeginJob
    <3> QED
      BY <3>1, <3>2
  <2> QED
    BY <1>3, <2>1, <2>2, <2>3 DEF IInv, TypeOK, BeginJob, scanVars
<1>7. OneLiveJobPerDoc'
  BY <1>1, <1>2, <1>3 DEF IInv, OneLiveJobPerDoc
<1>8. TrackingExact'
  <2>1. InPlace({"queued", "spawned"})' = InPlace({"queued", "spawned"}) \ {j}
    BY <1>1, <1>2, <1>3 DEF InPlace
  <2>2. InPlace({"waiting", "executing"})' =
          InPlace({"waiting", "executing"}) \cup {j}
    BY <1>1, <1>2, <1>3 DEF InPlace
  <2>3. \A k \in InPlace({"queued", "spawned"}) : DocOf(k) = DocOf(j) => k = j
    BY <1>1, <1>2 DEF IInv, OneLiveJobPerDoc, InPlace
  <2>4. j \in InPlace({"queued", "spawned"})
    BY <1>2 DEF InPlace
  <2> QED
    BY <2>1, <2>2, <2>3, <2>4 DEF IInv, TrackingExact, BeginJob
<1>9. ScanLockExact'
  BY DEF IInv, ScanLockExact, BeginJob, scanVars
<1> QED
  BY <1>5, <1>6, <1>7, <1>8, <1>9 DEF IInv

\* The first of the waiters runs: its document is in _running_doc_ids before
\* and after.
LEMMA AcquirePermitIInv ==
    ASSUME IInv, AcquirePermit
    PROVE  IInv'
<1> DEFINE j == Head(waiters)
<1>1. /\ task \in [Jobs -> Places] /\ queue \in Seq(Jobs)
      /\ ready \in Seq(Jobs) /\ waiters \in Seq(Jobs) /\ waiters # <<>>
      /\ Distinct(queue) /\ Distinct(ready) /\ Distinct(waiters)
      /\ AllAt(queue, "queued") /\ AllAt(ready, "spawned")
      /\ AllAt(waiters, "waiting")
  BY DEF IInv, TypeOK, LinesMatchTasks, AcquirePermit
<1>2. j \in Jobs /\ task[j] = "waiting"
  BY <1>1, LeaveLine DEF AllAt
<1>3. task' = [task EXCEPT ![j] = "executing"] /\ task' \in [Jobs -> Places]
  BY <1>1, <1>2 DEF AcquirePermit, Places
<1>4. LinesMatchTasks'
  <2>1. Distinct(queue)' /\ AllAt(queue, "queued")'
    BY <1>1, <1>2, <1>3, OthersStay DEF AcquirePermit, Distinct, AllAt
  <2>2. Distinct(ready)' /\ AllAt(ready, "spawned")'
    BY <1>1, <1>2, <1>3, OthersStay DEF AcquirePermit, Distinct, AllAt
  <2>3. Distinct(waiters)' /\ AllAt(waiters, "waiting")'
    BY <1>1, <1>2, <1>3, LeaveLine, ElementOfSeq
    DEF AcquirePermit, Distinct, AllAt
  <2> QED
    BY <2>1, <2>2, <2>3 DEF LinesMatchTasks
<1>5. TypeOK' /\ WorkerBound'
  <2>1. InPlace({"executing"})' = InPlace({"executing"}) \cup {j}
    BY <1>1, <1>2, <1>3 DEF InPlace
  <2>2. j \notin InPlace({"executing"})
    BY <1>2 DEF InPlace
  <2>3. Cardinality(InPlace({"executing"}))' =
          Cardinality(InPlace({"executing"})) + 1
    BY <2>1, <2>2, Executing, FS_AddElement
  <2>4. permits' = permits - 1 /\ permits > 0
    BY DEF AcquirePermit
  <2>5. permits' \in 0..MaxWorkers /\ WorkerBound'
    BY <2>3, <2>4, Executing DEF WorkerBound
  <2> QED
    BY <1>1, <1>3, <2>5, LeaveLine DEF IInv, TypeOK, AcquirePermit, scanVars
<1>6. OneLiveJobPerDoc'
  BY <1>1, <1>2, <1>3 DEF IInv, OneLiveJobPerDoc
<1>7. TrackingExact'
  <2>1. /\ InPlace({"queued", "spawned"})' = InPlace({"queued", "spawned"})
        /\ InPlace({"waiting", "executing"})' = InPlace({"waiting", "executing"})
    BY <1>1, <1>2, <1>3 DEF InPlace
  <2> QED
    BY <2>1 DEF IInv, TrackingExact, AcquirePermit
<1>8. ScanLockExact'
  BY DEF IInv, ScanLockExact, AcquirePermit, scanVars
<1> QED
  BY <1>4, <1>5, <1>6, <1>7, <1>8 DEF IInv

\* An ingest that ends, well or not, gives its permit back and forgets its
\* document; that no other job of the document lives makes the set exact.
LEMMA FinishJobIInv ==
    ASSUME IInv, NEW j \in Jobs, FinishJob(j)
    PROVE  IInv'
<1>1. /\ task \in [Jobs -> Places] /\ queue \in Seq(Jobs)
      /\ ready \in Seq(Jobs) /\ waiters \in Seq(Jobs)
      /\ Distinct(queue) /\ Distinct(ready) /\ Distinct(waiters)
      /\ AllAt(queue, "queued") /\ AllAt(ready, "spawned")
      /\ AllAt(waiters, "waiting")
  BY DEF IInv, TypeOK, LinesMatchTasks
<1>2. /\ task[j] = "executing"
      /\ task' = [task EXCEPT ![j] = "idle"] /\ task' \in [Jobs -> Places]
  BY <1>1 DEF FinishJob, Places
<1>3. LinesMatchTasks'
  BY <1>1, <1>2, OthersStay DEF FinishJob, LinesMatchTasks, Distinct, AllAt
<1>4. TypeOK' /\ WorkerBound'
  <2>1. InPlace({"executing"})' = InPlace({"executing"}) \ {j}
    BY <1>1, <1>2 DEF InPlace
  <2>2. j \in InPlace({"executing"})
    BY <1>2 DEF InPlace
  <2>3. Cardinality(InPlace({"executing"}))' =
          Cardinality(InPlace({"executing"})) - 1
    BY <2>1, <2>2, Executing, FS_RemoveElement
  <2>4. Cardinality(InPlace({"executing"}))' \in Nat
    BY <2>1, Executing, FS_RemoveElement, FS_CardinalityType
  <2>5. permits' \in 0..MaxWorkers /\ WorkerBound'
    BY <2>3, <2>4, Executing, MaxWorkersAssumption DEF FinishJob, WorkerBound
  <2> QED
    BY <1>2, <2>5 DEF IInv, TypeOK, FinishJob, scanVars
<1>5. OneLiveJobPerDoc'
  BY <1>1, <1>2 DEF IInv, OneLiveJobPerDoc
<1>6. TrackingExact'
  <2>1. InPlace({"queued", "spawned"})' = InPlace({"queued", "spawned"})
    BY <1>1, <1>2 DEF InPlace
  <2>2. InPlace({"waiting", "executing"})' =
          InPlace({"waiting", "executing"}) \ {j}
    BY <1>1, <1>2 DEF InPlace
  <2>3. \A k \in InPlace({"waiting", "executing"}) : DocOf(k) = DocOf(j) => k = j
    BY <1>1, <1>2 DEF IInv, OneLiveJobPerDoc, InPlace
  <2>4. j \in InPlace({"waiting", "executing"})
    BY <1>2 DEF InPlace
  <2> QED
    BY <2>1, <2>2, <2>3, <2>4 DEF IInv, TrackingExact, FinishJob
<1>7. ScanLockExact'
  BY DEF IInv, ScanLockExact, FinishJob, scanVars
<1> QED
  BY <1>3, <1>4, <1>5, <1>6, <1>7 DEF IInv

-----------------------------------------------------------------------------
\* What enqueue_jobs takes of a list: a prefix, no longer than the room that
\* is left, of idle jobs of distinct untracked documents.
LEMMA TakenJobs ==
    ASSUME IInv, NEW list \in JobLists, IsScanResult(list),
           UntrackedOnly(list), EnqueueJobs(list)
    PROVE  \E taken \in Seq(Jobs) :
              LET put == {taken[i] : i \in 1..Len(taken)}
              IN  /\ Len(queue) + Len(taken) <= QueueCapacity
                  /\ \A i \in 1..Len(taken) :
                        task[taken[i]] = "idle" /\ ~Tracked(DocOf(taken[i]))
                  /\ \A i, k \in 1..Len(taken) :
                        DocOf(taken[i]) = DocOf(taken[k]) => i = k
                  /\ queue' = queue \o taken
                  /\ queuedDocs' = queuedDocs \cup {DocOf(j) : j \in put}
                  /\ task' = [j \in Jobs |->
                                 IF j \in put THEN "queued" ELSE task[j]]
<1> DEFINE n == IF Len(list) < Room THEN Len(list) ELSE Room
           taken == SubSeq(list, 1, n)
<1>1. list \in Seq(Jobs) /\ Len(list) \in Nat
  BY FS_CardinalityType, DocsAssumption DEF JobLists
<1>2. Len(queue) \in Nat /\ Len(queue) <= QueueCapacity /\ QueueCapacity \in Nat
  BY CapacityAssumption DEF IInv, TypeOK
<1>3. n \in Nat /\ n <= Len(list) /\ Len(queue) + n <= QueueCapacity
  BY <1>1, <1>2 DEF Room
<1> HIDE DEF n
<1>4. \A i \in 1..n : i \in 1..Len(list) /\ list[i] \in Jobs
  BY <1>1, <1>3, ElementOfSeq
<1>5. /\ taken \in Seq(Jobs) /\ Len(taken) = n
      /\ \A i \in 1..n : taken[i] = list[i]
  BY <1>1, <1>3, <1>4, SubSeqProperties
<1>6. \A i \in 1..n : task[taken[i]] = "idle" /\ ~Tracked(DocOf(taken[i]))
  BY <1>4, <1>5 DEF IsScanResult, UntrackedOnly
<1>7. \A i, k \in 1..n : DocOf(taken[i]) = DocOf(taken[k]) => i = k
  BY <1>4, <1>5 DEF IsScanResult
<1>8. LET put == {taken[i] : i \in 1..n}
      IN  /\ queue' = queue \o taken
          /\ queuedDocs' = queuedDocs \cup {DocOf(j) : j \in put}
          /\ task' = [j \in Jobs |-> IF j \in put THEN "queued" ELSE task[j]]
  BY DEF EnqueueJobs, n
<1> QED
  BY <1>3, <1>5, <1>6, <1>7, <1>8

\* A batch of idle jobs of distinct untracked documents joins the queue.  By
\* TrackingExact no document of the batch has a live job; this is where a
\* second job of a document is kept out.
LEMMA EndScanIInv ==
    ASSUME IInv, NEW s \in Scanners, EndScan(s)
    PROVE  IInv'
<1>1. PICK list \in JobLists :
          IsScanResult(list) /\ UntrackedOnly(list) /\ EnqueueJobs(list)
  BY DEF EndScan
<1>2. PICK taken \in Seq(Jobs) :
          LET put == {taken[i] : i \in 1..Len(taken)}
          IN  /\ Len(queue) + Len(taken) <= QueueCapacity
              /\ \A i \in 1..Len(taken) :
                    task[taken[i]] = "idle" /\ ~Tracked(DocOf(taken[i]))
              /\ \A i, k \in 1..Len(taken) :
                    DocOf(taken[i]) = DocOf(taken[k]) => i = k
              /\ queue' = queue \o taken
              /\ queuedDocs' = queuedDocs \cup {DocOf(j) : j \in put}
              /\ task' = [j \in Jobs |->
                             IF j \in put THEN "queued" ELSE task[j]]
  BY <1>1, TakenJobs
<1> DEFINE put == {taken[i] : i \in 1..Len(taken)}
<1>3. /\ task \in [Jobs -> Places] /\ queue \in Seq(Jobs)
      /\ ready \in Seq(Jobs) /\ waiters \in Seq(Jobs)
      /\ Distinct(queue) /\ Distinct(ready) /\ Distinct(waiters)
      /\ AllAt(queue, "queued") /\ AllAt(ready, "spawned")
      /\ AllAt(waiters, "waiting")
  BY DEF IInv, TypeOK, LinesMatchTasks
<1>4. \A j \in put : j \in Jobs /\ task[j] = "idle" /\ ~Tracked(DocOf(j))
  BY <1>2, ElementOfSeq
<1>5. \A j, k \in put : DocOf(j) = DocOf(k) => j = k
  BY <1>2
<1>6. task' \in [Jobs -> Places]
  BY <1>2, <1>3 DEF Places
<1>7. \A j \in Jobs : task'[j] = IF j \in put THEN "queued" ELSE task[j]
  BY <1>2
<1>8. UNCHANGED <<ready, waiters, permits, runningDocs, consumer, phase>>
  BY DEF EndScan
<1> HIDE DEF put
<1>9. \A j \in put, k \in Jobs : task[k] # "idle" => DocOf(j) # DocOf(k)
  <2> SUFFICES ASSUME NEW j \in put, NEW k \in Jobs, task[k] # "idle",
                      DocOf(j) = DocOf(k)
               PROVE  FALSE
    OBVIOUS
  <2>1. task[k] \in {"queued", "spawned", "waiting", "executing"}
    BY <1>3 DEF Places
  <2>2. Tracked(DocOf(k))
    BY <2>1 DEF IInv, TrackingExact, InPlace, Tracked
  <2> QED
    BY <1>4, <2>2
<1>10. TypeOK'
  <2>1. queue' \in Seq(Jobs) /\ Len(queue') <= QueueCapacity
    BY <1>2, <1>3, ConcatProperties
  <2>2. queuedDocs' \subseteq Docs
    BY <1>2, <1>4, DocOfType DEF IInv, TypeOK, put
  <2>3. scanLock' \in BOOLEAN /\ scanning' \subseteq Scanners
    BY DEF IInv, TypeOK, EndScan, ReleaseScanLock
  <2> QED
    BY <1>6, <1>8, <2>1, <2>2, <2>3 DEF IInv, TypeOK
<1>11. LinesMatchTasks'
  <2>1. /\ Len(queue) \in Nat /\ Len(taken) \in Nat
        /\ Len(queue') = Len(queue) + Len(taken)
        /\ \A i \in 1..Len(queue') :
              queue'[i] = IF i <= Len(queue) THEN queue[i]
                                             ELSE taken[i - Len(queue)]
    BY <1>2, <1>3, ConcatProperties, LenProperties
  <2>2. \A i \in 1..Len(queue') :
            \/ i \in 1..Len(queue) /\ queue'[i] = queue[i]
            \/ /\ i - Len(queue) \in 1..Len(taken)
               /\ queue'[i] = taken[i - Len(queue)]
    BY <2>1
  <2>3. \A i \in 1..Len(queue) : queue[i] \in Jobs /\ task[queue[i]] = "queued"
    BY <1>3, ElementOfSeq DEF AllAt
  <2>4. \A i \in 1..Len(taken) : taken[i] \in put
    BY DEF put
  <2>5. AllAt(queue, "queued")'
    <3> SUFFICES ASSUME NEW i \in 1..Len(queue')
                 PROVE  task'[queue'[i]] = "queued"
      BY DEF AllAt
    <3>1. CASE i \in 1..Len(queue) /\ queue'[i] = queue[i]
      BY <1>7, <2>3, <3>1
    <3>2. CASE /\ i - Len(queue) \in 1..Len(taken)
               /\ queue'[i] = taken[i - Len(queue)]
      BY <1>4, <1>7, <2>4, <3>2
    <3> QED
      BY <2>2, <3>1, <3>2
  <2>6. \A i, k \in 1..Len(taken) : taken[i] = taken[k] => i = k
    BY <1>2
  <2>7. \A i \in 1..Len(queue), k \in 1..Len(taken) : queue[i] # taken[k]
    BY <1>4, <2>3, <2>4
  <2>8. Distinct(queue)'
    <3> SUFFICES ASSUME NEW i \in 1..Len(queue'), NEW k \in 1..Len(queue'),
                        queue'[i] = queue'[k]
                 PROVE  i = k
      BY DEF Distinct
    <3>1. CASE i \in 1..Len(queue) /\ queue'[i] = queue[i]
      BY <1>3, <2>2, <2>7, <3>1 DEF Distinct
    <3>2. CASE /\ i - Len(queue) \in 1..Len(taken)
               /\ queue'[i] = taken[i - Len(queue)]
      <4>1. k - Len(queue) \in 1..Len(taken) /\ queue'[k] = taken[k - Len(queue)]
        BY <2>2, <2>7, <3>2
      <4>2. i - Len(queue) = k - Len(queue)
        BY <2>6, <3>2, <4>1
      <4> QED
        BY <2>1, <4>2
    <3> QED
      BY <2>2, <3>1, <3>2
  <2>9. Distinct(ready)' /\ AllAt(ready, "spawned")'
    BY <1>3, <1>4, <1>7, <1>8, ElementOfSeq DEF Distinct, AllAt
  <2>10. Distinct(waiters)' /\ AllAt(waiters, "waiting")'
    BY <1>3, <1>4, <1>7, <1>8, ElementOfSeq DEF Distinct, AllAt
  <2> QED
    BY <2>5, <2>8, <2>9, <2>10 DEF LinesMatchTasks
<1>12. OneLiveJobPerDoc'
  BY <1>4, <1>5, <1>7, <1>9 DEF IInv, OneLiveJobPerDoc
<1>13. TrackingExact'
  <2>1. InPlace({"queued", "spawned"})' = InPlace({"queued", "spawned"}) \cup put
    BY <1>4, <1>7 DEF InPlace
  <2>2. InPlace({"waiting", "executing"})' = InPlace({"waiting", "executing"})
    BY <1>4, <1>7 DEF InPlace
  <2>3. queuedDocs' = queuedDocs \cup {DocOf(j) : j \in put}
    BY <1>2 DEF put
  <2> QED
    BY <1>8, <2>1, <2>2, <2>3 DEF IInv, TrackingExact
<1>14. WorkerBound'
  <2>1. InPlace({"executing"})' = InPlace({"executing"})
    BY <1>4, <1>7 DEF InPlace
  <2> QED
    BY <1>8, <2>1 DEF IInv, WorkerBound
<1>15. ScanLockExact'
  BY DEF IInv, ScanLockExact, EndScan, ReleaseScanLock
<1> QED
  BY <1>10, <1>11, <1>12, <1>13, <1>14, <1>15 DEF IInv

-----------------------------------------------------------------------------
\* Every step preserves the invariant.
LEMMA NextIInv == IInv /\ [Next]_vars => IInv'
<1> SUFFICES ASSUME IInv, [Next]_vars PROVE IInv'
  OBVIOUS
<1>1. CASE \E s \in Scanners : StartScan(s) \/ EndScan(s) \/ FailScan(s)
  BY <1>1, StartScanIInv, EndScanIInv, FailScanIInv
<1>2. CASE ConsumerTake
  BY <1>2, ConsumerTakeIInv
<1>3. CASE ConsumerStop
  BY <1>3, ConsumerStopIInv
<1>4. CASE BeginJob
  BY <1>4, BeginJobIInv
<1>5. CASE AcquirePermit
  BY <1>5, AcquirePermitIInv
<1>6. CASE \E j \in Jobs : FinishJob(j)
  BY <1>6, FinishJobIInv
<1>7. CASE BeginShutdown
  BY <1>7, BeginShutdownIInv
<1>8. CASE StopDispatcher
  BY <1>8, StopDispatcherIInv
<1>9. CASE ProcessExit
  BY <1>9, ProcessExitIInv
<1>10. CASE Restart
  BY <1>10, RestartIInv
<1>11. CASE UNCHANGED vars
  <2>1. UNCHANGED dispatcherVars /\ UNCHANGED <<phase, scanLock, scanning>>
    BY <1>11 DEF vars, dispatcherVars
  <2>2. ScanLockExact'
    BY <2>1 DEF IInv, ScanLockExact
  <2> QED
    BY <2>1, <2>2, ScanStep DEF IInv, TypeOK
<1> QED
  BY <1>1, <1>2, <1>3, <1>4, <1>5, <1>6, <1>7, <1>8, <1>9, <1>10, <1>11
  DEF Next

\* The inductive invariant holds in every reachable state.
THEOREM Invariance == Spec => []IInv
BY InitIInv, NextIInv, PTL DEF Spec

\* Every variable keeps its type, and the queue its capacity.
THEOREM Typing == Spec => []TypeOK
<1>1. IInv => TypeOK
  BY DEF IInv
<1> QED
  BY <1>1, Invariance, PTL

\* A document never has two live jobs: however scans, shutdowns and tasks
\* interleave, two ingests of one document never run together in a process.
THEOREM OneJobAtATime == Spec => []OneLiveJobPerDoc
<1>1. IInv => OneLiveJobPerDoc
  BY DEF IInv
<1> QED
  BY <1>1, Invariance, PTL

\* The tracking sets of enqueue_jobs say exactly which documents have a job
\* before, and after, the start of _run_job.
THEOREM Tracking == Spec => []TrackingExact
<1>1. IInv => TrackingExact
  BY DEF IInv
<1> QED
  BY <1>1, Invariance, PTL

\* The semaphore never loses a permit and never lets more than MaxWorkers
\* ingests run.
THEOREM Workers == Spec => []WorkerBound
<1>1. IInv => WorkerBound
  BY DEF IInv
<1> QED
  BY <1>1, Invariance, PTL

\* The scan lock is held exactly while a scan is in progress.
THEOREM ScanLock == Spec => []ScanLockExact
<1>1. IInv => ScanLockExact
  BY DEF IInv
<1> QED
  BY <1>1, Invariance, PTL

-----------------------------------------------------------------------------
(* The dispatcher implements the first-come-first-served service of        *)
(* JobService.  The line of the service is waiters \o ready \o queue: a    *)
(* job that moves between these places does not move in the line, one that *)
(* gets a permit is its head, and a scan adds at its end.                  *)

\* Taking the head of t to the end of s does not change s \o t.
LEMMA MoveAlong ==
    ASSUME NEW s \in Seq(Jobs), NEW t \in Seq(Jobs), t # <<>>
    PROVE  Append(s, Head(t)) \o Tail(t) = s \o t
<1>1. Len(s) \in Nat /\ Len(t) \in Nat /\ Len(t) > 0 /\ Head(t) = t[1]
  BY EmptySeq, LenProperties
<1>2. /\ Head(t) \in Jobs /\ Tail(t) \in Seq(Jobs)
      /\ Len(Tail(t)) = Len(t) - 1
      /\ \A i \in 1..Len(Tail(t)) : Tail(t)[i] = t[i + 1]
  BY HeadTailProperties
<1> DEFINE u == Append(s, Head(t))
<1>3. /\ u \in Seq(Jobs) /\ Len(u) = Len(s) + 1
      /\ \A i \in 1..Len(s) : u[i] = s[i]
      /\ u[Len(s) + 1] = t[1]
  BY <1>1, <1>2, AppendProperties
<1> HIDE DEF u
<1>4. /\ u \o Tail(t) \in Seq(Jobs) /\ Len(u \o Tail(t)) = Len(s) + Len(t)
      /\ \A i \in 1..(Len(s) + Len(t)) :
            (u \o Tail(t))[i] = IF i <= Len(s) + 1 THEN u[i]
                                ELSE Tail(t)[i - (Len(s) + 1)]
  <2>1. /\ u \o Tail(t) \in Seq(Jobs) /\ Len(u \o Tail(t)) = Len(u) + Len(Tail(t))
        /\ \A i \in 1..(Len(u) + Len(Tail(t))) :
              (u \o Tail(t))[i] = IF i <= Len(u) THEN u[i] ELSE Tail(t)[i - Len(u)]
    BY <1>2, <1>3, ConcatProperties
  <2>2. Len(u) + Len(Tail(t)) = Len(s) + Len(t)
    BY <1>1, <1>2, <1>3
  <2> QED BY <1>3, <2>1, <2>2
<1>5. /\ s \o t \in Seq(Jobs) /\ Len(s \o t) = Len(s) + Len(t)
      /\ \A i \in 1..(Len(s) + Len(t)) :
            (s \o t)[i] = IF i <= Len(s) THEN s[i] ELSE t[i - Len(s)]
  BY ConcatProperties
<1>6. \A i \in 1..(Len(s) + Len(t)) : (u \o Tail(t))[i] = (s \o t)[i]
  <2> TAKE i \in 1..(Len(s) + Len(t))
  <2>1. CASE i <= Len(s)
    BY <1>1, <1>3, <1>4, <1>5, <2>1
  <2>2. CASE i = Len(s) + 1
    BY <1>1, <1>3, <1>4, <1>5, <2>2
  <2>3. CASE i > Len(s) + 1
    <3>1. i - (Len(s) + 1) \in 1..Len(Tail(t))
      BY <1>1, <1>2, <2>3
    <3>2. Tail(t)[i - (Len(s) + 1)] = t[i - Len(s)]
      BY <1>1, <1>2, <3>1
    <3>3. (u \o Tail(t))[i] = Tail(t)[i - (Len(s) + 1)]
      BY <1>1, <1>4, <2>3
    <3>4. (s \o t)[i] = t[i - Len(s)]
      BY <1>1, <1>5, <2>3
    <3> QED
      BY <3>2, <3>3, <3>4
  <2>4. i <= Len(s) \/ i = Len(s) + 1 \/ i > Len(s) + 1
    BY <1>1
  <2> QED
    BY <2>1, <2>2, <2>3, <2>4
<1>7. u \o Tail(t) = s \o t
  BY <1>4, <1>5, <1>6, SeqEqual
<1> QED
  BY <1>7 DEF u

\* The head and the tail of a line made of two parts.
LEMMA ConcatHeadTail ==
    ASSUME NEW s \in Seq(Jobs), NEW t \in Seq(Jobs), s # <<>>
    PROVE  /\ s \o t # <<>>
           /\ Head(s \o t) = Head(s)
           /\ Tail(s \o t) = Tail(s) \o t
<1>1. Len(s) \in Nat /\ Len(t) \in Nat /\ Len(s) > 0 /\ Head(s) = s[1]
  BY EmptySeq, LenProperties
<1>2. /\ s \o t \in Seq(Jobs) /\ Len(s \o t) = Len(s) + Len(t)
      /\ \A i \in 1..(Len(s) + Len(t)) :
            (s \o t)[i] = IF i <= Len(s) THEN s[i] ELSE t[i - Len(s)]
  BY ConcatProperties
<1>3. s \o t # <<>>
  BY <1>1, <1>2, EmptySeq
<1>4. Head(s \o t) = Head(s)
  BY <1>1, <1>2, <1>3
<1>5. /\ Tail(s) \in Seq(Jobs) /\ Len(Tail(s)) = Len(s) - 1
      /\ \A i \in 1..Len(Tail(s)) : Tail(s)[i] = s[i + 1]
  BY HeadTailProperties
<1>6. /\ Tail(s \o t) \in Seq(Jobs)
      /\ Len(Tail(s \o t)) = Len(s) + Len(t) - 1
      /\ \A i \in 1..(Len(s) + Len(t) - 1) : Tail(s \o t)[i] = (s \o t)[i + 1]
  BY <1>2, <1>3, HeadTailProperties
<1>7. /\ Tail(s) \o t \in Seq(Jobs)
      /\ Len(Tail(s) \o t) = Len(s) + Len(t) - 1
      /\ \A i \in 1..(Len(s) + Len(t) - 1) :
            (Tail(s) \o t)[i] = IF i <= Len(s) - 1 THEN Tail(s)[i]
                                ELSE t[i - (Len(s) - 1)]
  BY <1>1, <1>5, ConcatProperties
<1>8. \A i \in 1..(Len(s) + Len(t) - 1) : Tail(s \o t)[i] = (Tail(s) \o t)[i]
  BY <1>1, <1>2, <1>5, <1>6, <1>7
<1>9. Tail(s \o t) = Tail(s) \o t
  BY <1>1, <1>6, <1>7, <1>8, SeqEqual
<1> QED
  BY <1>3, <1>4, <1>9

-----------------------------------------------------------------------------
\* The instance of JobService counts with an instance of FiniteSets.
LEMMA SameCardinality == \A S : Service!Cardinality(S) = Cardinality(S)
BY DEF Service!Cardinality, Cardinality

Line == waiters \o ready \o queue

\* The three places where a job waits are sequences of jobs.
LEMMA LineType ==
    ASSUME IInv
    PROVE  /\ waiters \in Seq(Jobs) /\ ready \in Seq(Jobs) /\ queue \in Seq(Jobs)
           /\ waiters \o ready \in Seq(Jobs)
           /\ Line \in Seq(Jobs)
           /\ Line = waiters \o (ready \o queue)
<1>1. waiters \in Seq(Jobs) /\ ready \in Seq(Jobs) /\ queue \in Seq(Jobs)
  BY DEF IInv, TypeOK
<1> QED
  BY <1>1, ConcatProperties, ConcatAssociative DEF Line

\* Nothing that stands in the line is idle.
LEMMA LineIsLive ==
    ASSUME IInv, NEW i \in 1..Len(Line)
    PROVE  Line[i] \in Jobs /\ task[Line[i]] # "idle"
<1>1. Line[i] \in Jobs
  BY LineType, ElementOfSeq
<1>2. \A s, t \in Seq(Jobs) : \A k \in 1..Len(s \o t) :
          \/ k \in 1..Len(s) /\ (s \o t)[k] = s[k]
          \/ k - Len(s) \in 1..Len(t) /\ (s \o t)[k] = t[k - Len(s)]
  BY ConcatProperties, LenProperties
<1>3. \A k \in 1..Len(waiters \o ready) : task[(waiters \o ready)[k]] # "idle"
  BY <1>2, LineType DEF IInv, LinesMatchTasks, AllAt
<1>4. task[Line[i]] # "idle"
  BY <1>2, <1>3, LineType DEF IInv, LinesMatchTasks, AllAt, Line
<1> QED
  BY <1>1, <1>4

\* A free permit is a free server.
LEMMA FreeServer ==
    ASSUME IInv, permits > 0
    PROVE  Cardinality(InPlace({"executing"})) < MaxWorkers
BY Executing, MaxWorkersAssumption

\* A batch that enqueue_jobs takes joins the end of the line, and none of its
\* documents is being served.
LEMMA EndScanAccepts ==
    ASSUME IInv, NEW s \in Scanners, EndScan(s)
    PROVE  Service!Accept
<1>1. PICK list \in JobLists :
          IsScanResult(list) /\ UntrackedOnly(list) /\ EnqueueJobs(list)
  BY DEF EndScan
<1>2. PICK taken \in Seq(Jobs) :
          LET put == {taken[i] : i \in 1..Len(taken)}
          IN  /\ Len(queue) + Len(taken) <= QueueCapacity
              /\ \A i \in 1..Len(taken) :
                    task[taken[i]] = "idle" /\ ~Tracked(DocOf(taken[i]))
              /\ \A i, k \in 1..Len(taken) :
                    DocOf(taken[i]) = DocOf(taken[k]) => i = k
              /\ queue' = queue \o taken
              /\ queuedDocs' = queuedDocs \cup {DocOf(j) : j \in put}
              /\ task' = [j \in Jobs |->
                             IF j \in put THEN "queued" ELSE task[j]]
  BY <1>1, TakenJobs
<1>3. taken \in Service!Batches
  <2>1. taken \in [1..Len(taken) -> Jobs] /\ Len(taken) \in Nat
    BY LenProperties
  <2>2. Len(taken) \in 0..QueueCapacity
    BY <1>2, <2>1, LineType, LenProperties, CapacityAssumption
  <2> QED
    BY <2>1, <2>2 DEF Service!Batches
<1>4. Service!DistinctDocs(taken)
  BY <1>2 DEF Service!DistinctDocs
<1>5. \A i \in 1..Len(taken) : DocOf(taken[i]) \notin Service!ServedDocs
  <2> SUFFICES ASSUME NEW i \in 1..Len(taken), NEW j \in Jobs,
                      task[j] # "idle", DocOf(taken[i]) = DocOf(j)
               PROVE  FALSE
    BY LineIsLive DEF Service!ServedDocs, Service!Waiting, Line, InPlace
  <2>1. task[j] \in {"queued", "spawned", "waiting", "executing"}
    BY DEF IInv, TypeOK, Places
  <2>2. Tracked(DocOf(j))
    BY <2>1 DEF IInv, TrackingExact, InPlace, Tracked
  <2> QED
    BY <1>2, <2>2
<1>6. (waiters \o ready \o queue)' = (waiters \o ready \o queue) \o taken
  <2>1. UNCHANGED <<waiters, ready>> /\ queue' = queue \o taken
    BY <1>2 DEF EndScan
  <2>2. (waiters \o ready) \o (queue \o taken) = (waiters \o ready \o queue) \o taken
    <3>1. \A a, b, c \in Seq(Jobs) : a \o (b \o c) = (a \o b) \o c
      BY ConcatAssociative
    <3> QED
      BY <3>1, LineType, Zenon
  <2> QED
    BY <2>1, <2>2
<1>7. InPlace({"executing"})' = InPlace({"executing"})
  <2>1. \A i \in 1..Len(taken) : task[taken[i]] = "idle"
    BY <1>2
  <2>2. \A j \in Jobs : task'[j] = "executing" <=> task[j] = "executing"
    BY <1>2, <2>1
  <2> QED
    BY <2>2 DEF InPlace
<1> QED
  BY <1>3, <1>4, <1>5, <1>6, <1>7 DEF Service!Accept

\* A job that becomes a task does not move in the line.
LEMMA ConsumerTakeStutters ==
    ASSUME IInv, ConsumerTake
    PROVE  UNCHANGED Service!svcVars
<1>1. queue # <<>> /\ UNCHANGED waiters
      /\ ready' = Append(ready, Head(queue)) /\ queue' = Tail(queue)
  BY DEF ConsumerTake
<1>2. Head(queue) \in Jobs /\ Tail(queue) \in Seq(Jobs)
      /\ task[Head(queue)] = "queued"
  BY <1>1, LineType, LeaveLine DEF IInv, LinesMatchTasks, AllAt
<1>3. ready' \in Seq(Jobs) /\ ready' \o queue' = ready \o queue
  BY <1>1, <1>2, LineType, AppendProperties, MoveAlong
<1>4. Line' = Line
  <2>1. \A a, b, c \in Seq(Jobs) : a \o (b \o c) = (a \o b) \o c
    BY ConcatAssociative
  <2>2. Line' = waiters \o (ready' \o queue')
    <3>1. Line' = (waiters \o ready') \o queue'
      BY <1>1 DEF Line
    <3>2. waiters \in Seq(Jobs) /\ ready' \in Seq(Jobs) /\ queue' \in Seq(Jobs)
      BY <1>1, <1>2, <1>3, LineType
    <3> QED
      BY <2>1, <3>1, <3>2, Zenon
  <2> QED
    BY <1>3, <2>2, LineType
<1>5. InPlace({"executing"})' = InPlace({"executing"})
  BY <1>2 DEF ConsumerTake, InPlace, IInv, TypeOK
<1> QED
  BY <1>4, <1>5 DEF Service!svcVars, Line

\* The head of the line starts when it gets a permit at once; otherwise it
\* joins the waiters and does not move in the line.
LEMMA BeginJobStarts ==
    ASSUME IInv, BeginJob
    PROVE  Service!Start \/ UNCHANGED Service!svcVars
<1> DEFINE j == Head(ready)
<1>1. ready # <<>> /\ UNCHANGED queue /\ ready' = Tail(ready)
  BY DEF BeginJob
<1>2. j \in Jobs /\ Tail(ready) \in Seq(Jobs) /\ task[j] = "spawned"
  BY <1>1, LineType, LeaveLine DEF IInv, LinesMatchTasks, AllAt
<1>3. CASE PermitFree
  <2>1. waiters = <<>> /\ waiters' = <<>> /\ permits > 0
        /\ task' = [task EXCEPT ![j] = "executing"]
    BY <1>3 DEF BeginJob, PermitFree
  <2>2. Line = ready \o queue /\ Line' = Tail(ready) \o queue
    BY <1>1, <1>2, <2>1, LineType, ConcatEmptySeq DEF Line
  <2>3. Line # <<>> /\ Head(Line) = j /\ Line' = Tail(Line)
    BY <1>1, <2>2, LineType, ConcatHeadTail
  <2>4. InPlace({"executing"})' = InPlace({"executing"}) \cup {j}
    BY <1>2, <2>1 DEF InPlace, IInv, TypeOK
  <2>5. Service!Cardinality(InPlace({"executing"})) < MaxWorkers
    BY <2>1, FreeServer, SameCardinality
  <2> QED
    BY <2>3, <2>4, <2>5 DEF Service!Start, Line
<1>4. CASE ~PermitFree
  <2>1. /\ waiters' = Append(waiters, j)
        /\ task' = [task EXCEPT ![j] = "waiting"]
    BY <1>4 DEF BeginJob
  <2>2. waiters' \in Seq(Jobs) /\ waiters' \o ready' = waiters \o ready
    BY <1>1, <1>2, <2>1, LineType, AppendProperties, MoveAlong
  <2>3. Line' = Line
    BY <1>1, <2>2 DEF Line
  <2>4. InPlace({"executing"})' = InPlace({"executing"})
    BY <1>2, <2>1 DEF InPlace, IInv, TypeOK
  <2> QED
    BY <2>3, <2>4 DEF Service!svcVars, Line
<1> QED
  BY <1>3, <1>4

\* The first waiter is the head of the line.
LEMMA AcquirePermitStarts ==
    ASSUME IInv, AcquirePermit
    PROVE  Service!Start
<1> DEFINE j == Head(waiters)
<1>1. /\ waiters # <<>> /\ UNCHANGED <<ready, queue>> /\ waiters' = Tail(waiters)
      /\ permits > 0 /\ task' = [task EXCEPT ![j] = "executing"]
  BY DEF AcquirePermit
<1>2. j \in Jobs /\ Tail(waiters) \in Seq(Jobs)
  BY <1>1, LineType, LeaveLine DEF IInv, LinesMatchTasks
<1>3. Line # <<>> /\ Head(Line) = j /\ Line' = Tail(Line)
  <2>1. Line = waiters \o (ready \o queue) /\ ready \o queue \in Seq(Jobs)
    BY LineType, ConcatProperties
  <2>2. Line # <<>> /\ Head(Line) = j
        /\ Tail(Line) = Tail(waiters) \o (ready \o queue)
    BY <1>1, <2>1, LineType, ConcatHeadTail
  <2>3. Line' = Tail(waiters) \o (ready \o queue)
    <3>1. \A a, b, c \in Seq(Jobs) : a \o (b \o c) = (a \o b) \o c
      BY ConcatAssociative
    <3>2. Line' = (Tail(waiters) \o ready) \o queue
      BY <1>1 DEF Line
    <3> QED
      BY <1>2, <3>1, <3>2, LineType, Zenon
  <2> QED
    BY <2>2, <2>3
<1>4. InPlace({"executing"})' = InPlace({"executing"}) \cup {j}
  BY <1>1, <1>2 DEF InPlace, IInv, TypeOK
<1>5. Service!Cardinality(InPlace({"executing"})) < MaxWorkers
  BY <1>1, FreeServer, SameCardinality
<1> QED
  BY <1>3, <1>4, <1>5 DEF Service!Start, Line

\* An ingest that ends leaves its server free.
LEMMA FinishJobFinishes ==
    ASSUME IInv, NEW j \in Jobs, FinishJob(j)
    PROVE  Service!Finish
<1>1. j \in InPlace({"executing"})
  BY DEF FinishJob, InPlace
<1>2. InPlace({"executing"})' = InPlace({"executing"}) \ {j}
  BY DEF FinishJob, InPlace, IInv, TypeOK
<1>3. (waiters \o ready \o queue)' = waiters \o ready \o queue
  BY DEF FinishJob
<1> QED
  BY <1>1, <1>2, <1>3 DEF Service!Finish

\* The line and the running jobs are lost with the process.
LEMMA ProcessExitExits ==
    ASSUME ProcessExit
    PROVE  Service!Exit
<1>1. (waiters \o ready \o queue)' = <<>>
  BY EmptySeq, ConcatEmptySeq DEF ProcessExit
<1>2. InPlace({"executing"})' = {}
  BY DEF ProcessExit, InPlace
<1> QED
  BY <1>1, <1>2 DEF Service!Exit

\* The other handlers leave the service as it is.
LEMMA OtherStepsStutter ==
    ASSUME UNCHANGED <<task, queue, ready, waiters>>
    PROVE  UNCHANGED Service!svcVars
BY DEF Service!svcVars, InPlace

\* The dispatcher serves accepted jobs first come, first served, with at most
\* MaxWorkers servers and never two jobs of one document: the queue, the
\* unstarted tasks and the waiters of the semaphore behave as one line.
THEOREM Refinement == Spec => FirstComeFirstServed
<1>1. Init => Service!Init
  <2> SUFFICES ASSUME Init PROVE Service!Init
    OBVIOUS
  <2>1. waiters \o ready \o queue = <<>>
    BY EmptySeq, ConcatEmptySeq DEF Init
  <2>2. InPlace({"executing"}) = {}
    BY DEF Init, InPlace
  <2> QED
    BY <2>1, <2>2 DEF Service!Init
<1>2. IInv /\ [Next]_vars => [Service!Next]_Service!svcVars
  <2> SUFFICES ASSUME IInv, [Next]_vars
               PROVE  Service!Next \/ UNCHANGED Service!svcVars
    OBVIOUS
  <2>1. CASE \E s \in Scanners : EndScan(s)
    BY <2>1, EndScanAccepts DEF Service!Next
  <2>2. CASE \/ \E s \in Scanners : StartScan(s) \/ FailScan(s)
             \/ ConsumerStop \/ BeginShutdown \/ StopDispatcher \/ Restart
             \/ UNCHANGED vars
    BY <2>2, OtherStepsStutter
    DEF StartScan, FailScan, ConsumerStop, BeginShutdown, StopDispatcher,
        Restart, vars, dispatcherVars
  <2>3. CASE ConsumerTake
    BY <2>3, ConsumerTakeStutters
  <2>4. CASE BeginJob
    BY <2>4, BeginJobStarts DEF Service!Next
  <2>5. CASE AcquirePermit
    BY <2>5, AcquirePermitStarts DEF Service!Next
  <2>6. CASE \E j \in Jobs : FinishJob(j)
    BY <2>6, FinishJobFinishes DEF Service!Next
  <2>7. CASE ProcessExit
    BY <2>7, ProcessExitExits DEF Service!Next
  <2> QED
    BY <2>1, <2>2, <2>3, <2>4, <2>5, <2>6, <2>7 DEF Next
<1> QED
  BY <1>1, <1>2, Invariance, PTL DEF Spec, FirstComeFirstServed, Service!Spec

=============================================================================
