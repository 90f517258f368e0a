--------------------------- MODULE IngestLifecycle --------------------------
(***************************************************************************)
(* The life of one document: the S3 scanner that finds it due              *)
(* (adapters/s3_adapter.py), the claim and the stages of RunIngestJob, the *)
(* separate writes of DocumentIndexService, and the error path, against    *)
(* the three stores they share without a common transaction: the SQL row   *)
(* of the document, its markdown artifact and its points in Qdrant.        *)
(*                                                                         *)
(* Documents share none of this state, so one document is modelled.  Each  *)
(* pod holds at most one job of it between enqueue and end                 *)
(* (JobDispatcher, OneLiveJobPerDoc), hence one program counter per pod.   *)
(***************************************************************************)
EXTENDS Integers, FiniteSets

CONSTANTS
    Pods,           \* replicas of the API deployment
    MaxVersion,     \* bound: uploads of the object
    SecondOf(_),    \* LastModified of a version: S3 counts whole seconds
    SectionIds,     \* section indices; the point id is doc_id + index
    SectionsOf(_),  \* the section indices that a version is split into
    MaxFaults       \* bound: exceptions and crashes

Versions == 1..MaxVersion

ASSUME VersionAssumption == MaxVersion \in Nat \ {0}
ASSUME SecondAssumption ==
    /\ \A v \in Versions : SecondOf(v) \in Nat \ {0}
    /\ \A u, v \in Versions : u <= v => SecondOf(u) <= SecondOf(v)
ASSUME SectionAssumption ==
    \A v \in Versions : SectionsOf(v) \subseteq SectionIds /\ SectionsOf(v) # {}
ASSUME FiniteAssumption == IsFiniteSet(SectionIds)
ASSUME FaultAssumption == MaxFaults \in Nat

VARIABLES
    source,     \* version of the S3 object
    row,        \* the documents row of the metadata store
    markdown,   \* version of the markdown artifact, 0 if none
    points,     \* for each section index, the version of its point, 0 if none
    pc,         \* next step of the pod's run of the document: see Steps
    job,        \* LastModified in the pod's IngestJob
    content,    \* version of the bytes that the pod's run has read
    scan,       \* the pod's scan: see ScanSteps
    listed,     \* LastModified in the listing of the pod's scan
    faults,     \* exceptions and crashes so far
    slowRuns    \* may a run outlast STALE_INDEXING_SECONDS?  Never changes.

storeVars == <<row, markdown, points>>
runVars == <<pc, job, content>>
scanVars == <<scan, listed>>
vars == <<source, row, markdown, points, pc, job, content, scan, listed, faults,
          slowRuns>>

Statuses == {"none", "indexing", "indexed", "failed"}

\* The steps of execute() and index_sections() that touch shared state, each
\* named for what the run does next; "none" when the pod has no run.
IndexSteps == {"delete", "mark", "upsert", "points", "indexed", "processed", "log"}
ClaimedSteps == {"read", "save"} \cup IndexSteps
FailSteps == {"fail_log", "fail_status"}
Steps == {"none", "select", "insert", "update"} \cup ClaimedSteps \cup FailSteps

ScanSteps == {"idle", "listed", "due"}

NoRow == [st |-> "none", mtime |-> 0, aged |-> FALSE, path |-> FALSE, count |-> 0]

\* The points of a version, and nothing else.
Whole(v) == [s \in SectionIds |-> IF s \in SectionsOf(v) THEN v ELSE 0]

NoPoints == [s \in SectionIds |-> 0]

Init ==
    /\ source = 1
    /\ row = NoRow
    /\ markdown = 0
    /\ points = NoPoints
    /\ pc = [p \in Pods |-> "none"]
    /\ job = [p \in Pods |-> 0]
    /\ content = [p \in Pods |-> 0]
    /\ scan = [p \in Pods |-> "idle"]
    /\ listed = [p \in Pods |-> 0]
    /\ faults = 0
    /\ slowRuns \in BOOLEAN

-----------------------------------------------------------------------------
(* The environment.                                                        *)

\* The object is overwritten at the same path.
Upload ==
    /\ source < MaxVersion
    /\ source' = source + 1
    /\ UNCHANGED <<storeVars, runVars, scanVars, faults, slowRuns>>

Running == {p \in Pods : pc[p] \in Steps \ {"none", "select"}}

\* STALE_INDEXING_SECONDS pass since updated_at.
Age ==
    /\ row.st = "indexing" /\ ~row.aged
    /\ slowRuns \/ Running = {}
    /\ row' = [row EXCEPT !.aged = TRUE]
    /\ UNCHANGED <<source, markdown, points, runVars, scanVars, faults, slowRuns>>

-----------------------------------------------------------------------------
(* S3Scanner.scan: list, read the rows of the listed paths, decide; then   *)
(* enqueue_jobs, back on the event loop.                                   *)

ScanList(p) ==
    /\ scan[p] = "idle"
    /\ scan' = [scan EXCEPT ![p] = "listed"]
    /\ listed' = [listed EXCEPT ![p] = SecondOf(source)]
    /\ UNCHANGED <<source, storeVars, runVars, faults>>

\* get_by_file_paths finds a row by its path, which a row made by
\* update_status does not have.
Found == row.st # "none" /\ row.path

IsStale == row.st = "indexing" /\ row.aged

\* Slip: a failed document is not retried.
DueIfNewOrChanged(mtime) ==
    \/ ~Found
    \/ IsStale
    \/ row.st = "indexed" /\ row.mtime # 0 /\ mtime > row.mtime

Due(mtime) ==
    \/ ~Found
    \/ row.st = "failed" \/ IsStale
    \/ row.st = "indexed" /\ row.mtime # 0 /\ mtime > row.mtime

ScanDecide(p) ==
    /\ scan[p] = "listed"
    /\ scan' = [scan EXCEPT ![p] = IF Due(listed[p]) THEN "due" ELSE "idle"]
    /\ listed' = [listed EXCEPT ![p] = IF Due(listed[p]) THEN @ ELSE 0]
    /\ UNCHANGED <<source, storeVars, runVars, faults>>

\* Skipped when the pod already has a job of the document.
ScanEnqueue(p) ==
    /\ scan[p] = "due"
    /\ IF pc[p] = "none"
       THEN /\ pc' = [pc EXCEPT ![p] = "select"]
            /\ job' = [job EXCEPT ![p] = listed[p]]
       ELSE UNCHANGED <<pc, job>>
    /\ scan' = [scan EXCEPT ![p] = "idle"]
    /\ listed' = [listed EXCEPT ![p] = 0]
    /\ UNCHANGED <<source, storeVars, content, faults>>

-----------------------------------------------------------------------------
(* The run.                                                                *)

Goto(p, step) == pc' = [pc EXCEPT ![p] = step]

EndRun(p) ==
    /\ Goto(p, "none")
    /\ job' = [job EXCEPT ![p] = 0]
    /\ content' = [content EXCEPT ![p] = 0]

Claimable == row.st # "indexing" \/ row.aged

\* try_claim_ingest reads the row, and refuses only a fresh "indexing".
ClaimSelect(p) ==
    /\ pc[p] = "select"
    /\ IF ~Claimable
       THEN EndRun(p)
       ELSE /\ Goto(p, IF row.st = "none" THEN "insert" ELSE "update")
            /\ UNCHANGED <<job, content>>
    /\ UNCHANGED <<source, storeVars, scanVars, faults>>

ClaimedRow(p) ==
    [row EXCEPT !.st = "indexing", !.mtime = job[p], !.aged = FALSE, !.path = TRUE]

\* It saw no row: the insert fails if another pod has inserted one since.
ClaimInsert(p) ==
    /\ pc[p] = "insert"
    /\ IF row.st = "none"
       THEN row' = ClaimedRow(p) /\ Goto(p, "read")
       ELSE Goto(p, "fail_log") /\ UNCHANGED row
    /\ UNCHANGED <<source, markdown, points, job, content, scanVars, faults>>

\* It saw a row it may claim: the update does not look at the row again.
ClaimUpdate(p) ==
    /\ pc[p] = "update"
    /\ row' = ClaimedRow(p)
    /\ Goto(p, "read")
    /\ UNCHANGED <<source, markdown, points, job, content, scanVars, faults>>

\* The bytes are those of the object now, not those of the listing.
Read(p) ==
    /\ pc[p] = "read"
    /\ content' = [content EXCEPT ![p] = source]
    /\ Goto(p, "save")
    /\ UNCHANGED <<source, storeVars, job, scanVars, faults>>

\* Slip: an artifact that is there is not replaced.
SaveOnce(p) ==
    /\ pc[p] = "save"
    /\ markdown' = IF markdown = 0 THEN content[p] ELSE markdown
    /\ Goto(p, "delete")
    /\ UNCHANGED <<source, row, points, job, content, scanVars, faults>>

\* Parse, then save the markdown under the name of the document.  Split,
\* caption and embed follow: they touch nothing shared.
Save(p) ==
    /\ pc[p] = "save"
    /\ markdown' = content[p]
    /\ Goto(p, "delete")
    /\ UNCHANGED <<source, row, points, job, content, scanVars, faults>>

-----------------------------------------------------------------------------
(* index_sections: seven calls to two stores, in this order.               *)

DeletePoints(p) ==
    /\ pc[p] = "delete"
    /\ points' = NoPoints
    /\ Goto(p, "mark")
    /\ UNCHANGED <<source, row, markdown, job, content, scanVars, faults>>

\* update_status makes a row without a path if there is none.
WithStatus(st) ==
    IF row.st = "none" THEN [NoRow EXCEPT !.st = st]
                       ELSE [row EXCEPT !.st = st, !.aged = FALSE]

MarkIndexing(p) ==
    /\ pc[p] = "mark"
    /\ row' = WithStatus("indexing")
    /\ Goto(p, "upsert")
    /\ UNCHANGED <<source, markdown, points, job, content, scanVars, faults>>

SectionCount(p) == Cardinality(SectionsOf(content[p]))

\* Slip: the row says "indexed" before the points are there.
UpsertRowIndexed(p) ==
    /\ pc[p] = "upsert"
    /\ row' = [st |-> "indexed", mtime |-> job[p], aged |-> FALSE,
               path |-> TRUE, count |-> SectionCount(p)]
    /\ Goto(p, "points")
    /\ UNCHANGED <<source, markdown, points, job, content, scanVars, faults>>

UpsertRow(p) ==
    /\ pc[p] = "upsert"
    /\ row' = [st |-> "indexing", mtime |-> job[p], aged |-> FALSE,
               path |-> TRUE, count |-> SectionCount(p)]
    /\ Goto(p, "points")
    /\ UNCHANGED <<source, markdown, points, job, content, scanVars, faults>>

\* A point is identified by document and section index: it is overwritten.
UpsertPoints(p) ==
    /\ pc[p] = "points"
    /\ points' = [s \in SectionIds |->
                    IF s \in SectionsOf(content[p]) THEN content[p] ELSE points[s]]
    /\ Goto(p, "indexed")
    /\ UNCHANGED <<source, row, markdown, job, content, scanVars, faults>>

MarkIndexed(p) ==
    /\ pc[p] = "indexed"
    /\ row' = WithStatus("indexed")
    /\ Goto(p, "processed")
    /\ UNCHANGED <<source, markdown, points, job, content, scanVars, faults>>

\* Slip: counts of successive ingests add up.
UpdateProcessedAdds(p) ==
    /\ pc[p] = "processed"
    /\ row' = [row EXCEPT !.count = @ + SectionCount(p), !.aged = FALSE]
    /\ Goto(p, "log")
    /\ UNCHANGED <<source, markdown, points, job, content, scanVars, faults>>

\* Sets section_count, processed_at and updated_at, not the status.
UpdateProcessed(p) ==
    /\ pc[p] = "processed"
    /\ row' = IF row.st = "none" THEN row
              ELSE [row EXCEPT !.count = SectionCount(p), !.aged = FALSE]
    /\ Goto(p, "log")
    /\ UNCHANGED <<source, markdown, points, job, content, scanVars, faults>>

\* record_job(indexed) appends to the job log; the run returns.
LogIndexed(p) ==
    /\ pc[p] = "log"
    /\ EndRun(p)
    /\ UNCHANGED <<source, storeVars, scanVars, faults>>

-----------------------------------------------------------------------------
(* Failure.                                                                *)

\* A step raises before its effect: a missed deadline, an empty parse, a
\* store or a provider that is down.  Also when the claim itself raises.
Fail(p) ==
    /\ pc[p] \in Steps \ ({"none"} \cup FailSteps)
    /\ faults < MaxFaults
    /\ faults' = faults + 1
    /\ Goto(p, "fail_log")
    /\ UNCHANGED <<source, storeVars, job, content, scanVars>>

\* The error path records the failure first ...
LogFailed(p) ==
    /\ pc[p] = "fail_log"
    /\ Goto(p, "fail_status")
    /\ UNCHANGED <<source, storeVars, job, content, scanVars, faults>>

\* ... then sets the status, whoever owns the document.
MarkFailed(p) ==
    /\ pc[p] = "fail_status"
    /\ row' = WithStatus("failed")
    /\ EndRun(p)
    /\ UNCHANGED <<source, markdown, points, scanVars, faults>>

\* One of the two calls of the error path raises: the run ends there.
FailAgain(p) ==
    /\ pc[p] \in FailSteps
    /\ faults < MaxFaults
    /\ faults' = faults + 1
    /\ EndRun(p)
    /\ UNCHANGED <<source, storeVars, scanVars>>

\* The pod dies, or its tasks are cancelled at shutdown (CancelledError is
\* not caught by the error path): runs and scans are lost.
Crash(p) ==
    /\ pc[p] # "none" \/ scan[p] # "idle"
    /\ faults < MaxFaults
    /\ faults' = faults + 1
    /\ EndRun(p)
    /\ scan' = [scan EXCEPT ![p] = "idle"]
    /\ listed' = [listed EXCEPT ![p] = 0]
    /\ UNCHANGED <<source, storeVars>>

-----------------------------------------------------------------------------
Index(p) ==
    \/ DeletePoints(p) \/ MarkIndexing(p) \/ UpsertRow(p) \/ UpsertPoints(p)
    \/ MarkIndexed(p) \/ UpdateProcessed(p) \/ LogIndexed(p)

Run(p) ==
    /\ \/ ClaimSelect(p) \/ ClaimInsert(p) \/ ClaimUpdate(p)
       \/ Read(p) \/ Save(p) \/ Index(p)
       \/ LogFailed(p) \/ MarkFailed(p)
    /\ UNCHANGED slowRuns

Scan(p) == (ScanList(p) \/ ScanDecide(p) \/ ScanEnqueue(p)) /\ UNCHANGED slowRuns

Fault(p) == (Fail(p) \/ FailAgain(p) \/ Crash(p)) /\ UNCHANGED slowRuns

Next ==
    \/ Upload
    \/ Age
    \/ \E p \in Pods : Scan(p) \/ Run(p) \/ Fault(p)

\* The scanner loop runs for ever, a started job goes on (JobDispatcher,
\* AcceptedJobStarts), time passes.  Uploads and faults are not owed.
Fairness ==
    /\ WF_vars(Age)
    /\ \A p \in Pods : WF_vars(Scan(p)) /\ WF_vars(Run(p))

Spec == Init /\ [][Next]_vars

FairSpec == Spec /\ Fairness

-----------------------------------------------------------------------------
Seconds == {SecondOf(v) : v \in Versions} \cup {0}

RowType == [st : Statuses, mtime : Seconds, aged : BOOLEAN, path : BOOLEAN,
            count : 0..Cardinality(SectionIds)]

\* Type of every variable.
TypeOK ==
    /\ source \in Versions
    /\ row \in RowType
    /\ markdown \in 0..MaxVersion
    /\ points \in [SectionIds -> 0..MaxVersion]
    /\ pc \in [Pods -> Steps]
    /\ job \in [Pods -> Seconds]
    /\ content \in [Pods -> 0..MaxVersion]
    /\ scan \in [Pods -> ScanSteps]
    /\ listed \in [Pods -> Seconds]
    /\ faults \in 0..MaxFaults
    /\ slowRuns \in BOOLEAN

Shows(v) == points = Whole(v)

\* A row that says "indexed" vouches for the other stores: the index holds
\* one version whole, its markdown is the saved one, section_count counts it,
\* and it is no older than the row says, whatever crashed or failed before.
IndexedMeansWhole ==
    row.st = "indexed" =>
        \E v \in Versions :
            /\ Shows(v)
            /\ markdown = v
            /\ row.count = Cardinality(SectionsOf(v))
            /\ SecondOf(v) >= row.mtime

\* What readers see of the document follows DocumentView.
ShownVersion ==
    IF points = NoPoints THEN 0 ELSE CHOOSE v \in Versions : Shows(v)

View == INSTANCE DocumentView
    WITH saved <- markdown, shown <- ShownVersion

ReadersSeeOneVersion == View!Spec

\* When uploads and faults stop, the index ends up with the last version,
\* for ever: no crash, partial failure or change during a run is forgotten.
\* It takes runs that end within STALE_INDEXING_SECONDS: the scans would take
\* up a longer one again and again.
EventuallyCurrent == slowRuns \/ <>[](row.st = "indexed" /\ Shows(source))

\* adapters/s3_adapter.py:71 "Scan S3 for new or changed files.": sections of
\* an overwritten version do not stay in the index.
ChangedFileIsReindexed ==
    \A v \in Versions : Shows(v) /\ source # v ~> ~Shows(v)

\* app/ports/ingest_claim_repository.py:10 "Claim an ingest job atomically to
\* prevent duplicate processing.": no pod takes a document over beside a run of
\* another pod unless the row lets it at that moment, not only when it was read.
\* (A claim in one step has this property, however long runs are.)
ClaimIsAtomic ==
    [][\A p, q \in Pods :
         p # q /\ pc[q] \in ClaimedSteps /\ ClaimUpdate(p) => Claimable]_vars

\* One pod at a time is past the claim.  The condition under which the
\* properties above are checked and proved; a lost race of two claims ends it,
\* and so do a run that outlasts the stale limit and a row set to "failed", or
\* to "indexed", before its run has ended.
ExclusiveIngest ==
    \A p, q \in Pods :
        pc[p] \in ClaimedSteps /\ pc[q] \in ClaimedSteps => p = q
=============================================================================
