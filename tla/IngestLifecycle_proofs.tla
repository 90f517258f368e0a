----------------------- MODULE IngestLifecycle_proofs -----------------------
(***************************************************************************)
(* Proofs about IngestLifecycle, for any pods, versions, sections and      *)
(* number of faults.  Types hold always; the rest holds as long as one run *)
(* at a time is past the claim (ExclusiveIngest), in particular with one   *)
(* pod.                                                                    *)
(***************************************************************************)
EXTENDS IngestLifecycle, FiniteSetTheorems, TLAPS

HasRead == {"save"} \cup IndexSteps

\* What a run has read is no older than its job says and no newer than the
\* object; nothing saved is newer than the object.
ReadInv ==
    /\ markdown <= source
    /\ \A p \in Pods : listed[p] <= SecondOf(source) /\ job[p] <= SecondOf(source)
    /\ \A p \in Pods : pc[p] \in HasRead =>
          /\ content[p] \in 1..source
          /\ job[p] <= SecondOf(content[p])

TypesInv == TypeOK /\ ReadInv

\* What run p, past its claim, may rely on when nobody else is.
OwnInv(p) ==
    /\ row.st # "none"
    /\ pc[p] \notin {"processed", "log"} => row.st # "indexed"
    /\ pc[p] = "save" => markdown <= content[p]
    /\ pc[p] \in IndexSteps => markdown = content[p]
    /\ pc[p] \in {"mark", "upsert", "points"} => points = NoPoints
    /\ pc[p] \in {"indexed", "processed", "log"} => Shows(content[p])
    /\ pc[p] \in {"points", "indexed", "processed", "log"} =>
          row.count = SectionCount(p) /\ row.mtime = job[p]

IInv ==
    /\ TypesInv
    /\ IndexedMeansWhole
    /\ \A p \in Pods : pc[p] \in ClaimedSteps => OwnInv(p)

-----------------------------------------------------------------------------
(* Types.                                                                  *)

LEMMA Bounds ==
    /\ MaxVersion \in Nat \ {0} /\ 1 \in Versions
    /\ \A v \in Versions : SecondOf(v) \in Nat \ {0} /\ SecondOf(v) \in Seconds
    /\ Seconds \subseteq Nat /\ 0 \in Seconds
BY VersionAssumption, SecondAssumption DEF Versions, Seconds

LEMMA Counts ==
    /\ Cardinality(SectionIds) \in Nat
    /\ \A v \in Versions : Cardinality(SectionsOf(v)) \in 0..Cardinality(SectionIds)
<1>1. ASSUME NEW v \in Versions
      PROVE  Cardinality(SectionsOf(v)) \in 0..Cardinality(SectionIds)
  <2>1. SectionsOf(v) \subseteq SectionIds
    BY SectionAssumption
  <2>2. /\ IsFiniteSet(SectionsOf(v))
        /\ Cardinality(SectionsOf(v)) <= Cardinality(SectionIds)
    BY <2>1, FiniteAssumption, FS_Subset
  <2> QED BY <2>2, FiniteAssumption, FS_CardinalityType
<1> QED BY <1>1, FiniteAssumption, FS_CardinalityType

LEMMA InitTypes == Init => TypesInv
<1> SUFFICES ASSUME Init
             PROVE  TypesInv
  OBVIOUS
<1> USE Bounds, Counts, FaultAssumption DEF Init
<1>1. NoRow \in RowType
  BY DEF NoRow, RowType, Statuses
<1>2. TypeOK
  BY <1>1 DEF TypeOK, NoPoints, Steps, ScanSteps
<1>3. ReadInv
  BY DEF ReadInv, HasRead, IndexSteps
<1> QED BY <1>2, <1>3 DEF TypesInv

LEMMA UploadTypes == TypesInv /\ Upload => TypesInv'
<1> SUFFICES ASSUME TypesInv, Upload
             PROVE  TypesInv'
  OBVIOUS
<1> USE Bounds DEF TypesInv, Upload, storeVars, runVars, scanVars
<1>1. source \in 1..MaxVersion /\ source' = source + 1 /\ source' \in Versions
  BY DEF TypeOK, Versions
<1>2. SecondOf(source) <= SecondOf(source')
  BY <1>1, SecondAssumption DEF Versions
<1>3. TypeOK'
  BY <1>1 DEF TypeOK
<1>4. ReadInv'
  <2>1. markdown' <= source'
    BY <1>1 DEF ReadInv, TypeOK
  <2>2. ASSUME NEW p \in Pods
        PROVE  listed'[p] <= SecondOf(source') /\ job'[p] <= SecondOf(source')
    <3>1. /\ source \in Versions /\ listed[p] \in Nat /\ job[p] \in Nat
          /\ SecondOf(source) \in Nat /\ SecondOf(source') \in Nat
      BY <1>1 DEF TypeOK
    <3>2. listed[p] <= SecondOf(source) /\ job[p] <= SecondOf(source)
      BY DEF ReadInv
    <3> QED BY <1>2, <3>1, <3>2
  <2>3. ASSUME NEW p \in Pods, pc'[p] \in HasRead
        PROVE  content'[p] \in 1..source' /\ job'[p] <= SecondOf(content'[p])
    BY <1>1, <2>3 DEF ReadInv, TypeOK
  <2> QED BY <2>1, <2>2, <2>3 DEF ReadInv
<1> QED BY <1>3, <1>4

StoresTyped ==
    /\ row \in RowType
    /\ points \in [SectionIds -> 0..MaxVersion]
    /\ markdown \in 0..MaxVersion
    /\ markdown <= source
    /\ faults \in 0..MaxFaults

\* A run that keeps what it has read, or ends; the scan forgets or keeps.
LEMMA RunTypes ==
    ASSUME TypesInv, NEW p \in Pods, UNCHANGED <<source, slowRuns>>, StoresTyped',
           pc' \in [Pods -> Steps], \A q \in Pods : q # p => pc'[q] = pc[q],
           \/ EndRun(p)
           \/ /\ UNCHANGED <<job, content>>
              /\ pc[p] \in HasRead \/ pc'[p] \notin HasRead,
           \/ UNCHANGED scanVars
           \/ scan' = [scan EXCEPT ![p] = "idle"] /\ listed' = [listed EXCEPT ![p] = 0]
    PROVE  TypesInv'
<1> USE Bounds DEF TypesInv, scanVars
<1>1. source \in 1..MaxVersion /\ source \in Versions /\ SecondOf(source) \in Nat
  BY DEF TypeOK, Versions
<1>2. job' \in [Pods -> Seconds] /\ content' \in [Pods -> 0..MaxVersion]
  BY DEF TypeOK, EndRun
<1>3. scan' \in [Pods -> ScanSteps] /\ listed' \in [Pods -> Seconds]
  BY DEF TypeOK, ScanSteps
<1>4. markdown' \in 0..MaxVersion /\ markdown' <= source
  BY DEF StoresTyped
<1>5. \A q \in Pods : listed'[q] <= SecondOf(source) /\ job'[q] <= SecondOf(source)
  BY <1>1 DEF TypeOK, ReadInv, EndRun
<1>6. ASSUME NEW q \in Pods, pc'[q] \in HasRead
      PROVE  content'[q] \in 1..source /\ job'[q] <= SecondOf(content'[q])
  <2>1. pc[q] \in HasRead /\ content'[q] = content[q] /\ job'[q] = job[q]
    BY <1>6 DEF TypeOK, EndRun, Goto, HasRead, IndexSteps
  <2> QED BY <2>1 DEF ReadInv
<1>7. TypeOK'
  BY <1>1, <1>2, <1>3, <1>4 DEF TypeOK, StoresTyped
<1> QED BY <1>4, <1>5, <1>6, <1>7 DEF ReadInv

LEMMA EndTypes ==
    ASSUME TypesInv, NEW p \in Pods, EndRun(p),
           UNCHANGED <<source, slowRuns>>, StoresTyped',
           \/ UNCHANGED scanVars
           \/ scan' = [scan EXCEPT ![p] = "idle"] /\ listed' = [listed EXCEPT ![p] = 0]
    PROVE  TypesInv'
<1>1. pc' \in [Pods -> Steps] /\ \A q \in Pods : q # p => pc'[q] = pc[q]
  BY DEF EndRun, Goto, TypesInv, TypeOK, Steps
<1> QED BY <1>1, RunTypes

LEMMA GoTypes ==
    ASSUME TypesInv, NEW p \in Pods, NEW step \in Steps, Goto(p, step),
           pc[p] \in HasRead \/ step \notin HasRead,
           UNCHANGED <<source, slowRuns, job, content, scan, listed>>,
           StoresTyped'
    PROVE  TypesInv'
<1>1. UNCHANGED scanVars /\ UNCHANGED <<job, content>>
  BY DEF scanVars
<1>2. /\ pc' \in [Pods -> Steps] /\ \A q \in Pods : q # p => pc'[q] = pc[q]
      /\ pc[p] \in HasRead \/ pc'[p] \notin HasRead
  BY DEF Goto, TypesInv, TypeOK
<1> QED BY <1>1, <1>2, RunTypes

LEMMA ScanTypes ==
    ASSUME TypesInv, NEW p \in Pods, Scan(p)
    PROVE  TypesInv'
<1> USE Bounds DEF TypesInv, Scan
<1>1. source \in Versions
  BY DEF TypeOK
<1>2. CASE ScanList(p)
  <2> USE <1>2 DEF ScanList, storeVars, runVars
  <2>1. TypeOK'
    BY <1>1 DEF TypeOK, ScanSteps
  <2>2. ReadInv'
    BY <1>1 DEF ReadInv, TypeOK
  <2> QED BY <2>1, <2>2
<1>3. CASE ScanDecide(p)
  <2> USE <1>3 DEF ScanDecide, storeVars, runVars
  <2>1. TypeOK'
    BY DEF TypeOK, ScanSteps
  <2>2. ReadInv'
    BY <1>1 DEF ReadInv, TypeOK
  <2> QED BY <2>1, <2>2
<1>4. CASE ScanEnqueue(p)
  <2> USE <1>4 DEF ScanEnqueue, storeVars, runVars
  <2>1. TypeOK'
    BY DEF TypeOK, ScanSteps, Steps
  <2>2. ReadInv'
    BY <1>1 DEF ReadInv, TypeOK, HasRead, IndexSteps
  <2> QED BY <2>1, <2>2
<1> QED BY <1>2, <1>3, <1>4

LEMMA WithStatusType ==
    ASSUME TypeOK, NEW st \in Statuses
    PROVE  WithStatus(st) \in RowType
<1>1. [st |-> st, mtime |-> 0, aged |-> FALSE, path |-> FALSE, count |-> 0] \in RowType
  BY Bounds, Counts DEF RowType
<1>2. [row EXCEPT !.st = st, !.aged = FALSE] \in RowType
  BY DEF TypeOK, RowType
<1> QED BY <1>1, <1>2 DEF WithStatus, NoRow

LEMMA ReadTypes ==
    ASSUME TypesInv, NEW p \in Pods, Read(p), UNCHANGED slowRuns
    PROVE  TypesInv'
<1> USE Bounds DEF TypesInv, Read, storeVars, scanVars
<1>1. source \in 1..MaxVersion
  BY DEF TypeOK, Versions
<1>2. TypeOK'
  BY <1>1 DEF TypeOK, Goto, Steps, ClaimedSteps
<1>3. ReadInv'
  BY <1>1 DEF ReadInv, TypeOK, Goto
<1> QED BY <1>2, <1>3

\* What a run does before it has read, or when it has failed.
LEMMA UnreadTypes ==
    ASSUME TypesInv, NEW p \in Pods, UNCHANGED slowRuns,
           ClaimSelect(p) \/ ClaimInsert(p) \/ ClaimUpdate(p) \/ LogFailed(p) \/ MarkFailed(p)
    PROVE  TypesInv'
<1>1. /\ ClaimedRow(p) \in RowType /\ WithStatus("failed") \in RowType
      /\ StoresTyped
  BY WithStatusType DEF ClaimedRow, RowType, Statuses, TypesInv, TypeOK, ReadInv, StoresTyped
<1>2. /\ UNCHANGED <<source, slowRuns, scan, listed>>
      /\ StoresTyped'
  BY <1>1 DEF ClaimSelect, ClaimInsert, ClaimUpdate, LogFailed, MarkFailed, StoresTyped,
     storeVars, scanVars
<1>3. \A step \in {"insert", "update", "read", "fail_log", "fail_status"} :
         step \in Steps /\ step \notin HasRead
  BY DEF Steps, ClaimedSteps, FailSteps, HasRead, IndexSteps
<1>4. \/ EndRun(p)
      \/ \E step \in {"insert", "update", "read", "fail_log", "fail_status"} :
            Goto(p, step) /\ UNCHANGED <<job, content>>
  BY DEF ClaimSelect, ClaimInsert, ClaimUpdate, LogFailed, MarkFailed
<1>5. CASE EndRun(p)
  <2>1. UNCHANGED scanVars
    BY <1>2 DEF scanVars
  <2> QED BY <1>2, <1>5, <2>1, EndTypes
<1>6. CASE \E step \in {"insert", "update", "read", "fail_log", "fail_status"} :
              Goto(p, step) /\ UNCHANGED <<job, content>>
  BY <1>2, <1>3, <1>6, GoTypes, Zenon
<1> QED BY <1>4, <1>5, <1>6

LEMMA IndexTypes ==
    ASSUME TypesInv, NEW p \in Pods, UNCHANGED slowRuns, Save(p) \/ Index(p)
    PROVE  TypesInv'
<1> USE Bounds, Counts DEF storeVars
<1>1. pc[p] \in HasRead
  BY DEF Save, Index, DeletePoints, MarkIndexing, UpsertRow, UpsertPoints, MarkIndexed,
     UpdateProcessed, LogIndexed, HasRead, IndexSteps
<1>2. content[p] \in Versions /\ content[p] <= source /\ SectionCount(p) \in 0..Cardinality(SectionIds)
  <2>1. content[p] \in 1..source /\ source \in 1..MaxVersion
    BY <1>1 DEF TypesInv, ReadInv, TypeOK, Versions
  <2>2. content[p] \in Versions
    BY <2>1 DEF Versions
  <2> QED BY <2>1, <2>2 DEF SectionCount
<1>3. /\ \A st \in Statuses : WithStatus(st) \in RowType
      /\ StoresTyped /\ job[p] \in Seconds
  BY WithStatusType DEF TypesInv, TypeOK, ReadInv, StoresTyped
<1>4. StoresTyped'
  <2>1. CASE Save(p) \/ LogIndexed(p)
    BY <1>2, <1>3, <2>1 DEF Save, LogIndexed, StoresTyped, Versions
  <2>2. CASE DeletePoints(p)
    BY <1>3, <2>2 DEF DeletePoints, StoresTyped, NoPoints
  <2>3. CASE MarkIndexing(p) \/ MarkIndexed(p)
    BY <1>3, <2>3 DEF MarkIndexing, MarkIndexed, StoresTyped, Statuses
  <2>4. CASE UpsertRow(p)
    <3>1. row' \in RowType
      BY <1>2, <1>3, <2>4 DEF UpsertRow, RowType, Statuses
    <3> QED BY <1>3, <2>4, <3>1 DEF UpsertRow, StoresTyped
  <2>5. CASE UpsertPoints(p)
    <3>1. points' \in [SectionIds -> 0..MaxVersion]
      BY <1>2, <1>3, <2>5 DEF UpsertPoints, Versions, StoresTyped
    <3> QED BY <1>3, <2>5, <3>1 DEF UpsertPoints, StoresTyped
  <2>6. CASE UpdateProcessed(p)
    <3>1. row' \in RowType
      BY <1>2, <1>3, <2>6 DEF UpdateProcessed, StoresTyped, RowType
    <3> QED BY <1>3, <2>6, <3>1 DEF UpdateProcessed, StoresTyped
  <2> QED BY <2>1, <2>2, <2>3, <2>4, <2>5, <2>6 DEF Index
<1>5. CASE LogIndexed(p)
  <2>1. EndRun(p) /\ UNCHANGED <<source, slowRuns>> /\ scanVars' = scanVars
    BY <1>5 DEF LogIndexed
  <2> QED BY <1>4, <2>1, EndTypes
<1>6. CASE ~LogIndexed(p)
  <2>1. /\ UNCHANGED <<source, job, content, scan, listed>>
        /\ \E step \in HasRead : Goto(p, step)
    BY <1>6 DEF Save, Index, DeletePoints, MarkIndexing, UpsertRow, UpsertPoints, MarkIndexed,
       UpdateProcessed, HasRead, IndexSteps, scanVars
  <2>2. \A step \in HasRead : step \in Steps
    BY DEF HasRead, Steps, ClaimedSteps
  <2> QED BY <1>1, <1>4, <2>1, <2>2, GoTypes, Zenon
<1> QED BY <1>5, <1>6

LEMMA RunStepTypes ==
    ASSUME TypesInv, NEW p \in Pods, Run(p)
    PROVE  TypesInv'
BY UnreadTypes, ReadTypes, IndexTypes DEF Run

LEMMA FaultTypes ==
    ASSUME TypesInv, NEW p \in Pods, Fault(p)
    PROVE  TypesInv'
<1>1. /\ UNCHANGED <<source, slowRuns>>
      /\ StoresTyped'
  BY FaultAssumption DEF Fault, Fail, FailAgain, Crash, TypesInv, TypeOK, ReadInv,
     StoresTyped, storeVars
<1>2. CASE Fail(p)
  <2>1. Goto(p, "fail_log") /\ UNCHANGED <<job, content, scan, listed>>
    BY <1>2 DEF Fail, scanVars
  <2>2. "fail_log" \in Steps /\ "fail_log" \notin HasRead
    BY DEF Steps, FailSteps, HasRead, IndexSteps
  <2> QED BY <1>1, <2>1, <2>2, GoTypes, Zenon
<1>3. CASE FailAgain(p) \/ Crash(p)
  BY <1>1, <1>3, EndTypes DEF FailAgain, Crash
<1> QED BY <1>2, <1>3 DEF Fault

LEMMA NextTypes == TypesInv /\ [Next]_vars => TypesInv'
<1> SUFFICES ASSUME TypesInv, [Next]_vars
             PROVE  TypesInv'
  OBVIOUS
<1>1. CASE UNCHANGED vars
  BY <1>1 DEF vars, TypesInv, TypeOK, ReadInv
<1>2. CASE Upload
  BY <1>2, UploadTypes
<1>3. CASE Age
  BY <1>3 DEF Age, TypesInv, TypeOK, ReadInv, RowType, runVars, scanVars
<1>4. ASSUME NEW p \in Pods, Scan(p)
      PROVE  TypesInv'
  BY <1>4, ScanTypes
<1>5. ASSUME NEW p \in Pods, Run(p)
      PROVE  TypesInv'
  BY <1>5, RunStepTypes
<1>6. ASSUME NEW p \in Pods, Fault(p)
      PROVE  TypesInv'
  BY <1>6, FaultTypes
<1> QED BY <1>1, <1>2, <1>3, <1>4, <1>5, <1>6 DEF Next

\* Every variable keeps its type, in whatever order pods scan, run, fail and
\* crash.
THEOREM Typing == Spec => []TypeOK
<1>1. TypesInv => TypeOK
  BY DEF TypesInv
<1> QED BY <1>1, InitTypes, NextTypes, PTL DEF Spec

-----------------------------------------------------------------------------
(* One run at a time past the claim.                                       *)

OwnsInv == \A p \in Pods : pc[p] \in ClaimedSteps => OwnInv(p)

\* A step that leaves the stores alone and takes no run from one claimed step
\* to another.
LEMMA StoresKept ==
    ASSUME IInv, UNCHANGED storeVars,
           \A p \in Pods : pc'[p] \in ClaimedSteps =>
              pc'[p] = pc[p] /\ content'[p] = content[p] /\ job'[p] = job[p]
    PROVE  IndexedMeansWhole' /\ OwnsInv'
<1>1. IndexedMeansWhole'
  BY DEF IInv, IndexedMeansWhole, Shows, storeVars
<1>2. ASSUME NEW p \in Pods, pc'[p] \in ClaimedSteps
      PROVE  OwnInv(p)'
  BY <1>2 DEF IInv, OwnInv, Shows, SectionCount, storeVars
<1> QED BY <1>1, <1>2 DEF OwnsInv

\* A step that marks the row failed, or lets it age.
LEMMA RowFails ==
    ASSUME IInv, UNCHANGED <<markdown, points>>, row' \in RowType,
           row'.st \in {"indexing", "failed"}, row.st # "none" =>
              row'.count = row.count /\ row'.mtime = row.mtime,
           \A p \in Pods : pc'[p] \in ClaimedSteps =>
              pc'[p] = pc[p] /\ content'[p] = content[p] /\ job'[p] = job[p]
    PROVE  IndexedMeansWhole' /\ OwnsInv'
<1>1. IndexedMeansWhole'
  BY DEF IndexedMeansWhole
<1>2. ASSUME NEW p \in Pods, pc'[p] \in ClaimedSteps
      PROVE  OwnInv(p)'
  BY <1>2 DEF IInv, OwnInv, Shows, SectionCount
<1> QED BY <1>1, <1>2 DEF OwnsInv

\* The steps of the one run past the claim.
LEMMA ClaimedStepKeeps ==
    ASSUME IInv, ExclusiveIngest', NEW p \in Pods, pc'[p] \in ClaimedSteps,
           OwnInv(p)', row'.st # "indexed"
    PROVE  IndexedMeansWhole' /\ OwnsInv'
BY DEF ExclusiveIngest, OwnsInv, IndexedMeansWhole

\* A run that has marked the row vouches for it itself.
LEMMA Vouches ==
    ASSUME TypesInv', NEW p \in Pods, pc'[p] \in {"processed", "log"}, OwnInv(p)'
    PROVE  IndexedMeansWhole'
<1>1. /\ pc'[p] \in HasRead /\ pc'[p] \in IndexSteps
  BY DEF HasRead, IndexSteps
<1>2. content'[p] \in 1..source' /\ job'[p] <= SecondOf(content'[p]) /\ source' \in 1..MaxVersion
  BY <1>1 DEF TypesInv, ReadInv, TypeOK, Versions
<1>3. /\ content'[p] \in Versions /\ SecondOf(content'[p]) \in Nat /\ job'[p] \in Nat
      /\ SecondOf(content'[p]) >= job'[p]
  <2>1. content'[p] \in Versions
    BY <1>2, VersionAssumption DEF Versions
  <2>2. job'[p] \in Nat
    BY Bounds DEF TypesInv, TypeOK
  <2> QED BY <1>2, <2>1, <2>2, Bounds
<1>4. /\ Shows(content[p])' /\ markdown' = content'[p]
      /\ row'.count = Cardinality(SectionsOf(content'[p])) /\ row'.mtime = job'[p]
  BY <1>1 DEF OwnInv, SectionCount
<1> QED BY <1>3, <1>4 DEF IndexedMeansWhole, Shows

LEMMA ClaimKeeps ==
    ASSUME IInv, ExclusiveIngest', NEW p \in Pods,
           ClaimSelect(p) \/ ClaimInsert(p) \/ ClaimUpdate(p)
    PROVE  IndexedMeansWhole' /\ OwnsInv'
<1> USE DEF ClaimedSteps, IndexSteps
<1>1. pc \in [Pods -> Steps] /\ row \in RowType
  BY DEF IInv, TypesInv, TypeOK
<1>2. CASE ClaimSelect(p)
  <2>1. \A q \in Pods : pc'[q] \in ClaimedSteps =>
           pc'[q] = pc[q] /\ content'[q] = content[q] /\ job'[q] = job[q]
    BY <1>1, <1>2 DEF ClaimSelect, EndRun, Goto, IInv, TypesInv, TypeOK
  <2> QED BY <1>2, <2>1, StoresKept DEF ClaimSelect
<1>3. CASE ClaimInsert(p) /\ row.st # "none"
  <2>1. \A q \in Pods : pc'[q] \in ClaimedSteps =>
           pc'[q] = pc[q] /\ content'[q] = content[q] /\ job'[q] = job[q]
    BY <1>1, <1>3 DEF ClaimInsert, Goto
  <2>2. UNCHANGED storeVars
    BY <1>3 DEF ClaimInsert, storeVars
  <2> QED BY <2>1, <2>2, StoresKept
<1>4. CASE ClaimUpdate(p) \/ (ClaimInsert(p) /\ row.st = "none")
  <2>1. row' = ClaimedRow(p) /\ pc' = [pc EXCEPT ![p] = "read"]
    BY <1>4 DEF ClaimUpdate, ClaimInsert, Goto
  <2>2. row'.st = "indexing" /\ pc'[p] = "read"
    BY <1>1, <2>1 DEF ClaimedRow, RowType
  <2>3. OwnInv(p)' /\ pc'[p] \in ClaimedSteps /\ row'.st # "indexed"
    BY <2>2 DEF OwnInv
  <2> HIDE DEF ClaimedSteps
  <2> QED BY <2>3, ClaimedStepKeeps
<1> QED BY <1>2, <1>3, <1>4

LEMMA ReadSaveKeeps ==
    ASSUME IInv, TypesInv', ExclusiveIngest', NEW p \in Pods, Read(p) \/ Save(p)
    PROVE  IndexedMeansWhole' /\ OwnsInv'
<1> USE DEF ClaimedSteps, IndexSteps
<1>1. /\ pc \in [Pods -> Steps] /\ content \in [Pods -> 0..MaxVersion]
      /\ markdown <= source /\ OwnInv(p) /\ row' = row
  BY DEF IInv, TypesInv, TypeOK, ReadInv, Read, Save, storeVars
<1>2. row.st # "none" /\ row.st # "indexed"
  BY <1>1 DEF OwnInv, Read, Save
<1>3. CASE Read(p)
  <2>1. pc'[p] = "save" /\ content'[p] = source /\ markdown' = markdown
    BY <1>1, <1>3 DEF Read, Goto, storeVars
  <2>2. OwnInv(p)'
    BY <1>1, <1>2, <2>1 DEF OwnInv
  <2> QED BY <1>1, <1>2, <2>1, <2>2, ClaimedStepKeeps
<1>4. CASE Save(p)
  <2>1. pc'[p] = "delete" /\ content'[p] = content[p] /\ markdown' = content[p]
    BY <1>1, <1>4 DEF Save, Goto
  <2>2. OwnInv(p)'
    BY <1>1, <1>2, <2>1 DEF OwnInv
  <2> QED BY <1>1, <1>2, <2>1, <2>2, ClaimedStepKeeps
<1> QED BY <1>3, <1>4

LEMMA WholeFromNothing ==
    \A c \in Versions :
        [s \in SectionIds |-> IF s \in SectionsOf(c) THEN c ELSE NoPoints[s]] = Whole(c)
BY DEF NoPoints, Whole

LEMMA IndexKeeps ==
    ASSUME IInv, TypesInv', ExclusiveIngest', NEW p \in Pods, Index(p)
    PROVE  IndexedMeansWhole' /\ OwnsInv'
<1>1. /\ pc \in [Pods -> Steps] /\ row \in RowType
      /\ pc[p] \in IndexSteps /\ OwnInv(p) /\ markdown = content[p]
  <2>1. pc[p] \in IndexSteps
    BY DEF Index, DeletePoints, MarkIndexing, UpsertRow, UpsertPoints, MarkIndexed,
       UpdateProcessed, LogIndexed, IndexSteps
  <2> QED BY <2>1 DEF IInv, TypesInv, TypeOK, OwnInv, ClaimedSteps
<1>2. content[p] \in Versions
  <2>1. content[p] \in 1..source /\ source \in 1..MaxVersion
    BY <1>1 DEF IInv, TypesInv, ReadInv, HasRead, TypeOK, Versions
  <2> QED BY <2>1, VersionAssumption DEF Versions
<1>3. CASE LogIndexed(p)
  BY <1>1, <1>3, StoresKept DEF LogIndexed, EndRun, Goto, ClaimedSteps, IndexSteps
<1> USE DEF ClaimedSteps, IndexSteps
<1>4. CASE DeletePoints(p)
  <2>1. pc'[p] = "mark" /\ points' = NoPoints /\ UNCHANGED <<row, markdown, content, job>>
    BY <1>1, <1>4 DEF DeletePoints, Goto
  <2>2. row'.st # "indexed" /\ OwnInv(p)'
    BY <1>1, <1>4, <2>1 DEF OwnInv, DeletePoints
  <2> QED BY <2>1, <2>2, ClaimedStepKeeps
<1>5. CASE MarkIndexing(p)
  <2>1. /\ pc[p] = "mark" /\ pc'[p] = "upsert" /\ row'.st = "indexing"
        /\ UNCHANGED <<points, markdown, content, job>>
    BY <1>1, <1>5 DEF MarkIndexing, Goto, WithStatus, RowType, NoRow
  <2>2. OwnInv(p)'
    BY <1>1, <2>1 DEF OwnInv
  <2> QED BY <2>1, <2>2, ClaimedStepKeeps
<1>6. CASE UpsertRow(p)
  <2>1. /\ pc[p] = "upsert" /\ pc'[p] = "points" /\ row'.st = "indexing"
        /\ row'.mtime = job[p] /\ row'.count = SectionCount(p)
        /\ UNCHANGED <<points, markdown, content, job>>
    BY <1>1, <1>6 DEF UpsertRow, Goto
  <2>2. OwnInv(p)'
    BY <1>1, <2>1 DEF OwnInv, SectionCount
  <2> QED BY <2>1, <2>2, ClaimedStepKeeps
<1>7. CASE UpsertPoints(p)
  <2>1. /\ pc[p] = "points" /\ pc'[p] = "indexed" /\ points = NoPoints
        /\ row.st # "indexed" /\ UNCHANGED <<row, markdown, content, job>>
    BY <1>1, <1>7 DEF UpsertPoints, Goto, OwnInv
  <2>2. points' = Whole(content[p])
    BY <1>2, <1>7, <2>1, WholeFromNothing DEF UpsertPoints
  <2>3. OwnInv(p)'
    BY <1>1, <2>1, <2>2 DEF OwnInv, SectionCount, Shows
  <2> QED BY <2>1, <2>3, ClaimedStepKeeps
<1>8. CASE MarkIndexed(p) \/ UpdateProcessed(p)
  <2>1. /\ pc[p] \in {"indexed", "processed"} /\ pc'[p] \in {"processed", "log"}
        /\ UNCHANGED <<points, markdown, content, job>>
    BY <1>1, <1>8 DEF MarkIndexed, UpdateProcessed, Goto
  <2>2. row.st # "none" /\ row.count = SectionCount(p) /\ row.mtime = job[p]
    BY <1>1, <2>1 DEF OwnInv
  <2>3. row'.st # "none" /\ row'.count = SectionCount(p) /\ row'.mtime = job[p]
    BY <1>1, <1>8, <2>2 DEF MarkIndexed, UpdateProcessed, WithStatus, RowType
  <2>4. OwnInv(p)'
    BY <1>1, <2>1, <2>3 DEF OwnInv, SectionCount, Shows
  <2>5. IndexedMeansWhole'
    BY <2>1, <2>4, Vouches
  <2> QED BY <2>1, <2>4, <2>5 DEF ExclusiveIngest, OwnsInv
<1> QED BY <1>3, <1>4, <1>5, <1>6, <1>7, <1>8 DEF Index

LEMMA MarkFailedKeeps ==
    ASSUME IInv, NEW p \in Pods, MarkFailed(p)
    PROVE  IndexedMeansWhole' /\ OwnsInv'
<1>1. /\ pc \in [Pods -> Steps] /\ row \in RowType /\ row' \in RowType
  BY WithStatusType DEF IInv, TypesInv, TypeOK, MarkFailed, Statuses
<1>2. /\ row'.st = "failed" /\ UNCHANGED <<markdown, points>>
      /\ row.st # "none" => row'.count = row.count /\ row'.mtime = row.mtime
  BY <1>1 DEF MarkFailed, WithStatus, RowType, NoRow
<1>3. \A q \in Pods : pc'[q] \in ClaimedSteps =>
         pc'[q] = pc[q] /\ content'[q] = content[q] /\ job'[q] = job[q]
  BY <1>1 DEF MarkFailed, EndRun, Goto, ClaimedSteps, IndexSteps
<1> QED BY <1>1, <1>2, <1>3, RowFails

LEMMA OthersKeep ==
    ASSUME IInv, NEW p \in Pods,
           Scan(p) \/ LogFailed(p) \/ Fail(p) \/ FailAgain(p) \/ Crash(p)
    PROVE  IndexedMeansWhole' /\ OwnsInv'
<1>1. UNCHANGED storeVars
  BY DEF Scan, ScanList, ScanDecide, ScanEnqueue, LogFailed, Fail, FailAgain, Crash
<1>2. /\ pc \in [Pods -> Steps] /\ job \in [Pods -> Seconds]
      /\ content \in [Pods -> 0..MaxVersion]
  BY DEF IInv, TypesInv, TypeOK
<1>3. ASSUME NEW q \in Pods, pc'[q] \in ClaimedSteps
      PROVE  pc'[q] = pc[q] /\ content'[q] = content[q] /\ job'[q] = job[q]
  <2> USE <1>2, <1>3 DEF ClaimedSteps, IndexSteps, Goto, EndRun
  <2>1. CASE Scan(p)
    BY <2>1 DEF Scan, ScanList, ScanDecide, ScanEnqueue, runVars
  <2>2. CASE LogFailed(p) \/ Fail(p)
    BY <2>2 DEF LogFailed, Fail
  <2>3. CASE FailAgain(p) \/ Crash(p)
    BY <2>3 DEF FailAgain, Crash
  <2> QED BY <2>1, <2>2, <2>3
<1> QED BY <1>1, <1>3, StoresKept

LEMMA InitIInv == Init => IInv
<1> SUFFICES ASSUME Init
             PROVE  IInv
  OBVIOUS
<1>1. IndexedMeansWhole /\ \A p \in Pods : pc[p] \notin ClaimedSteps
  BY DEF Init, NoRow, IndexedMeansWhole, ClaimedSteps, IndexSteps
<1> QED BY <1>1, InitTypes DEF IInv

LEMMA NextIInv ==
    ASSUME IInv, [Next]_vars, ExclusiveIngest'
    PROVE  IInv'
<1>1. TypesInv'
  BY NextTypes DEF IInv
<1>2. IndexedMeansWhole' /\ OwnsInv'
  <2>1. CASE UNCHANGED vars
    BY <2>1, StoresKept DEF vars, storeVars
  <2>2. CASE Upload
    BY <2>2, StoresKept DEF Upload, runVars
  <2>3. CASE Age
    <3>1. row \in RowType /\ row' \in RowType /\ row'.st = "indexing"
          /\ row'.count = row.count /\ row'.mtime = row.mtime
      BY <1>1, <2>3 DEF Age, IInv, TypesInv, TypeOK, RowType
    <3> QED BY <2>3, <3>1, RowFails DEF Age, runVars
  <2>4. ASSUME NEW p \in Pods, Scan(p) \/ Run(p) \/ Fault(p)
        PROVE  IndexedMeansWhole' /\ OwnsInv'
    BY <1>1, <2>4, ClaimKeeps, ReadSaveKeeps, IndexKeeps, MarkFailedKeeps, OthersKeep
       DEF Run, Fault
  <2> QED BY <2>1, <2>2, <2>3, <2>4 DEF Next
<1> QED BY <1>1, <1>2 DEF IInv, OwnsInv

LEMMA Invariance == Spec /\ []ExclusiveIngest => []IInv
BY InitIInv, NextIInv, PTL DEF Spec

\* As long as one run at a time is past the claim, a row that says "indexed"
\* vouches for index and markdown, whatever failed, crashed or was overwritten.
THEOREM Vouching == Spec /\ []ExclusiveIngest => []IndexedMeansWhole
<1>1. IInv => IndexedMeansWhole
  BY DEF IInv
<1> QED BY <1>1, Invariance, PTL

-----------------------------------------------------------------------------
(* The refinement of DocumentView.                                         *)

\* The points of a version are those of no other and not none at all.
LEMMA ShownIs ==
    ASSUME NEW shown, NEW v \in Versions, shown = Whole(v)
    PROVE  /\ shown # NoPoints
           /\ (CHOOSE u \in Versions : shown = Whole(u)) = v
<1>1. PICK s \in SectionIds : s \in SectionsOf(v)
  BY SectionAssumption
<1>2. shown[s] = v /\ v # 0
  BY <1>1, VersionAssumption DEF Whole, Versions
<1>3. shown # NoPoints
  BY <1>2 DEF NoPoints
<1>4. ASSUME NEW u \in Versions, shown = Whole(u)
      PROVE  u = v
  BY <1>2, <1>4 DEF Whole
<1> QED BY <1>3, <1>4

LEMMA InitView == Init => View!Init
BY DEF Init, View!Init, ShownVersion

LEMMA PublishView ==
    ASSUME IInv, IInv', NEW p \in Pods, UpsertPoints(p)
    PROVE  View!Publish
<1>1. /\ pc[p] = "points" /\ UNCHANGED <<source, markdown, content>>
      /\ pc'[p] = "indexed"
  BY DEF UpsertPoints, Goto, IInv, TypesInv, TypeOK
<1>2. points = NoPoints /\ markdown = content[p]
  BY <1>1 DEF IInv, OwnInv, ClaimedSteps, IndexSteps
<1>3. Shows(content[p])' /\ content'[p] \in Versions
  <2>1. content'[p] \in 1..source' /\ source' \in 1..MaxVersion
    BY <1>1 DEF IInv, TypesInv, ReadInv, HasRead, IndexSteps, TypeOK, Versions
  <2> QED BY <1>1, <2>1, VersionAssumption DEF IInv, OwnInv, ClaimedSteps, IndexSteps, Versions
<1>4. ShownVersion = 0
  BY <1>2 DEF ShownVersion
<1>5. ShownVersion' = content'[p]
  BY <1>3, ShownIs DEF ShownVersion, Shows
<1> QED BY <1>1, <1>2, <1>4, <1>5 DEF View!Publish

LEMMA StepView ==
    ASSUME IInv, IInv', [Next]_vars
    PROVE  [View!Next]_View!viewVars
<1>1. ASSUME UNCHANGED <<source, markdown, points>>
      PROVE  UNCHANGED View!viewVars
  BY <1>1 DEF View!viewVars, ShownVersion, Shows
<1>2. CASE UNCHANGED vars
  BY <1>1, <1>2 DEF vars
<1>3. CASE Upload
  <2>1. UNCHANGED ShownVersion
    BY <1>3 DEF Upload, storeVars, ShownVersion, Shows
  <2> QED BY <1>3, <2>1 DEF Upload, storeVars, View!Next, View!Upload
<1>4. CASE Age
  BY <1>1, <1>4 DEF Age
<1>5. ASSUME NEW p \in Pods, Scan(p) \/ Fault(p)
      PROVE  UNCHANGED View!viewVars
  BY <1>1, <1>5 DEF Scan, ScanList, ScanDecide, ScanEnqueue, Fault, Fail, FailAgain, Crash,
     storeVars
<1>6. ASSUME NEW p \in Pods, Run(p)
      PROVE  [View!Next]_View!viewVars
  <2>1. CASE Save(p)
    <3>1. pc[p] = "save" /\ markdown' = content[p] /\ UNCHANGED <<source, points>>
      BY <2>1 DEF Save
    <3>2. markdown <= content[p] /\ content[p] \in 1..source /\ markdown \in Nat
      BY <3>1, VersionAssumption DEF IInv, OwnInv, ClaimedSteps, TypesInv, TypeOK, ReadInv, HasRead
    <3>3. markdown' \in markdown..source
      BY <3>1, <3>2 DEF IInv, TypesInv, TypeOK, Versions
    <3>4. UNCHANGED ShownVersion
      BY <3>1 DEF ShownVersion, Shows
    <3> QED BY <3>1, <3>3, <3>4 DEF View!Next, View!Save
  <2>2. CASE DeletePoints(p)
    <3>1. points' = NoPoints /\ UNCHANGED <<source, markdown>>
      BY <2>2 DEF DeletePoints
    <3>2. ShownVersion' = 0
      BY <3>1 DEF ShownVersion, NoPoints
    <3> QED BY <3>1, <3>2 DEF View!Next, View!Hide
  <2>3. CASE UpsertPoints(p)
    BY <2>3, PublishView DEF View!Next
  <2>4. CASE ~(Save(p) \/ DeletePoints(p) \/ UpsertPoints(p))
    BY <1>1, <1>6, <2>4 DEF Run, Index, ClaimSelect, ClaimInsert, ClaimUpdate, Read,
       MarkIndexing, UpsertRow, MarkIndexed, UpdateProcessed, LogIndexed, LogFailed,
       MarkFailed, storeVars
  <2> QED BY <2>1, <2>2, <2>3, <2>4
<1> QED BY <1>2, <1>3, <1>4, <1>5, <1>6 DEF Next

\* As long as one run at a time is past the claim, readers see nothing of the
\* document or the sections of one version whole, whose markdown is the saved
\* one, and versions do not go back.
THEOREM Refinement == Spec /\ []ExclusiveIngest => ReadersSeeOneVersion
<1>1. Spec /\ []ExclusiveIngest => View!Init /\ [][View!Next]_View!viewVars
  BY InitView, StepView, Invariance, PTL DEF Spec
<1> QED BY <1>1 DEF ReadersSeeOneVersion, View!Spec

\* With a single pod both hold without any condition.
COROLLARY SinglePod ==
    ASSUME \A p, q \in Pods : p = q
    PROVE  Spec => []IndexedMeansWhole /\ ReadersSeeOneVersion
<1>1. ExclusiveIngest
  BY DEF ExclusiveIngest
<1> QED BY <1>1, Vouching, Refinement, PTL
=============================================================================
