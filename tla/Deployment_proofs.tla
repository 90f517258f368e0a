------------------------- MODULE Deployment_proofs --------------------------
(***************************************************************************)
(* Proofs about Deployment, for any replicas, documents and faults: which  *)
(* stores a container that gets requests has, and what can separate the    *)
(* rows from the index.                                                    *)
(***************************************************************************)
EXTENDS Deployment, TLAPS

Busy(p) == step[p] # "none"

\* Two runs that write the rows of the database have different documents, and
\* what such a run has claimed stays "indexing" to its end.  A split run has
\* put its document in split; a run that is about to mark one indexed has
\* written its sections, unless a split run has been at them.
RunInv ==
    /\ \A p \in Pods : Busy(p) /\ meta[p] = "sql" => row[doc[p]] = "indexing"
    /\ \A p, q \in Pods :
          /\ Busy(p) /\ meta[p] = "sql"
          /\ Busy(q) /\ meta[q] = "sql"
          /\ doc[p] = doc[q]
          => p = q
    /\ \A p \in Pods : Busy(p) /\ Splits(p) => doc[p] \in split
    /\ \A p \in Pods :
          step[p] = "mark" /\ meta[p] = "sql" => doc[p] \in points \cup split

ReadyInv ==
    \A p \in Pods : ready[p] => vector[p] = "qdrant" /\ meta[p] = "sql"

-----------------------------------------------------------------------------
(* Types.                                                                  *)

LEMMA InitTypes == Init => TypeOK
BY NoDocAssumption, MaxFaultsAssumption
   DEF Init, TypeOK, VarTypes, Coherent, NoRows, Backends, Statuses, Places,
       Starting, Steps

LEMMA StartTypes ==
    ASSUME TypeOK, NEW p \in Pods, Start(p)
    PROVE  TypeOK'
<1> USE DEF Goto, FallBack, BuildVector, Places, Starting, sharedVars, storeVars, runVars
<1>1. VarTypes'
  BY DEF TypeOK, VarTypes, Start, Migrate, ListCollections, CreateCollection,
         CreatePayloadIndex, BuildMetadata
<1>2. ASSUME NEW q \in Pods
      PROVE  Coherent(q)'
  <2> USE DEF TypeOK, VarTypes, Coherent
  <2>1. CASE Migrate(p)
    BY <2>1 DEF Migrate
  <2>2. CASE ListCollections(p)
    BY <2>2 DEF ListCollections
  <2>3. CASE CreateCollection(p)
    BY <2>3 DEF CreateCollection
  <2>4. CASE CreatePayloadIndex(p)
    BY <2>4 DEF CreatePayloadIndex
  <2>5. CASE BuildMetadata(p)
    BY <2>5 DEF BuildMetadata
  <2> QED BY <2>1, <2>2, <2>3, <2>4, <2>5 DEF Start
<1> QED BY <1>1, <1>2 DEF TypeOK

\* The end of a container, which two actions share.
LEMMA StopTypes ==
    ASSUME TypeOK, NEW p \in Pods, Stop(p), UNCHANGED <<up, sharedVars, split>>,
           faults' \in Nat, faults' <= MaxFaults
    PROVE  TypeOK'
<1> USE DEF TypeOK, VarTypes, Stop, Goto, sharedVars
<1>1. VarTypes'
  BY DEF Places, Starting, Steps, Statuses
<1>2. ASSUME NEW q \in Pods
      PROVE  Coherent(q)'
  BY DEF Coherent, NoRows
<1> QED BY <1>1, <1>2

\* One row of one container's file is written.
LEMMA FileTypes ==
    ASSUME NEW f \in [Pods -> [Docs -> Statuses]],
           NEW p \in Pods, NEW d \in Docs, NEW st \in Statuses
    PROVE  [f EXCEPT ![p][d] = st] \in [Pods -> [Docs -> Statuses]]
<1> DEFINE rows == [f[p] EXCEPT ![d] = st]
<1>1. rows \in [Docs -> Statuses]
  OBVIOUS
<1>2. [f EXCEPT ![p][d] = st] = [f EXCEPT ![p] = rows]
  OBVIOUS
<1> QED BY <1>1, <1>2

LEMMA IngestTypes ==
    ASSUME TypeOK, NEW p \in Pods, Ingest(p)
    PROVE  TypeOK'
<1> USE NoDocAssumption
    DEF Steps, Statuses, sharedVars, storeVars, Advance, EndRun, SetStatus
<1>1. VarTypes /\ Coherent(p)
  BY DEF TypeOK
<1>2. step[p] # "none" => doc[p] \in Docs
  BY <1>1 DEF VarTypes, Coherent
<1>3. VarTypes'
  <2> USE <1>1, <1>2 DEF VarTypes
  <2>1. ASSUME NEW d \in Docs, Claim(p, d)
        PROVE  VarTypes'
    <3>1. row' \in [Docs -> Statuses]
      BY <2>1 DEF Claim
    <3>2. local' \in [Pods -> [Docs -> Statuses]]
      <4>1. [local EXCEPT ![p][d] = "indexing"] \in [Pods -> [Docs -> Statuses]]
        BY FileTypes DEF Statuses
      <4> QED BY <2>1, <4>1 DEF Claim
    <3>3. /\ step' \in [Pods -> Steps] /\ doc' \in [Pods -> Docs \cup {NoDoc}]
          /\ split' \subseteq Docs
      BY <2>1 DEF Claim
    <3> QED BY <2>1, <3>1, <3>2, <3>3 DEF Claim
  <2>2. CASE DeleteSections(p)
    BY <2>2 DEF DeleteSections
  <2>3. CASE UpsertSections(p)
    BY <2>3 DEF UpsertSections, Mended
  <2>4. CASE MarkIndexed(p) \/ MarkFailed(p)
    <3>1. row' \in [Docs -> Statuses]
      BY <2>4 DEF MarkIndexed, MarkFailed
    <3>2. local' \in [Pods -> [Docs -> Statuses]]
      <4>1. doc[p] \in Docs
        BY <2>4 DEF MarkIndexed, MarkFailed
      <4>2. \A st \in {"indexed", "failed"} :
              [local EXCEPT ![p][doc[p]] = st] \in [Pods -> [Docs -> Statuses]]
        BY <4>1, FileTypes DEF Statuses
      <4> QED BY <2>4, <4>2 DEF MarkIndexed, MarkFailed
    <3> QED BY <2>4, <3>1, <3>2 DEF MarkIndexed, MarkFailed
  <2>5. CASE StepFails(p)
    BY <2>5 DEF StepFails
  <2> QED BY <2>1, <2>2, <2>3, <2>4, <2>5 DEF Ingest
<1>4. ASSUME NEW q \in Pods
      PROVE  Coherent(q)'
  <2> USE <1>1 DEF TypeOK, VarTypes, Coherent
  <2>1. ASSUME NEW d \in Docs, Claim(p, d)
        PROVE  Coherent(q)'
    BY <2>1 DEF Claim
  <2>2. CASE DeleteSections(p)
    BY <2>2 DEF DeleteSections
  <2>3. CASE UpsertSections(p)
    BY <2>3 DEF UpsertSections
  <2>4. CASE MarkIndexed(p)
    BY <2>4 DEF MarkIndexed
  <2>5. CASE StepFails(p)
    BY <2>5 DEF StepFails
  <2>6. CASE MarkFailed(p)
    BY <2>6 DEF MarkFailed
  <2> QED BY <2>1, <2>2, <2>3, <2>4, <2>5, <2>6 DEF Ingest
<1> QED BY <1>3, <1>4 DEF TypeOK

LEMMA StepTypes == TypeOK /\ [Next]_vars => TypeOK'
<1> SUFFICES ASSUME TypeOK, [Next]_vars
             PROVE  TypeOK'
  OBVIOUS
<1> USE DEF sharedVars, storeVars, runVars
<1>1. ASSUME NEW p \in Pods, Start(p)
      PROVE  TypeOK'
  BY <1>1, StartTypes
<1>2. ASSUME NEW p \in Pods, ReadinessProbe(p)
      PROVE  TypeOK'
  BY <1>2 DEF ReadinessProbe, TypeOK, VarTypes, Coherent
<1>3. ASSUME NEW p \in Pods, LivenessProbe(p)
      PROVE  TypeOK'
  BY <1>3, StopTypes DEF LivenessProbe, TypeOK, VarTypes
<1>4. ASSUME NEW p \in Pods, Ingest(p)
      PROVE  TypeOK'
  BY <1>4, IngestTypes
<1>5. ASSUME NEW p \in Pods, Crash(p)
      PROVE  TypeOK'
  <2>1. faults' \in Nat /\ faults' <= MaxFaults
    BY <1>5, MaxFaultsAssumption DEF Crash, TypeOK, VarTypes
  <2> QED BY <1>5, <2>1, StopTypes DEF Crash
<1>6. ASSUME NEW p \in Pods, RunRaises(p)
      PROVE  TypeOK'
  <2>1. VarTypes'
    BY <1>6, MaxFaultsAssumption DEF RunRaises, Advance, TypeOK, VarTypes, Steps
  <2>2. ASSUME NEW q \in Pods
        PROVE  Coherent(q)'
    BY <1>6 DEF RunRaises, Advance, TypeOK, VarTypes, Coherent
  <2> QED BY <2>1, <2>2 DEF TypeOK
<1>7. ASSUME NEW b \in Backends, Outage(b) \/ Recover(b)
      PROVE  TypeOK'
  <2>1. VarTypes'
    <3>1. up' \in [Backends -> BOOLEAN]
      BY <1>7 DEF Outage, Recover, TypeOK, VarTypes
    <3>2. faults' \in Nat /\ faults' <= MaxFaults
      BY <1>7, MaxFaultsAssumption DEF Outage, Recover, TypeOK, VarTypes
    <3> QED BY <1>7, <3>1, <3>2 DEF Outage, Recover, TypeOK, VarTypes
  <2>2. ASSUME NEW q \in Pods
        PROVE  Coherent(q)'
    BY <1>7 DEF Outage, Recover, TypeOK, VarTypes, Coherent
  <2> QED BY <2>1, <2>2 DEF TypeOK
<1>8. CASE UNCHANGED vars
  BY <1>8 DEF vars, TypeOK, VarTypes, Coherent
<1> QED BY <1>1, <1>2, <1>3, <1>4, <1>5, <1>6, <1>7, <1>8 DEF Next

\* Every variable keeps its type; a container has both stores exactly when it
\* serves, and a run exactly one document.
THEOREM Typing == Spec => []TypeOK
<1> QED BY InitTypes, StepTypes, PTL DEF Spec

-----------------------------------------------------------------------------
(* The Service.                                                            *)

LEMMA StepReady == TypeOK /\ ReadyInv /\ [Next]_vars => ReadyInv'
<1> SUFFICES ASSUME TypeOK, ReadyInv, [Next]_vars, NEW q \in Pods, ready'[q]
             PROVE  vector'[q] = "qdrant" /\ meta'[q] = "sql"
  BY DEF ReadyInv
<1> USE DEF TypeOK, VarTypes, ReadyInv, sharedVars, storeVars, runVars
\* A container that is ready serves, so that it builds no store.
<1>1. ASSUME NEW p \in Pods, Start(p)
      PROVE  vector'[q] = "qdrant" /\ meta'[q] = "sql"
  <2>1. ready[q] /\ q # p
    BY <1>1 DEF Coherent, Start, Migrate, ListCollections, CreateCollection,
                CreatePayloadIndex, BuildMetadata
  <2> QED BY <1>1, <2>1 DEF Start, Migrate, ListCollections, CreateCollection,
                CreatePayloadIndex, BuildMetadata, FallBack, BuildVector
<1>2. ASSUME NEW p \in Pods, ReadinessProbe(p)
      PROVE  vector'[q] = "qdrant" /\ meta'[q] = "sql"
  BY <1>2 DEF ReadinessProbe, Degraded, Coherent
<1>3. ASSUME NEW p \in Pods, LivenessProbe(p) \/ Crash(p)
      PROVE  vector'[q] = "qdrant" /\ meta'[q] = "sql"
  BY <1>3 DEF LivenessProbe, Crash, Stop
<1>4. ASSUME NEW p \in Pods, Ingest(p) \/ RunRaises(p)
      PROVE  vector'[q] = "qdrant" /\ meta'[q] = "sql"
  BY <1>4 DEF Ingest, RunRaises, Claim, DeleteSections, UpsertSections, MarkIndexed,
              StepFails, MarkFailed
<1>5. ASSUME NEW b \in Backends, Outage(b) \/ Recover(b)
      PROVE  vector'[q] = "qdrant" /\ meta'[q] = "sql"
  BY <1>5 DEF Outage, Recover
<1>6. CASE UNCHANGED vars
  BY <1>6 DEF vars
<1> QED BY <1>1, <1>2, <1>3, <1>4, <1>5, <1>6 DEF Next

\* Whichever replica the Service picks, it searches the index in Qdrant and
\* reports the rows of the database: no outage, lost creation race or restart
\* lets a container with a store of its own get a request.
THEOREM OneAnswer == Spec => []ServiceAnswersAlike
<1>1. Init => ReadyInv
  BY DEF Init, ReadyInv
<1>2. TypeOK /\ ReadyInv => ServiceAnswersAlike
  BY DEF TypeOK, VarTypes, ReadyInv, ServiceAnswersAlike, Searchable, Reported, StatusOf
<1> QED BY <1>1, <1>2, Typing, StepReady, PTL DEF Spec

-----------------------------------------------------------------------------
(* The index.                                                              *)

IndexInv == RunInv /\ OnlySplitRunsSeparate

\* Steps that touch neither the shared stores nor a run, but may end runs or
\* make them fail.
LEMMA RunsKept ==
    ASSUME TypeOK, IndexInv, points' = points, row' = row, split' = split,
           \A q \in Pods : Busy(q)' =>
               /\ Busy(q) /\ step'[q] \in {step[q], "fail"}
               /\ doc'[q] = doc[q] /\ vector'[q] = vector[q] /\ meta'[q] = meta[q]
    PROVE  IndexInv'
<1> USE DEF IndexInv, RunInv, Busy
<1>1. \A p \in Pods : Busy(p)' /\ meta'[p] = "sql" => row'[doc'[p]] = "indexing"
  OBVIOUS
<1>2. \A p, q \in Pods :
        Busy(p)' /\ meta'[p] = "sql" /\ Busy(q)' /\ meta'[q] = "sql" /\ doc'[p] = doc'[q]
        => p = q
  OBVIOUS
<1>3. \A p \in Pods : Busy(p)' /\ Splits(p)' => doc'[p] \in split'
  BY DEF Splits
<1>4. \A p \in Pods :
        step'[p] = "mark" /\ meta'[p] = "sql" => doc'[p] \in points' \cup split'
  OBVIOUS
<1>5. OnlySplitRunsSeparate'
  BY DEF OnlySplitRunsSeparate
<1> QED BY <1>1, <1>2, <1>3, <1>4, <1>5

LEMMA ClaimKeeps ==
    ASSUME TypeOK, IndexInv, NEW p \in Pods, NEW d \in Docs, Claim(p, d)
    PROVE  IndexInv'
<1> USE DEF TypeOK, VarTypes, Claim, IndexInv, RunInv, Busy
<1>1. /\ step'[p] = "delete" /\ doc'[p] = d
      /\ \A q \in Pods \ {p} : step'[q] = step[q] /\ doc'[q] = doc[q]
      /\ split \subseteq split'
      /\ meta[p] = "sql" => row'[d] = "indexing"
      /\ \A e \in Docs : row'[e] \in {row[e], "indexing"}
  BY DEF Steps, Statuses
<1>2. \A q \in Pods : Busy(q) => doc[q] \in Docs
  BY DEF Coherent
<1>3. \A q \in Pods : Busy(q)' /\ meta'[q] = "sql" => row'[doc'[q]] = "indexing"
  BY <1>1, <1>2
<1>4. \A q, r \in Pods :
        Busy(q)' /\ meta'[q] = "sql" /\ Busy(r)' /\ meta'[r] = "sql" /\ doc'[q] = doc'[r]
        => q = r
  BY <1>1 DEF Due, Taken, Running
<1>5. \A q \in Pods : Busy(q)' /\ Splits(q)' => doc'[q] \in split'
  BY <1>1 DEF Splits
<1>6. \A q \in Pods :
        step'[q] = "mark" /\ meta'[q] = "sql" => doc'[q] \in points' \cup split'
  BY <1>1
<1>7. OnlySplitRunsSeparate'
  BY <1>1 DEF OnlySplitRunsSeparate
<1> QED BY <1>3, <1>4, <1>5, <1>6, <1>7

\* What a run takes out of the index is either being ingested, according to
\* its row, or known to be split.
LEMMA DeleteKeeps ==
    ASSUME TypeOK, IndexInv, NEW p \in Pods, DeleteSections(p)
    PROVE  IndexInv'
<1> USE DEF TypeOK, VarTypes, IndexInv, RunInv, Busy
<1>1. /\ step[p] = "delete" /\ doc[p] \in Docs
      /\ step'[p] = "upsert" /\ \A q \in Pods \ {p} : step'[q] = step[q]
      /\ UNCHANGED <<row, vector, meta, doc, split>>
  BY DEF DeleteSections, Advance, Coherent
<1>2. \A e \in points : e \notin points' =>
        e = doc[p] /\ (doc[p] \in split \/ meta[p] = "sql")
  BY <1>1 DEF DeleteSections, Splits
<1>3. \A q \in Pods : Busy(q)' /\ meta'[q] = "sql" => row'[doc'[q]] = "indexing"
  BY <1>1
<1>4. \A q, r \in Pods :
        Busy(q)' /\ meta'[q] = "sql" /\ Busy(r)' /\ meta'[r] = "sql" /\ doc'[q] = doc'[r]
        => q = r
  BY <1>1
<1>5. \A q \in Pods : Busy(q)' /\ Splits(q)' => doc'[q] \in split'
  BY <1>1 DEF Splits
<1>6. \A q \in Pods :
        step'[q] = "mark" /\ meta'[q] = "sql" => doc'[q] \in points' \cup split'
  BY <1>1, <1>2
<1>7. OnlySplitRunsSeparate'
  BY <1>1, <1>2 DEF OnlySplitRunsSeparate
<1> QED BY <1>3, <1>4, <1>5, <1>6, <1>7

\* A document is mended only by sections that are in the index now.
LEMMA UpsertKeeps ==
    ASSUME TypeOK, IndexInv, NEW p \in Pods, UpsertSections(p)
    PROVE  IndexInv'
<1> USE DEF TypeOK, VarTypes, IndexInv, RunInv, Busy
<1>1. /\ step[p] = "upsert" /\ doc[p] \in Docs
      /\ step'[p] = "mark" /\ \A q \in Pods \ {p} : step'[q] = step[q]
      /\ UNCHANGED <<row, vector, meta, doc>>
      /\ points \subseteq points'
      /\ vector[p] = "qdrant" => doc[p] \in points'
  BY DEF UpsertSections, Advance, Coherent
<1>2. \A e \in split : e \notin split' =>
        /\ e = doc[p] /\ e \in points' /\ ~Splits(p)
        /\ \A q \in Pods : Splits(q) => ~Running(q, e)
  BY <1>1 DEF UpsertSections, Mended
<1>3. \A q \in Pods : Busy(q)' /\ meta'[q] = "sql" => row'[doc'[q]] = "indexing"
  BY <1>1
<1>4. \A q, r \in Pods :
        Busy(q)' /\ meta'[q] = "sql" /\ Busy(r)' /\ meta'[r] = "sql" /\ doc'[q] = doc'[r]
        => q = r
  BY <1>1
<1>5. \A q \in Pods : Busy(q)' /\ Splits(q)' => doc'[q] \in split'
  BY <1>1, <1>2 DEF Splits, Running
<1>6. \A q \in Pods :
        step'[q] = "mark" /\ meta'[q] = "sql" => doc'[q] \in points' \cup split'
  BY <1>1, <1>2, <1>5 DEF Splits
<1>7. OnlySplitRunsSeparate'
  BY <1>1, <1>2 DEF OnlySplitRunsSeparate
<1> QED BY <1>3, <1>4, <1>5, <1>6, <1>7

LEMMA EndKeeps ==
    ASSUME TypeOK, IndexInv, NEW p \in Pods, MarkIndexed(p) \/ MarkFailed(p)
    PROVE  IndexInv'
<1> USE DEF TypeOK, VarTypes, IndexInv, RunInv, Busy
<1>1. /\ step[p] \in {"mark", "fail"} /\ doc[p] \in Docs
      /\ step'[p] = "none" /\ \A q \in Pods \ {p} : step'[q] = step[q] /\ doc'[q] = doc[q]
      /\ UNCHANGED <<points, vector, meta, split>>
  BY DEF MarkIndexed, MarkFailed, EndRun, Coherent
<1>2. \A e \in Docs : row'[e] # row[e] =>
        /\ e = doc[p] /\ meta[p] = "sql"
        /\ row'[e] = "indexed" => step[p] = "mark"
  BY <1>1 DEF MarkIndexed, MarkFailed, SetStatus
<1>3. \A q \in Pods : Busy(q) => doc[q] \in Docs
  BY DEF Coherent
<1>4. \A q \in Pods : Busy(q)' /\ meta'[q] = "sql" => row'[doc'[q]] = "indexing"
  BY <1>1, <1>2, <1>3
<1>5. \A q, r \in Pods :
        Busy(q)' /\ meta'[q] = "sql" /\ Busy(r)' /\ meta'[r] = "sql" /\ doc'[q] = doc'[r]
        => q = r
  BY <1>1
<1>6. \A q \in Pods : Busy(q)' /\ Splits(q)' => doc'[q] \in split'
  BY <1>1 DEF Splits
<1>7. \A q \in Pods :
        step'[q] = "mark" /\ meta'[q] = "sql" => doc'[q] \in points' \cup split'
  BY <1>1
<1>8. OnlySplitRunsSeparate'
  BY <1>1, <1>2 DEF OnlySplitRunsSeparate
<1> QED BY <1>4, <1>5, <1>6, <1>7, <1>8

LEMMA StepIndex == TypeOK /\ IndexInv /\ [Next]_vars => IndexInv'
<1> SUFFICES ASSUME TypeOK, IndexInv, [Next]_vars
             PROVE  IndexInv'
  OBVIOUS
<1> USE DEF sharedVars, storeVars, runVars
<1>1. ASSUME NEW p \in Pods, Start(p)
      PROVE  IndexInv'
  <2>1. \A q \in Pods : Busy(q) => q # p
    BY <1>1 DEF Busy, TypeOK, Coherent, Start, Migrate, ListCollections,
                CreateCollection, CreatePayloadIndex, BuildMetadata
  <2>2. /\ UNCHANGED <<points, row, split, step, doc>>
        /\ \A q \in Pods \ {p} : vector'[q] = vector[q] /\ meta'[q] = meta[q]
    BY <1>1 DEF Start, Migrate, ListCollections, CreateCollection, CreatePayloadIndex,
                BuildMetadata, FallBack, BuildVector, TypeOK, VarTypes
  <2> QED BY <2>1, <2>2, RunsKept DEF Busy
<1>2. ASSUME NEW p \in Pods, ReadinessProbe(p)
      PROVE  IndexInv'
  BY <1>2, RunsKept DEF ReadinessProbe, Busy
<1>3. ASSUME NEW p \in Pods, LivenessProbe(p) \/ Crash(p)
      PROVE  IndexInv'
  <2>1. /\ UNCHANGED <<points, row, split>> /\ step'[p] = "none"
        /\ \A q \in Pods \ {p} :
              /\ step'[q] = step[q] /\ doc'[q] = doc[q]
              /\ vector'[q] = vector[q] /\ meta'[q] = meta[q]
    BY <1>3 DEF LivenessProbe, Crash, Stop, TypeOK, VarTypes
  <2> QED BY <2>1, RunsKept DEF Busy
<1>4. ASSUME NEW p \in Pods, StepFails(p) \/ RunRaises(p)
      PROVE  IndexInv'
  <2>1. /\ UNCHANGED <<points, row, split, doc, vector, meta>>
        /\ step[p] # "none" /\ step'[p] = "fail"
        /\ \A q \in Pods \ {p} : step'[q] = step[q]
    BY <1>4 DEF StepFails, RunRaises, Advance, TypeOK, VarTypes
  <2> QED BY <2>1, RunsKept DEF Busy
<1>5. ASSUME NEW p \in Pods, Ingest(p)
      PROVE  IndexInv'
  BY <1>4, <1>5, ClaimKeeps, DeleteKeeps, UpsertKeeps, EndKeeps DEF Ingest
<1>6. ASSUME NEW b \in Backends, Outage(b) \/ Recover(b)
      PROVE  IndexInv'
  BY <1>6, RunsKept DEF Outage, Recover, Busy
<1>7. CASE UNCHANGED vars
  BY <1>7, RunsKept DEF vars, Busy
<1> QED BY <1>1, <1>2, <1>3, <1>4, <1>5, <1>6, <1>7 DEF Next

\* A row that says "indexed" without sections in Qdrant takes a run of a pod
\* with one store of its own: outages, crashes, exceptions and lost creation
\* races between pods on the shared stores never separate them.
THEOREM IndexedAreFound == Spec => []OnlySplitRunsSeparate
<1>1. Init => IndexInv
  BY DEF Init, IndexInv, RunInv, Busy, OnlySplitRunsSeparate
<1>2. IndexInv => OnlySplitRunsSeparate
  BY DEF IndexInv
<1> QED BY <1>1, <1>2, Typing, StepIndex, PTL DEF Spec
=============================================================================
