----------------------------- MODULE Deployment -----------------------------
(***************************************************************************)
(* The replicas of the API, from container start to serving, and the       *)
(* stores they end up with: docker/entrypoint.sh migrates the database,    *)
(* build_container (app/bootstrap/container.py) builds the stores and      *)
(* takes an in-memory index or a local file where Qdrant or the database   *)
(* does not answer (utils/stores.py), GET /health tells (api/main.py), and *)
(* both probes of k8s/base/api-deployment.yaml ask it.  The background     *)
(* scanner runs in every replica, whatever its stores are (USE_S3 on).     *)
(*                                                                         *)
(* An ingest run is kept to the writes that tell the stores apart; the     *)
(* rest of it, the race of two claims and runs that outlast the stale      *)
(* limit are IngestLifecycle's: here a claim is one step, and a row left   *)
(* "indexing" is due once no run of it is left.  Objects do not change,    *)
(* and the AI provider is configured.                                      *)
(***************************************************************************)
EXTENDS Integers, FiniteSets

CONSTANTS
    Pods,           \* replicas
    Docs,           \* objects in the bucket
    NoDoc,
    MaxFaults       \* bound: outages, crashes and exceptions

ASSUME NoDocAssumption == NoDoc \notin Docs
ASSUME MaxFaultsAssumption == MaxFaults \in Nat

VARIABLES
    up,             \* does each backend answer?
    collection,     \* does the collection exist in Qdrant?
    points,         \* documents whose sections are in it
    row,            \* status of each document in the database
    at,             \* next step of each container: see Places
    vector, meta,   \* the stores of its container
    memory,         \* documents in its in-memory index
    local,          \* status of each document in its local file
    step, doc,      \* next step of its ingest run, and the document
    ready,          \* does the Service send requests to it?
    split,          \* history: see Splits
    faults

sharedVars == <<collection, points, row>>
storeVars == <<vector, meta, memory, local>>
runVars == <<step, doc, split>>
vars == <<up, sharedVars, at, storeVars, runVars, ready, faults>>

Backends == {"qdrant", "db"}
Statuses == {"none", "indexing", "indexed", "failed"}
Starting == {"migrate", "list", "create", "payload", "metadata"}
Places == Starting \cup {"serving"}
Steps == {"none", "delete", "upsert", "mark", "fail"}

Init ==
    /\ up \in [Backends -> BOOLEAN]
    /\ collection \in BOOLEAN
    /\ points = {}
    /\ row = [d \in Docs |-> "none"]
    /\ at = [p \in Pods |-> "migrate"]
    /\ vector = [p \in Pods |-> "none"]
    /\ meta = [p \in Pods |-> "none"]
    /\ memory = [p \in Pods |-> {}]
    /\ local = [p \in Pods |-> [d \in Docs |-> "none"]]
    /\ step = [p \in Pods |-> "none"]
    /\ doc = [p \in Pods |-> NoDoc]
    /\ ready = [p \in Pods |-> FALSE]
    /\ split = {}
    /\ faults = 0

-----------------------------------------------------------------------------
(* Start of a container.                                                   *)

Goto(p, place) == at' = [at EXCEPT ![p] = place]

\* Tried again while the database is down, and by the next container when the
\* attempts are used up.
Migrate(p) ==
    /\ at[p] = "migrate"
    /\ up["db"]
    /\ Goto(p, "list")
    /\ UNCHANGED <<up, sharedVars, storeVars, runVars, ready, faults>>

BuildVector(p, store) ==
    /\ vector' = [vector EXCEPT ![p] = store]
    /\ Goto(p, "metadata")

\* QdrantStore() raises.
FallBack(p) == BuildVector(p, "memory")

ListCollections(p) ==
    /\ at[p] = "list"
    /\ IF up["qdrant"]
       THEN Goto(p, IF collection THEN "payload" ELSE "create") /\ UNCHANGED vector
       ELSE FallBack(p)
    /\ UNCHANGED <<up, sharedVars, meta, memory, local, runVars, ready, faults>>

\* It also raises when another pod has created the collection since.
CreateCollection(p) ==
    /\ at[p] = "create"
    /\ IF up["qdrant"] /\ ~collection
       THEN collection' = TRUE /\ Goto(p, "payload") /\ UNCHANGED vector
       ELSE FallBack(p) /\ UNCHANGED collection
    /\ UNCHANGED <<up, points, row, meta, memory, local, runVars, ready, faults>>

CreatePayloadIndex(p) ==
    /\ at[p] = "payload"
    /\ IF up["qdrant"] THEN BuildVector(p, "qdrant") ELSE FallBack(p)
    /\ UNCHANGED <<up, sharedVars, meta, memory, local, runVars, ready, faults>>

BuildMetadata(p) ==
    /\ at[p] = "metadata"
    /\ meta' = [meta EXCEPT ![p] = IF up["db"] THEN "sql" ELSE "file"]
    /\ Goto(p, "serving")
    /\ UNCHANGED <<up, sharedVars, vector, memory, local, runVars, ready, faults>>

Start(p) ==
    \/ Migrate(p) \/ ListCollections(p) \/ CreateCollection(p)
    \/ CreatePayloadIndex(p) \/ BuildMetadata(p)

-----------------------------------------------------------------------------
(* GET /health and the probes.                                             *)

\* Slip: the warning of the vector store is not among the reasons.
DegradedByMetadata(p) == meta[p] = "file"

\* degraded_reasons is fixed when the container has been built.
Degraded(p) == vector[p] = "memory" \/ meta[p] = "file"

ReadinessProbe(p) ==
    /\ at[p] = "serving" /\ ~ready[p]
    /\ ~Degraded(p)
    /\ ready' = [ready EXCEPT ![p] = TRUE]
    /\ UNCHANGED <<up, sharedVars, at, storeVars, runVars, faults>>

\* Slip: the local file outlives its container.
StopKeepingFile(p) ==
    /\ Goto(p, "migrate")
    /\ vector' = [vector EXCEPT ![p] = "none"]
    /\ meta' = [meta EXCEPT ![p] = "none"]
    /\ memory' = [memory EXCEPT ![p] = {}]
    /\ step' = [step EXCEPT ![p] = "none"]
    /\ doc' = [doc EXCEPT ![p] = NoDoc]
    /\ ready' = [ready EXCEPT ![p] = FALSE]
    /\ UNCHANGED local

\* The container ends and another one takes its place; a run ends where it is.
Stop(p) ==
    /\ Goto(p, "migrate")
    /\ vector' = [vector EXCEPT ![p] = "none"]
    /\ meta' = [meta EXCEPT ![p] = "none"]
    /\ memory' = [memory EXCEPT ![p] = {}]
    /\ local' = [local EXCEPT ![p] = [d \in Docs |-> "none"]]
    /\ step' = [step EXCEPT ![p] = "none"]
    /\ doc' = [doc EXCEPT ![p] = NoDoc]
    /\ ready' = [ready EXCEPT ![p] = FALSE]

\* Slip: liveness asks for the metadata store only.
LivenessOfMetadata(p) ==
    /\ at[p] = "serving"
    /\ meta[p] = "file"
    /\ Stop(p)
    /\ UNCHANGED <<up, sharedVars, split, faults>>

\* A 503 fails the liveness probe too.
LivenessProbe(p) ==
    /\ at[p] = "serving"
    /\ Degraded(p)
    /\ Stop(p)
    /\ UNCHANGED <<up, sharedVars, split, faults>>

-----------------------------------------------------------------------------
(* Ingest runs of the background scanner.                                  *)

StatusOf(p, d) == IF meta[p] = "sql" THEN row[d] ELSE local[p][d]

RowsAnswer(p) == meta[p] = "sql" => up["db"]
IndexAnswers(p) == vector[p] = "qdrant" => up["qdrant"]

SetStatus(p, st) ==
    IF meta[p] = "sql"
    THEN row' = [row EXCEPT ![doc[p]] = st] /\ UNCHANGED local
    ELSE local' = [local EXCEPT ![p][doc[p]] = st] /\ UNCHANGED row

Running(p, d) == step[p] # "none" /\ doc[p] = d

\* Is a run that writes the same rows at work on d?
Taken(p, d) ==
    \E q \in Pods : Running(q, d) /\ (q = p \/ (meta[p] = "sql" /\ meta[q] = "sql"))

Due(p, d) == StatusOf(p, d) # "indexed" /\ ~Taken(p, d)

\* Exactly one of the two stores is the shared one: the rows and the index
\* that the pod writes do not belong together.
Splits(p) == (vector[p] = "qdrant") # (meta[p] = "sql")

\* Scan, claim.
Claim(p, d) ==
    /\ at[p] = "serving" /\ step[p] = "none"
    /\ RowsAnswer(p)
    /\ Due(p, d)
    /\ doc' = [doc EXCEPT ![p] = d]
    /\ step' = [step EXCEPT ![p] = "delete"]
    /\ IF meta[p] = "sql"
       THEN row' = [row EXCEPT ![d] = "indexing"] /\ UNCHANGED local
       ELSE local' = [local EXCEPT ![p][d] = "indexing"] /\ UNCHANGED row
    /\ split' = IF Splits(p) THEN split \cup {d} ELSE split
    /\ UNCHANGED <<up, collection, points, at, vector, meta, memory, ready, faults>>

Advance(p, s) == step' = [step EXCEPT ![p] = s] /\ UNCHANGED doc

EndRun(p) ==
    /\ step' = [step EXCEPT ![p] = "none"]
    /\ doc' = [doc EXCEPT ![p] = NoDoc]

DeleteSections(p) ==
    /\ step[p] = "delete" /\ IndexAnswers(p)
    /\ IF vector[p] = "qdrant"
       THEN points' = points \ {doc[p]} /\ UNCHANGED memory
       ELSE memory' = [memory EXCEPT ![p] = @ \ {doc[p]}] /\ UNCHANGED points
    /\ Advance(p, "upsert")
    /\ UNCHANGED <<up, collection, row, at, vector, meta, local, split, ready, faults>>

\* A shared run that finds no split run at work mends the document.
Mended(p) ==
    IF \E q \in Pods : Splits(q) /\ Running(q, doc[p]) THEN split
    ELSE IF Splits(p) \/ vector[p] # "qdrant" THEN split ELSE split \ {doc[p]}

\* Slip: sections that cannot be written are passed over.
UpsertIfAnswered(p) ==
    /\ step[p] = "upsert"
    /\ IF ~IndexAnswers(p) THEN UNCHANGED <<points, memory>>
       ELSE IF vector[p] = "qdrant"
       THEN points' = points \cup {doc[p]} /\ UNCHANGED memory
       ELSE memory' = [memory EXCEPT ![p] = @ \cup {doc[p]}] /\ UNCHANGED points
    /\ Advance(p, "mark")
    /\ split' = Mended(p)
    /\ UNCHANGED <<up, collection, row, at, vector, meta, local, ready, faults>>

UpsertSections(p) ==
    /\ step[p] = "upsert" /\ IndexAnswers(p)
    /\ IF vector[p] = "qdrant"
       THEN points' = points \cup {doc[p]} /\ UNCHANGED memory
       ELSE memory' = [memory EXCEPT ![p] = @ \cup {doc[p]}] /\ UNCHANGED points
    /\ Advance(p, "mark")
    /\ split' = Mended(p)
    /\ UNCHANGED <<up, collection, row, at, vector, meta, local, ready, faults>>

MarkIndexed(p) ==
    /\ step[p] = "mark" /\ RowsAnswer(p)
    /\ SetStatus(p, "indexed")
    /\ EndRun(p)
    /\ UNCHANGED <<up, collection, points, at, vector, meta, memory, split, ready, faults>>

\* A store does not answer.  index_sections reads the row before the delete
\* and writes it before the upsert, so that these two need the database as well.
StepFails(p) ==
    /\ step[p] \in {"delete", "upsert", "mark"}
    /\ ~RowsAnswer(p) \/ (step[p] # "mark" /\ ~IndexAnswers(p))
    /\ Advance(p, "fail")
    /\ UNCHANGED <<up, sharedVars, at, storeVars, split, ready, faults>>

\* The error path; it ends the run also when the rows do not answer.
MarkFailed(p) ==
    /\ step[p] = "fail"
    /\ IF RowsAnswer(p) THEN SetStatus(p, "failed") ELSE UNCHANGED <<row, local>>
    /\ EndRun(p)
    /\ UNCHANGED <<up, collection, points, at, vector, meta, memory, split, ready, faults>>

Ingest(p) ==
    \/ \E d \in Docs : Claim(p, d)
    \/ DeleteSections(p) \/ UpsertSections(p) \/ MarkIndexed(p)
    \/ StepFails(p) \/ MarkFailed(p)

-----------------------------------------------------------------------------
(* Faults.                                                                 *)

Outage(b) ==
    /\ up[b] /\ faults < MaxFaults
    /\ up' = [up EXCEPT ![b] = FALSE]
    /\ faults' = faults + 1
    /\ UNCHANGED <<sharedVars, at, storeVars, runVars, ready>>

\* What a backend has stored is on the volume that its StatefulSet claims
\* (k8s/base).  docs/RISKS.md:70 and docs/STATUS.md:35 say that the data of
\* Qdrant is lost with its pod.
Recover(b) ==
    /\ ~up[b]
    /\ up' = [up EXCEPT ![b] = TRUE]
    /\ UNCHANGED <<sharedVars, at, storeVars, runVars, ready, faults>>

\* Out of memory, a rollout, a lost node.
Crash(p) ==
    /\ at[p] # "migrate" /\ faults < MaxFaults
    /\ Stop(p)
    /\ faults' = faults + 1
    /\ UNCHANGED <<up, sharedVars, split>>

\* A step of a run raises for another reason: the provider, the bucket.
RunRaises(p) ==
    /\ step[p] \in {"delete", "upsert", "mark"} /\ faults < MaxFaults
    /\ Advance(p, "fail")
    /\ faults' = faults + 1
    /\ UNCHANGED <<up, sharedVars, at, storeVars, split, ready>>

Next ==
    \/ \E p \in Pods :
          \/ Start(p) \/ ReadinessProbe(p) \/ LivenessProbe(p) \/ Ingest(p)
          \/ Crash(p) \/ RunRaises(p)
    \/ \E b \in Backends : Outage(b) \/ Recover(b)

\* Containers start, probes are periodic, the scanner loop and its runs go on
\* (JobDispatcher), and an outage ends.  Faults are not owed.
Fairness ==
    /\ \A p \in Pods :
          /\ WF_vars(Start(p)) /\ WF_vars(Ingest(p))
          /\ WF_vars(ReadinessProbe(p)) /\ WF_vars(LivenessProbe(p))
    /\ \A b \in Backends : WF_vars(Recover(b))

Spec == Init /\ [][Next]_vars

FairSpec == Spec /\ Fairness

-----------------------------------------------------------------------------
(* Properties                                                              *)

VarTypes ==
    /\ up \in [Backends -> BOOLEAN] /\ collection \in BOOLEAN
    /\ points \subseteq Docs /\ row \in [Docs -> Statuses]
    /\ at \in [Pods -> Places]
    /\ vector \in [Pods -> {"none", "qdrant", "memory"}]
    /\ meta \in [Pods -> {"none", "sql", "file"}]
    /\ memory \in [Pods -> SUBSET Docs]
    /\ local \in [Pods -> [Docs -> Statuses]]
    /\ step \in [Pods -> Steps] /\ doc \in [Pods -> Docs \cup {NoDoc}]
    /\ ready \in [Pods -> BOOLEAN]
    /\ split \subseteq Docs
    /\ faults \in Nat /\ faults <= MaxFaults

NoRows == [d \in Docs |-> "none"]

\* A container has its stores and a run when it has come that far, and nothing
\* is left in a store that it does not use.
Coherent(p) ==
    /\ at[p] = "serving" <=> meta[p] # "none"
    /\ at[p] \in {"metadata", "serving"} <=> vector[p] # "none"
    /\ step[p] = "none" <=> doc[p] = NoDoc
    /\ step[p] # "none" => at[p] = "serving"
    /\ vector[p] # "memory" => memory[p] = {}
    /\ meta[p] # "file" => local[p] = NoRows

\* Type of every variable, and of the state of a container as a whole.
TypeOK == VarTypes /\ \A p \in Pods : Coherent(p)

\* What a search that pod p answers can find, and the statuses it reports.
Searchable(p) == IF vector[p] = "qdrant" THEN points ELSE memory[p]
Reported(p) == [d \in Docs |-> StatusOf(p, d)]

\* The Service answers alike whichever replica it picks: a container whose
\* stores are its own gets no request, through outages, lost creation races,
\* crashes and restarts.
ServiceAnswersAlike ==
    \A p \in Pods : ready[p] => Searchable(p) = points /\ Reported(p) = row

\* tests/general/test_e2e_s3_to_search.py:11 "Verify all documents indexed in
\* metadata store", then "RetrievalService.search() returns results from Qdrant":
\* once every replica serves from the shared stores and no run is at work, what
\* the rows call indexed has its sections in Qdrant.  If not, it stays like that
\* until the object is uploaded again: no scan finds the document due.  A pod that
\* fell back ingests although it is never ready, and breaks this.
IndexedIsSearchable ==
    (\A p \in Pods : ready[p] /\ step[p] = "none") =>
        \A d \in Docs : row[d] = "indexed" => d \in points

\* Nothing else separates rows and index, at any moment: outages between the
\* writes of a run, crashes, exceptions and lost creation races leave an indexed
\* row without sections only if a run of a pod with exactly one shared store has
\* been at work on the document and no run on both shared stores has mended it
\* since.
OnlySplitRunsSeparate ==
    \A d \in Docs : row[d] = "indexed" => d \in points \/ d \in split

\* When outages, crashes and exceptions stop, every replica serves from the
\* shared stores for ever, also one that started during an outage or lost the
\* race for the collection, and every document is marked indexed.
EventuallyServed ==
    /\ \A p \in Pods : <>[]ready[p]
    /\ \A d \in Docs : <>[](row[d] = "indexed")
=============================================================================
