--------------------------- MODULE MetadataStore ----------------------------
(***************************************************************************)
(* What ingest runs expect of a metadata store, as                         *)
(* app/infrastructure/repositories/memory_metadata_store.py has it: each   *)
(* operation changes the row of its document, or appends to the job log,   *)
(* in one step, and leaves everything else alone.  Of a row, the status.   *)
(***************************************************************************)
EXTENDS Sequences

CONSTANT Docs

VARIABLES
    rows,           \* status of each document, "none" if it has no row
    log             \* the job log

Statuses == {"indexing", "indexed", "failed"}

Init ==
    /\ rows = [d \in Docs |-> "none"]
    /\ log = <<>>

\* upsert and update_status.
SetStatus(d, s) ==
    /\ UNCHANGED log
    /\ rows' = [rows EXCEPT ![d] = s]

\* try_claim_ingest, when it returns True.
Claim(d) == SetStatus(d, "indexing")

RecordJob(d, s) ==
    /\ UNCHANGED rows
    /\ log' = Append(log, <<d, s>>)

Next ==
    \E d \in Docs :
        \/ Claim(d)
        \/ \E s \in Statuses : SetStatus(d, s) \/ RecordJob(d, s)

Spec == Init /\ [][Next]_<<rows, log>>
=============================================================================
