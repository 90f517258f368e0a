------------------------- MODULE FileMetadataStore --------------------------
(***************************************************************************)
(* app/infrastructure/repositories/file_metadata_store.py, the store of a  *)
(* process with METADATA_STORE=file or without its database, under the     *)
(* ingest runs of that process.  Each operation reads a whole JSON file,   *)
(* changes it and writes it back: open("w") truncates the file before the  *)
(* text is written.  There is no lock; runs of different documents call    *)
(* the store from different threads.                                       *)
(*                                                                         *)
(* An action is one file operation.  A file that is empty, or whose text   *)
(* is not JSON, makes the next reader raise.  Of a row, the status.        *)
(***************************************************************************)
EXTENDS Integers, Sequences

CONSTANTS
    Workers,        \* ingest tasks: SCAN_MAX_WORKERS of them
    Docs,
    NoDoc,
    Empty,          \* a file truncated, or not yet written entirely
    Garbage,        \* a file with a text and the rest of a longer one
    NoContent,
    MaxRuns,        \* bound: runs per document
    MaxCrashes      \* bound: crashes of the process

Rows == [Docs -> {"none", "indexing", "indexed", "failed"}]
Entries == Docs \X {"indexed", "failed"}
Unreadable == {Empty, Garbage}

ASSUME NoDocAssumption == NoDoc \notin Docs
ASSUME BoundsAssumption == MaxRuns \in Nat /\ MaxCrashes \in Nat
ASSUME ContentAssumption ==
    \A c \in Unreadable \cup {NoContent} : c \notin Rows /\ c \notin Seq(Entries)

VARIABLES
    docsFile,       \* documents.json: a status per document, or unreadable
    jobsFile,       \* ingestion_jobs.json: the log, or unreadable
    doc,            \* the document each worker ingests
    step,           \* the store operation each worker is in: see Steps
    phase,          \* how far the operation is: see Phases
    loaded,         \* the content each worker has read
    outcome,        \* how the last run of each document ended
    finished,       \* log entries of the runs that ended, in their order
    runs,           \* runs of each document so far
    crashes

fileVars == <<docsFile, jobsFile>>
runVars == <<outcome, finished, runs>>
vars == <<docsFile, jobsFile, doc, step, phase, loaded, outcome, finished,
          runs, crashes>>

\* The operations of a run that raises nothing, in their order.
After ==
    [claim |-> "get", get |-> "indexing", indexing |-> "upsert", upsert |-> "indexed",
     indexed |-> "processed", processed |-> "log"]

\* After an exception the run writes "log failed" and "failed".
Steps == DOMAIN After \cup {"log", "log failed", "failed"}

Phases == {"call", "loaded", "truncated"}

Init ==
    /\ docsFile = [d \in Docs |-> "none"]
    /\ jobsFile = <<>>
    /\ doc = [w \in Workers |-> NoDoc]
    /\ step = [w \in Workers |-> "claim"]
    /\ phase = [w \in Workers |-> "call"]
    /\ loaded = [w \in Workers |-> NoContent]
    /\ outcome = [d \in Docs |-> "none"]
    /\ finished = <<>>
    /\ runs = [d \in Docs |-> 0]
    /\ crashes = 0

-----------------------------------------------------------------------------
(* One file                                                                *)

Logs(s) == s \in {"log", "log failed"}

File(s) == IF Logs(s) THEN jobsFile ELSE docsFile

SetFile(s, content) ==
    IF Logs(s)
    THEN jobsFile' = content /\ UNCHANGED docsFile
    ELSE docsFile' = content /\ UNCHANGED jobsFile

\* Slip: upsert comes with the final status, update_status with the first.
NewStatusSwapped(s, current) ==
    CASE s \in {"claim", "indexing", "indexed"} -> "indexing"
      [] s = "upsert" -> "indexed"
      [] s = "failed" -> "failed"
      [] s = "processed" -> current

\* Slip: update_processed sets a status of its own.
NewStatusProcessed(s, current) ==
    CASE s \in {"claim", "indexing", "upsert"} -> "indexing"
      [] OTHER -> s

\* update_processed rewrites the row with the status it has.
NewStatus(s, current) ==
    CASE s \in {"claim", "indexing", "upsert"} -> "indexing"
      [] s = "indexed" -> "indexed"
      [] s = "failed" -> "failed"
      [] s = "processed" -> current

\* The entry a run has in the log once it has been written.
Entry(s, d) == <<d, IF s = "log" THEN "indexed" ELSE "failed">>

\* Slip: writes back the row of the document alone.
ChangedAlone(s, d, content) ==
    IF Logs(s)
    THEN Append(content, Entry(s, d))
    ELSE [e \in Docs |-> IF e = d THEN NewStatus(s, content[d]) ELSE "none"]

\* What an operation makes of the content it has read.
Changed(s, d, content) ==
    IF Logs(s)
    THEN Append(content, Entry(s, d))
    ELSE [content EXCEPT ![d] = NewStatus(s, @)]

\* get_document never writes, update_processed only if there is a row.
ReadsOnly(s, d, content) ==
    \/ s = "get"
    \/ s = "processed" /\ content[d] = "none"

\* The text is written from the start of the file.  If another worker has
\* written since this one truncated it, a longer text sticks out at the end.
Overlaid(old, new) ==
    IF old \in {Empty, new} THEN {new} ELSE {new, Garbage}

-----------------------------------------------------------------------------
(* The course of a run                                                     *)

Running(d) == \E w \in Workers : doc[w] = d

Start(w, d) ==
    /\ doc[w] = NoDoc
    /\ ~Running(d)
    /\ runs[d] < MaxRuns
    /\ doc' = [doc EXCEPT ![w] = d]
    /\ step' = [step EXCEPT ![w] = "claim"]
    /\ outcome' = [outcome EXCEPT ![d] = "none"]
    /\ runs' = [runs EXCEPT ![d] = @ + 1]
    /\ UNCHANGED <<fileVars, phase, loaded, finished, crashes>>

\* The worker is free again; its document has the outcome o.
End(w, o) ==
    /\ doc' = [doc EXCEPT ![w] = NoDoc]
    /\ outcome' = [outcome EXCEPT ![doc[w]] = o]
    /\ UNCHANGED <<step, runs>>

Goto(w, s) ==
    /\ step' = [step EXCEPT ![w] = s]
    /\ UNCHANGED <<doc, outcome, runs>>

\* The operation has returned.
Return(w) ==
    CASE step[w] = "log" -> End(w, "indexed")
      [] step[w] = "failed" -> End(w, "failed")
      [] step[w] = "log failed" -> Goto(w, "failed")
      [] OTHER -> Goto(w, After[step[w]])

\* It has raised: the run's except clause, or the end if it raised there.
Raise(w) ==
    IF step[w] \in {"log failed", "failed"} THEN End(w, "none") ELSE Goto(w, "log failed")

Ready(w) == doc[w] # NoDoc /\ phase[w] = "call"

Load(w) ==
    /\ Ready(w)
    /\ File(step[w]) \notin Unreadable
    /\ ~ReadsOnly(step[w], doc[w], File(step[w]))
    /\ loaded' = [loaded EXCEPT ![w] = File(step[w])]
    /\ phase' = [phase EXCEPT ![w] = "loaded"]
    /\ UNCHANGED <<fileVars, doc, step, runVars, crashes>>

LoadOnly(w) ==
    /\ Ready(w)
    /\ File(step[w]) \notin Unreadable
    /\ ReadsOnly(step[w], doc[w], File(step[w]))
    /\ Return(w)
    /\ UNCHANGED <<fileVars, phase, loaded, finished, crashes>>

LoadFails(w) ==
    /\ Ready(w)
    /\ File(step[w]) \in Unreadable
    /\ Raise(w)
    /\ UNCHANGED <<fileVars, phase, loaded, finished, crashes>>

\* An earlier run left the row indexing and it is not stale yet.
ClaimRefused(w) ==
    /\ Ready(w)
    /\ step[w] = "claim"
    /\ docsFile \notin Unreadable
    /\ docsFile[doc[w]] = "indexing"
    /\ End(w, "none")
    /\ UNCHANGED <<fileVars, phase, loaded, finished, crashes>>

\* Something other than this store raises: a stage between the claim and the
\* index, delete_document before the row is written, or upsert_sections after it.
StageFails(w) ==
    /\ Ready(w)
    /\ step[w] \in {"get", "indexing", "indexed"}
    /\ Raise(w)
    /\ UNCHANGED <<fileVars, phase, loaded, finished, crashes>>

Truncate(w) ==
    /\ phase[w] = "loaded"
    /\ SetFile(step[w], Empty)
    /\ phase' = [phase EXCEPT ![w] = "truncated"]
    /\ UNCHANGED <<doc, step, loaded, runVars, crashes>>

Write(w) ==
    /\ phase[w] = "truncated"
    /\ \E content \in Overlaid(File(step[w]), Changed(step[w], doc[w], loaded[w])) :
           SetFile(step[w], content)
    /\ finished' = IF Logs(step[w]) THEN Append(finished, Entry(step[w], doc[w])) ELSE finished
    /\ Return(w)
    /\ phase' = [phase EXCEPT ![w] = "call"]
    /\ loaded' = [loaded EXCEPT ![w] = NoContent]
    /\ UNCHANGED crashes

\* The process dies and is started again; the files stay as they are.
Crash ==
    /\ crashes < MaxCrashes
    /\ crashes' = crashes + 1
    /\ doc' = [w \in Workers |-> NoDoc]
    /\ step' = [w \in Workers |-> "claim"]
    /\ phase' = [w \in Workers |-> "call"]
    /\ loaded' = [w \in Workers |-> NoContent]
    /\ UNCHANGED <<fileVars, runVars>>

Run(w) ==
    \/ \E d \in Docs : Start(w, d)
    \/ Load(w)
    \/ LoadOnly(w)
    \/ LoadFails(w)
    \/ ClaimRefused(w)
    \/ StageFails(w)
    \/ Truncate(w)
    \/ Write(w)

Next ==
    \/ \E w \in Workers : Run(w)
    \/ Crash

Spec == Init /\ [][Next]_vars

-----------------------------------------------------------------------------
(* Properties                                                              *)

\* Type of every variable; a worker in the middle of an operation holds the
\* content it has read.
TypeOK ==
    /\ docsFile \in Rows \cup Unreadable
    /\ jobsFile \in Seq(Entries) \cup Unreadable
    /\ doc \in [Workers -> Docs \cup {NoDoc}]
    /\ step \in [Workers -> Steps]
    /\ phase \in [Workers -> Phases]
    /\ loaded \in [Workers -> Rows \cup Seq(Entries) \cup {NoContent}]
    /\ \A w \in Workers : phase[w] = "call" <=> loaded[w] = NoContent
    /\ outcome \in [Docs -> {"none", "indexed", "failed"}]
    /\ finished \in Seq(Entries)
    /\ runs \in [Docs -> 0..MaxRuns]
    /\ crashes \in 0..MaxCrashes

\* No two operations on one file overlap: there is one worker, or the store is
\* given a lock.
Serial ==
    \A v, w \in Workers :
        /\ phase[v] # "call" /\ phase[w] # "call"
        /\ Logs(step[v]) <=> Logs(step[w])
        => v = w

AtRest == \A w \in Workers : doc[w] = NoDoc

\* Between runs a file that can be read tells the truth: every document has
\* the status with which its last run ended, and the log has an entry for
\* every run that ended, in order, also after a crash of the process during
\* the run of another document.
KeptWhileReadable ==
    AtRest =>
        /\ docsFile \notin Unreadable =>
               \A d \in Docs : outcome[d] # "none" => docsFile[d] = outcome[d]
        /\ jobsFile \notin Unreadable => jobsFile = finished

\* docs/TESTS.md: document status and job history are kept over many writes.
StatusAndHistoryKept ==
    AtRest =>
        /\ docsFile \notin Unreadable /\ jobsFile \notin Unreadable
        /\ \A d \in Docs : outcome[d] # "none" => docsFile[d] = outcome[d]
        /\ jobsFile = finished

\* What a reader would have found in a file before the write in progress.
Settled(file, logs) ==
    IF \E w \in Workers : phase[w] = "truncated" /\ Logs(step[w]) = logs
    THEN loaded[CHOOSE w \in Workers : phase[w] = "truncated" /\ Logs(step[w]) = logs]
    ELSE file

Store == INSTANCE MetadataStore
            WITH rows <- Settled(docsFile, FALSE), log <- Settled(jobsFile, TRUE)

Contents == <<Settled(docsFile, FALSE), Settled(jobsFile, TRUE)>>

\* As long as operations on one file do not overlap, the whole-file rewrites
\* implement the atomic store, except for the step in which the process dies:
\* no operation disturbs the row of another document or an earlier log entry,
\* also after a restart from what the crash has left.
AtomicStore ==
    Store!Init /\ [][crashes' = crashes => UNCHANGED Contents \/ Store!Next]_vars
=============================================================================
