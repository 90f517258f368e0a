---------------------- MODULE FileMetadataStore_proofs -----------------------
(***************************************************************************)
(* Proofs about FileMetadataStore, for any workers, documents and bounds.  *)
(***************************************************************************)
EXTENDS FileMetadataStore, SequenceTheorems, TLAPS

Content(s) == IF Logs(s) THEN Seq(Entries) ELSE Rows

\* A worker in an operation has a document and holds a text of the file that
\* the operation rewrites; get_document is not such an operation.
TypesInv ==
    /\ TypeOK
    /\ \A w \in Workers : phase[w] # "call" =>
          doc[w] \in Docs /\ step[w] # "get" /\ loaded[w] \in Content(step[w])

RowsNow == Settled(docsFile, FALSE)
LogNow == Settled(jobsFile, TRUE)

\* A document has one run, and an operation has its file to itself.
OperationsInv ==
    /\ \A v, w \in Workers : doc[v] = doc[w] /\ doc[v] # NoDoc => v = w
    /\ \A w \in Workers :
          /\ phase[w] = "loaded" => File(step[w]) = loaded[w]
          /\ phase[w] = "truncated" => File(step[w]) = Empty

\* What is in the files, or was before the write in progress, is what the runs
\* have done: a run past "indexed" has left that status, one that has ended has
\* left its outcome, and the log is complete.
StoreInv ==
    /\ \A d \in Docs : outcome[d] # "none" =>
          ~Running(d) /\ (RowsNow \notin Unreadable => RowsNow[d] = outcome[d])
    /\ \A w \in Workers : doc[w] \in Docs /\ step[w] \in {"processed", "log"} =>
          (RowsNow \notin Unreadable => RowsNow[doc[w]] = "indexed")
    /\ LogNow \notin Unreadable => LogNow = finished

IInv == TypesInv /\ OperationsInv /\ StoreInv

-----------------------------------------------------------------------------
(* The course of a run                                                     *)

LEMMA StepsAre ==
    Steps = {"claim", "get", "indexing", "upsert", "indexed", "processed", "log",
             "log failed", "failed"}
BY DEF Steps, After

LEMMA Course ==
    /\ After["claim"] = "get"
    /\ After["get"] = "indexing"
    /\ After["indexing"] = "upsert"
    /\ After["upsert"] = "indexed"
    /\ After["indexed"] = "processed"
    /\ After["processed"] = "log"
BY DEF After

\* What the worker does when its operation has returned.
LEMMA Returns ==
    ASSUME TypeOK, NEW w \in Workers, Return(w)
    PROVE  \/ step[w] = "log" /\ End(w, "indexed")
           \/ step[w] = "failed" /\ End(w, "failed")
           \/ step[w] = "log failed" /\ Goto(w, "failed")
           \/ step[w] = "indexed" /\ Goto(w, "processed")
           \/ step[w] = "processed" /\ Goto(w, "log")
           \/ step[w] \in {"claim", "get", "indexing", "upsert"}
              /\ \E s \in {"get", "indexing", "upsert", "indexed"} : Goto(w, s)
<1>1. step[w] \in Steps
  BY DEF TypeOK
<1> QED BY <1>1, StepsAre, Course DEF Return

LEMMA Raises ==
    ASSUME NEW w \in Workers, Raise(w)
    PROVE  End(w, "none") \/ Goto(w, "log failed")
BY DEF Raise

\* A worker between two operations ends its run or goes on to another one.
LEMMA RunTypes ==
    ASSUME TypesInv, NEW w \in Workers, doc[w] \in Docs,
           \/ \E o \in {"none", "indexed", "failed"} : End(w, o)
           \/ \E s \in Steps : Goto(w, s),
           phase' = [phase EXCEPT ![w] = "call"],
           loaded' = [loaded EXCEPT ![w] = NoContent],
           docsFile' \in Rows \cup Unreadable,
           jobsFile' \in Seq(Entries) \cup Unreadable,
           finished' \in Seq(Entries), crashes' = crashes
    PROVE  TypesInv'
<1>1. /\ doc' \in [Workers -> Docs \cup {NoDoc}]
      /\ step' \in [Workers -> Steps]
      /\ outcome' \in [Docs -> {"none", "indexed", "failed"}]
      /\ runs' = runs
      /\ \A v \in Workers \ {w} : doc'[v] = doc[v] /\ step'[v] = step[v]
  BY DEF TypesInv, TypeOK, End, Goto
<1>2. /\ phase' \in [Workers -> Phases]
      /\ loaded' \in [Workers -> Rows \cup Seq(Entries) \cup {NoContent}]
      /\ phase'[w] = "call" /\ loaded'[w] = NoContent
      /\ \A v \in Workers \ {w} : phase'[v] = phase[v] /\ loaded'[v] = loaded[v]
  BY DEF TypesInv, TypeOK, Phases
<1>3. \A v \in Workers : phase'[v] = "call" <=> loaded'[v] = NoContent
  BY <1>2 DEF TypesInv, TypeOK
<1>4. \A v \in Workers : phase'[v] # "call" =>
          doc'[v] \in Docs /\ step'[v] # "get" /\ loaded'[v] \in Content(step'[v])
  BY <1>1, <1>2 DEF TypesInv
<1>5. TypeOK'
  BY <1>1, <1>2, <1>3 DEF TypesInv, TypeOK
<1>6. \A s : Content(s)' = Content(s)
  BY DEF Content
<1> QED BY <1>4, <1>5, <1>6 DEF TypesInv

\* A worker between two operations holds nothing.
LEMMA Holds ==
    ASSUME TypesInv, NEW w \in Workers, phase[w] = "call"
    PROVE  phase = [phase EXCEPT ![w] = "call"] /\ loaded = [loaded EXCEPT ![w] = NoContent]
BY DEF TypesInv, TypeOK

\* What a worker writes back is a text of the same file.
LEMMA ChangedType ==
    ASSUME TypesInv, NEW w \in Workers, phase[w] # "call"
    PROVE  /\ Changed(step[w], doc[w], loaded[w]) \in Content(step[w])
           /\ Logs(step[w]) => Entry(step[w], doc[w]) \in Entries
<1>1. /\ doc[w] \in Docs /\ step[w] # "get" /\ loaded[w] \in Content(step[w])
      /\ step[w] \in Steps
  BY DEF TypesInv, TypeOK
<1>2. Entry(step[w], doc[w]) \in Entries
  BY <1>1 DEF Entry, Entries
<1>3. CASE Logs(step[w])
  <2>1. loaded[w] \in Seq(Entries)
    BY <1>1, <1>3 DEF Content
  <2>2. Append(loaded[w], Entry(step[w], doc[w])) \in Seq(Entries)
    BY <1>2, <2>1
  <2> QED BY <1>2, <1>3, <2>2 DEF Changed, Content
<1>4. CASE ~Logs(step[w])
  <2>1. loaded[w] \in Rows
    BY <1>1, <1>4 DEF Content
  <2>2. NewStatus(step[w], loaded[w][doc[w]]) \in {"none", "indexing", "indexed", "failed"}
    BY <1>1, <1>4, <2>1, StepsAre DEF NewStatus, Logs, Rows
  <2>3. [loaded[w] EXCEPT ![doc[w]] = NewStatus(step[w], loaded[w][doc[w]])] \in Rows
    BY <2>1, <2>2 DEF Rows
  <2> QED BY <1>4, <2>3 DEF Changed, Content
<1> QED BY <1>3, <1>4

LEMMA RunStepTypes ==
    ASSUME TypesInv, NEW w \in Workers, Run(w)
    PROVE  TypesInv'
<1> USE DEF TypesInv, TypeOK
<1>0. /\ NoDoc \notin Docs
      /\ \A s : Content(s)' = Content(s)
      /\ {"claim", "get", "indexing", "upsert", "indexed", "log failed", "failed"} \subseteq Steps
      /\ {"processed", "log"} \subseteq Steps
  BY NoDocAssumption, StepsAre DEF Content
<1>1. ASSUME NEW d \in Docs, Start(w, d)
      PROVE  TypesInv'
  <2>1. /\ doc' = [doc EXCEPT ![w] = d] /\ step' = [step EXCEPT ![w] = "claim"]
        /\ phase' = phase /\ loaded' = loaded /\ phase[w] = "call"
        /\ docsFile' = docsFile /\ jobsFile' = jobsFile
        /\ finished' = finished /\ crashes' = crashes
    BY <1>0, <1>1 DEF Start, fileVars
  <2>2. runs' \in [Docs -> 0..MaxRuns] /\ outcome' \in [Docs -> {"none", "indexed", "failed"}]
    BY <1>1, BoundsAssumption DEF Start
  <2>3. \A v \in Workers : phase'[v] # "call" =>
          doc'[v] \in Docs /\ step'[v] # "get" /\ loaded'[v] \in Content(step'[v])
    BY <2>1
  <2> QED BY <1>0, <2>1, <2>2, <2>3
<1>2. CASE Load(w)
  <2>1. /\ doc' = doc /\ step' = step /\ docsFile' = docsFile /\ jobsFile' = jobsFile
        /\ outcome' = outcome /\ runs' = runs /\ finished' = finished /\ crashes' = crashes
        /\ phase' = [phase EXCEPT ![w] = "loaded"]
        /\ loaded' = [loaded EXCEPT ![w] = File(step[w])]
    BY <1>2 DEF Load, fileVars, runVars
  <2>2. doc[w] \in Docs /\ step[w] # "get"
    BY <1>2 DEF Load, Ready, ReadsOnly
  <2>3. File(step[w]) \in Content(step[w]) /\ File(step[w]) # NoContent
    BY <1>2, ContentAssumption DEF Load, File, Content
  <2>4. File(step[w]) \in Rows \cup Seq(Entries)
    BY <2>3 DEF Content
  <2>5. /\ phase' \in [Workers -> Phases]
        /\ loaded' \in [Workers -> Rows \cup Seq(Entries) \cup {NoContent}]
    BY <2>1, <2>4 DEF Phases
  <2>6. \A v \in Workers : phase'[v] = "call" <=> loaded'[v] = NoContent
    BY <2>1, <2>3
  <2>7. \A v \in Workers : phase'[v] # "call" =>
          doc'[v] \in Docs /\ step'[v] # "get" /\ loaded'[v] \in Content(step'[v])
    BY <2>1, <2>2, <2>3
  <2> QED BY <1>0, <2>1, <2>5, <2>6, <2>7
<1>3. ASSUME Ready(w), Return(w) \/ Raise(w) \/ End(w, "none"),
             UNCHANGED <<fileVars, phase, loaded, finished, crashes>>
      PROVE  TypesInv'
  <2>1. doc[w] \in Docs /\ phase[w] = "call"
    BY <1>3 DEF Ready
  <2>2. \/ \E o \in {"none", "indexed", "failed"} : End(w, o)
        \/ \E s \in Steps : Goto(w, s)
    BY <1>0, <1>3, Returns, Raises
  <2>3. /\ phase' = [phase EXCEPT ![w] = "call"] /\ loaded' = [loaded EXCEPT ![w] = NoContent]
    BY <1>3, <2>1, Holds
  <2> QED BY <1>3, <2>1, <2>2, <2>3, RunTypes DEF fileVars
<1>4. CASE LoadOnly(w) \/ LoadFails(w) \/ ClaimRefused(w) \/ StageFails(w)
  BY <1>3, <1>4 DEF LoadOnly, LoadFails, ClaimRefused, StageFails
<1>5. CASE Truncate(w)
  <2>1. /\ doc' = doc /\ step' = step /\ loaded' = loaded
        /\ outcome' = outcome /\ runs' = runs /\ finished' = finished /\ crashes' = crashes
        /\ phase' = [phase EXCEPT ![w] = "truncated"] /\ phase[w] = "loaded"
    BY <1>5 DEF Truncate, runVars
  <2>2. docsFile' \in Rows \cup Unreadable /\ jobsFile' \in Seq(Entries) \cup Unreadable
    BY <1>5 DEF Truncate, SetFile, Unreadable
  <2> QED BY <1>0, <2>1, <2>2 DEF Phases
<1>6. CASE Write(w)
  <2>1. /\ phase[w] = "truncated" /\ Return(w) /\ crashes' = crashes
        /\ phase' = [phase EXCEPT ![w] = "call"]
        /\ loaded' = [loaded EXCEPT ![w] = NoContent]
    BY <1>6 DEF Write
  <2>2. \/ \E o \in {"none", "indexed", "failed"} : End(w, o)
        \/ \E s \in Steps : Goto(w, s)
    BY <1>0, <2>1, Returns
  <2>3. PICK c \in Overlaid(File(step[w]), Changed(step[w], doc[w], loaded[w])) :
          SetFile(step[w], c)
    BY <1>6 DEF Write
  <2>4. c \in Content(step[w]) \cup Unreadable
    BY <2>1, <2>3, ChangedType DEF Overlaid, Unreadable
  <2>5. docsFile' \in Rows \cup Unreadable /\ jobsFile' \in Seq(Entries) \cup Unreadable
    BY <2>3, <2>4 DEF SetFile, Content
  <2>6. finished' \in Seq(Entries)
    BY <1>6, <2>1, ChangedType, AppendProperties DEF Write
  <2> QED BY <2>1, <2>2, <2>5, <2>6, RunTypes
<1> QED BY <1>1, <1>2, <1>4, <1>5, <1>6 DEF Run

LEMMA CrashTypes == TypesInv /\ Crash => TypesInv'
<1> SUFFICES ASSUME TypesInv, Crash
             PROVE  TypesInv'
  OBVIOUS
<1> USE DEF TypesInv, TypeOK
<1>1. /\ docsFile' = docsFile /\ jobsFile' = jobsFile /\ outcome' = outcome
      /\ finished' = finished /\ runs' = runs
      /\ crashes' \in 0..MaxCrashes
  BY BoundsAssumption DEF Crash, fileVars, runVars
<1>2. /\ doc' = [w \in Workers |-> NoDoc] /\ step' = [w \in Workers |-> "claim"]
      /\ phase' = [w \in Workers |-> "call"] /\ loaded' = [w \in Workers |-> NoContent]
  BY DEF Crash
<1> QED BY <1>1, <1>2, StepsAre DEF Phases

LEMMA NextTypes == TypesInv /\ [Next]_vars => TypesInv'
<1>1. TypesInv /\ UNCHANGED vars => TypesInv'
  BY DEF vars, TypesInv, TypeOK, Content
<1> QED BY <1>1, RunStepTypes, CrashTypes DEF Next

LEMMA InitTypes == Init => TypesInv
<1> SUFFICES ASSUME Init
             PROVE  TypesInv
  OBVIOUS
<1>1. docsFile \in Rows /\ jobsFile \in Seq(Entries) /\ finished \in Seq(Entries)
  BY EmptySeq DEF Init, Rows
<1>2. /\ doc = [w \in Workers |-> NoDoc] /\ step = [w \in Workers |-> "claim"]
      /\ phase = [w \in Workers |-> "call"] /\ loaded = [w \in Workers |-> NoContent]
  BY DEF Init
<1>3. outcome \in [Docs -> {"none", "indexed", "failed"}]
  BY DEF Init
<1>4. runs \in [Docs -> 0..MaxRuns] /\ crashes \in 0..MaxCrashes
  BY BoundsAssumption DEF Init
<1> QED BY <1>1, <1>2, <1>3, <1>4, StepsAre DEF TypesInv, TypeOK, Phases

\* Every variable keeps its type, whatever the workers do to each other's
\* files and wherever a crash interrupts them.
THEOREM Typing == Spec => []TypeOK
<1>1. TypesInv => TypeOK
  BY DEF TypesInv
<1> QED BY <1>1, InitTypes, NextTypes, PTL DEF Spec

-----------------------------------------------------------------------------
(* What is in a file, or was before the write in progress.                 *)

TruncatedDocs == {w \in Workers : phase[w] = "truncated" /\ ~Logs(step[w])}
TruncatedJobs == {w \in Workers : phase[w] = "truncated" /\ Logs(step[w])}

SettledFacts ==
    Serial =>
        /\ \A w \in TruncatedDocs : RowsNow = loaded[w]
        /\ TruncatedDocs = {} => RowsNow = docsFile
        /\ \A w \in TruncatedJobs : LogNow = loaded[w]
        /\ TruncatedJobs = {} => LogNow = jobsFile

LEMMA SettledHolds == SettledFacts
<1> SUFFICES ASSUME Serial
             PROVE  /\ \A w \in TruncatedDocs : RowsNow = loaded[w]
                    /\ TruncatedDocs = {} => RowsNow = docsFile
                    /\ \A w \in TruncatedJobs : LogNow = loaded[w]
                    /\ TruncatedJobs = {} => LogNow = jobsFile
  BY DEF SettledFacts
<1>1. \A s : Logs(s) \in BOOLEAN
  BY DEF Logs
<1>2. ASSUME NEW w \in TruncatedDocs
      PROVE  RowsNow = loaded[w]
  <2>1. /\ w \in Workers /\ phase[w] = "truncated" /\ Logs(step[w]) = FALSE
        /\ \A v \in Workers : phase[v] = "truncated" /\ Logs(step[v]) = FALSE => v = w
    BY <1>1, <1>2 DEF TruncatedDocs, Serial
  <2>2. (CHOOSE v \in Workers : phase[v] = "truncated" /\ Logs(step[v]) = FALSE) = w
    BY <2>1
  <2> QED BY <2>1, <2>2 DEF RowsNow, Settled
<1>3. ASSUME TruncatedDocs = {}
      PROVE  RowsNow = docsFile
  <2>1. ~\E v \in Workers : phase[v] = "truncated" /\ Logs(step[v]) = FALSE
    BY <1>3 DEF TruncatedDocs
  <2> QED BY <2>1 DEF RowsNow, Settled
<1>4. ASSUME NEW w \in TruncatedJobs
      PROVE  LogNow = loaded[w]
  <2>1. /\ w \in Workers /\ phase[w] = "truncated" /\ Logs(step[w]) = TRUE
        /\ \A v \in Workers : phase[v] = "truncated" /\ Logs(step[v]) = TRUE => v = w
    BY <1>1, <1>4 DEF TruncatedJobs, Serial
  <2>2. (CHOOSE v \in Workers : phase[v] = "truncated" /\ Logs(step[v]) = TRUE) = w
    BY <2>1
  <2> QED BY <2>1, <2>2 DEF LogNow, Settled
<1>5. ASSUME TruncatedJobs = {}
      PROVE  LogNow = jobsFile
  <2>1. ~\E v \in Workers : phase[v] = "truncated" /\ Logs(step[v]) = TRUE
    BY <1>1, <1>5 DEF TruncatedJobs
  <2> QED BY <2>1 DEF LogNow, Settled
<1> QED BY <1>2, <1>3, <1>4, <1>5

LEMMA SettledHoldsNext == SettledFacts'
BY SettledHolds, PTL

\* An action that leaves a file and the write in progress on it alone.
LEMMA RowsStay ==
    ASSUME Serial, Serial', docsFile' = docsFile, TruncatedDocs' = TruncatedDocs,
           \A w \in TruncatedDocs : loaded'[w] = loaded[w]
    PROVE  RowsNow' = RowsNow
<1>1. CASE TruncatedDocs = {}
  BY <1>1, SettledHolds, SettledHoldsNext DEF SettledFacts
<1>2. CASE TruncatedDocs # {}
  BY <1>2, SettledHolds, SettledHoldsNext DEF SettledFacts
<1> QED BY <1>1, <1>2

LEMMA LogStays ==
    ASSUME Serial, Serial', jobsFile' = jobsFile, TruncatedJobs' = TruncatedJobs,
           \A w \in TruncatedJobs : loaded'[w] = loaded[w]
    PROVE  LogNow' = LogNow
<1>1. CASE TruncatedJobs = {}
  BY <1>1, SettledHolds, SettledHoldsNext DEF SettledFacts
<1>2. CASE TruncatedJobs # {}
  BY <1>2, SettledHolds, SettledHoldsNext DEF SettledFacts
<1> QED BY <1>1, <1>2

\* The worker that has a file to itself, and the others.
LEMMA Alone ==
    ASSUME Serial, NEW w \in Workers, phase[w] # "call"
    PROVE  /\ Logs(step[w]) => TruncatedJobs \subseteq {w} /\ w \notin TruncatedDocs
           /\ ~Logs(step[w]) => TruncatedDocs \subseteq {w} /\ w \notin TruncatedJobs
<1>1. ASSUME NEW v \in Workers, phase[v] # "call", Logs(step[v]) <=> Logs(step[w])
      PROVE  v = w
  BY <1>1 DEF Serial
<1>2. Logs(step[w]) => TruncatedJobs \subseteq {w} /\ w \notin TruncatedDocs
  BY <1>1 DEF TruncatedDocs, TruncatedJobs
<1>3. ~Logs(step[w]) => TruncatedDocs \subseteq {w} /\ w \notin TruncatedJobs
  BY <1>1 DEF TruncatedDocs, TruncatedJobs
<1> QED BY <1>2, <1>3

\* A text that is gone from its file is still the one that was there.
LEMMA TruncateStays ==
    ASSUME TypesInv, OperationsInv, Serial, Serial', NEW w \in Workers, Truncate(w)
    PROVE  RowsNow' = RowsNow /\ LogNow' = LogNow
<1>1. /\ phase[w] = "loaded" /\ phase' = [phase EXCEPT ![w] = "truncated"]
      /\ phase \in [Workers -> Phases]
      /\ step' = step /\ loaded' = loaded /\ File(step[w]) = loaded[w]
      /\ w \notin TruncatedDocs /\ w \notin TruncatedJobs
  BY DEF Truncate, TypesInv, TypeOK, OperationsInv, TruncatedDocs, TruncatedJobs
<1>2. \A v \in Workers : phase'[v] = IF v = w THEN "truncated" ELSE phase[v]
  BY <1>1
<1>3. CASE Logs(step[w])
  <2>1. docsFile' = docsFile /\ jobsFile = loaded[w]
    BY <1>1, <1>3 DEF Truncate, SetFile, File
  <2>2. TruncatedJobs = {} /\ w \in TruncatedJobs'
    BY <1>1, <1>2, <1>3, Alone DEF TruncatedJobs
  <2>3. TruncatedDocs' = TruncatedDocs
    BY <1>1, <1>2, <1>3 DEF TruncatedDocs
  <2>4. LogNow = loaded[w] /\ LogNow' = loaded'[w]
    BY <2>1, <2>2, SettledHolds, SettledHoldsNext DEF SettledFacts
  <2> QED BY <1>1, <2>1, <2>3, <2>4, RowsStay
<1>4. CASE ~Logs(step[w])
  <2>1. jobsFile' = jobsFile /\ docsFile = loaded[w]
    BY <1>1, <1>4 DEF Truncate, SetFile, File
  <2>2. TruncatedDocs = {} /\ w \in TruncatedDocs'
    BY <1>1, <1>2, <1>4, Alone DEF TruncatedDocs
  <2>3. TruncatedJobs' = TruncatedJobs
    BY <1>1, <1>2, <1>4 DEF TruncatedJobs
  <2>4. RowsNow = loaded[w] /\ RowsNow' = loaded'[w]
    BY <2>1, <2>2, SettledHolds, SettledHoldsNext DEF SettledFacts
  <2> QED BY <1>1, <2>1, <2>3, <2>4, LogStays
<1> QED BY <1>3, <1>4

\* The written text is the old one with the operation applied to it.
LEMMA WriteChanges ==
    ASSUME TypesInv, OperationsInv, Serial, Serial', NEW w \in Workers, Write(w)
    PROVE  /\ Logs(step[w]) =>
                 /\ RowsNow' = RowsNow
                 /\ LogNow = loaded[w] /\ LogNow \in Seq(Entries)
                 /\ LogNow' = Append(LogNow, Entry(step[w], doc[w]))
           /\ ~Logs(step[w]) =>
                 /\ LogNow' = LogNow
                 /\ RowsNow = loaded[w] /\ RowsNow \in Rows
                 /\ RowsNow' = [RowsNow EXCEPT ![doc[w]] = NewStatus(step[w], @)]
<1>1. /\ phase[w] = "truncated" /\ phase' = [phase EXCEPT ![w] = "call"]
      /\ phase \in [Workers -> Phases] /\ step \in [Workers -> Steps]
      /\ loaded' = [loaded EXCEPT ![w] = NoContent]
      /\ DOMAIN loaded = Workers
      /\ File(step[w]) = Empty /\ loaded[w] \in Content(step[w])
      /\ Return(w)
  BY DEF Write, TypesInv, TypeOK, OperationsInv
<1>2. \A v \in Workers : /\ phase'[v] = IF v = w THEN "call" ELSE phase[v]
                         /\ v # w => loaded'[v] = loaded[v]
  BY <1>1
<1>3. \A v \in Workers : v # w => step'[v] = step[v]
  BY <1>1, Returns DEF TypesInv, End, Goto
<1>4. SetFile(step[w], Changed(step[w], doc[w], loaded[w]))
  BY <1>1 DEF Write, Overlaid
<1>5. CASE Logs(step[w])
  <2>1. docsFile' = docsFile /\ jobsFile' = Append(loaded[w], Entry(step[w], doc[w]))
    BY <1>4, <1>5 DEF SetFile, Changed
  <2>2. w \in TruncatedJobs /\ TruncatedJobs \subseteq {w} /\ w \notin TruncatedDocs
    BY <1>1, <1>5, Alone DEF TruncatedJobs
  <2>3. TruncatedJobs' = {} /\ TruncatedDocs' = TruncatedDocs
    BY <1>2, <1>3, <2>2 DEF TruncatedJobs, TruncatedDocs
  <2>4. LogNow = loaded[w] /\ LogNow' = jobsFile'
    BY <2>2, <2>3, SettledHolds, SettledHoldsNext DEF SettledFacts
  <2>5. RowsNow' = RowsNow
    BY <1>2, <2>1, <2>2, <2>3, RowsStay DEF TruncatedDocs
  <2> QED BY <1>1, <1>5, <2>1, <2>4, <2>5 DEF Content
<1>6. CASE ~Logs(step[w])
  <2>1. /\ jobsFile' = jobsFile
        /\ docsFile' = [loaded[w] EXCEPT ![doc[w]] = NewStatus(step[w], @)]
    BY <1>4, <1>6 DEF SetFile, Changed
  <2>2. w \in TruncatedDocs /\ TruncatedDocs \subseteq {w} /\ w \notin TruncatedJobs
    BY <1>1, <1>6, Alone DEF TruncatedDocs
  <2>3. TruncatedDocs' = {} /\ TruncatedJobs' = TruncatedJobs
    BY <1>2, <1>3, <2>2 DEF TruncatedJobs, TruncatedDocs
  <2>4. RowsNow = loaded[w] /\ RowsNow' = docsFile'
    BY <2>2, <2>3, SettledHolds, SettledHoldsNext DEF SettledFacts
  <2>5. LogNow' = LogNow
    BY <1>2, <2>1, <2>2, <2>3, LogStays DEF TruncatedJobs
  <2> QED BY <1>1, <1>6, <2>1, <2>4, <2>5 DEF Content
<1> QED BY <1>5, <1>6

-----------------------------------------------------------------------------
(* Steps of a run.                                                         *)

\* The run of worker w ends, or goes on to another operation.  Its document
\* has the status that this promises; the others keep theirs.
LEMMA MoveKeeps ==
    ASSUME TypesInv, OperationsInv, StoreInv, NEW w \in Workers, doc[w] \in Docs,
           \/ \E o \in {"none", "indexed", "failed"} :
                 /\ End(w, o)
                 /\ o # "none" /\ RowsNow' \notin Unreadable => RowsNow'[doc[w]] = o
           \/ \E s \in Steps :
                 /\ Goto(w, s)
                 /\ s \in {"processed", "log"} /\ RowsNow' \notin Unreadable =>
                       RowsNow'[doc[w]] = "indexed",
           RowsNow' \notin Unreadable =>
               /\ RowsNow \notin Unreadable
               /\ \A d \in Docs \ {doc[w]} : RowsNow'[d] = RowsNow[d],
           LogNow' \notin Unreadable => LogNow' = finished'
    PROVE  /\ StoreInv'
           /\ \A v, u \in Workers : doc'[v] = doc'[u] /\ doc'[v] # NoDoc => v = u
           /\ \A v \in Workers : v # w => step'[v] = step[v]
<1>1. /\ NoDoc \notin Docs /\ doc \in [Workers -> Docs \cup {NoDoc}]
      /\ step \in [Workers -> Steps]
      /\ outcome \in [Docs -> {"none", "indexed", "failed"}]
      /\ \A v \in Workers : doc[v] = doc[w] => v = w
      /\ Unreadable' = Unreadable
      /\ outcome[doc[w]] = "none"
  BY NoDocAssumption DEF TypesInv, TypeOK, OperationsInv, StoreInv, Running, Unreadable
<1>2. ASSUME NEW o \in {"none", "indexed", "failed"}, End(w, o),
             o # "none" /\ RowsNow' \notin Unreadable => RowsNow'[doc[w]] = o
      PROVE  /\ StoreInv'
             /\ \A v, u \in Workers : doc'[v] = doc'[u] /\ doc'[v] # NoDoc => v = u
             /\ \A v \in Workers : v # w => step'[v] = step[v]
  <2>1. /\ \A v \in Workers : doc'[v] = IF v = w THEN NoDoc ELSE doc[v]
        /\ \A d \in Docs : outcome'[d] = IF d = doc[w] THEN o ELSE outcome[d]
        /\ step' = step
    BY <1>1, <1>2 DEF End
  <2>2. \A v, u \in Workers : doc'[v] = doc'[u] /\ doc'[v] # NoDoc => v = u
    BY <2>1 DEF OperationsInv
  <2>3. ASSUME NEW d \in Docs, outcome'[d] # "none"
        PROVE  ~Running(d)' /\ (RowsNow' \notin Unreadable => RowsNow'[d] = outcome'[d])
    <3>1. CASE d = doc[w]
      BY <1>1, <1>2, <2>1, <2>3, <3>1 DEF Running
    <3>2. CASE d # doc[w]
      <4>1. outcome[d] # "none" /\ outcome'[d] = outcome[d]
        BY <2>1, <2>3, <3>2
      <4>2. ~Running(d) /\ (RowsNow \notin Unreadable => RowsNow[d] = outcome[d])
        BY <4>1 DEF StoreInv
      <4>3. ~Running(d)'
        BY <1>1, <2>1, <4>2 DEF Running
      <4> QED BY <3>2, <4>1, <4>2, <4>3
    <3> QED BY <3>1, <3>2
  <2>4. ASSUME NEW v \in Workers, doc'[v] \in Docs, step'[v] \in {"processed", "log"},
               RowsNow' \notin Unreadable
        PROVE  RowsNow'[doc'[v]] = "indexed"
    <3>1. v # w /\ doc'[v] = doc[v] /\ doc[v] # doc[w] /\ step[v] \in {"processed", "log"}
      BY <1>1, <2>1, <2>4
    <3> QED BY <2>4, <3>1 DEF StoreInv
  <2> QED BY <1>1, <2>1, <2>2, <2>3, <2>4 DEF StoreInv
<1>3. ASSUME NEW s \in Steps, Goto(w, s),
             s \in {"processed", "log"} /\ RowsNow' \notin Unreadable =>
                 RowsNow'[doc[w]] = "indexed"
      PROVE  /\ StoreInv'
             /\ \A v, u \in Workers : doc'[v] = doc'[u] /\ doc'[v] # NoDoc => v = u
             /\ \A v \in Workers : v # w => step'[v] = step[v]
  <2>1. /\ \A v \in Workers : step'[v] = IF v = w THEN s ELSE step[v]
        /\ doc' = doc /\ outcome' = outcome
    BY <1>1, <1>3 DEF Goto
  <2>2. ASSUME NEW d \in Docs, outcome'[d] # "none"
        PROVE  ~Running(d)' /\ (RowsNow' \notin Unreadable => RowsNow'[d] = outcome'[d])
    BY <1>1, <2>1, <2>2 DEF StoreInv, Running
  <2>3. ASSUME NEW v \in Workers, doc'[v] \in Docs, step'[v] \in {"processed", "log"},
               RowsNow' \notin Unreadable
        PROVE  RowsNow'[doc'[v]] = "indexed"
    <3>1. CASE v = w
      BY <1>3, <2>1, <2>3, <3>1
    <3>2. CASE v # w
      BY <1>1, <2>1, <2>3, <3>2 DEF StoreInv
    <3> QED BY <3>1, <3>2
  <2> QED BY <1>1, <2>1, <2>2, <2>3 DEF StoreInv, OperationsInv
<1> QED BY <1>2, <1>3

\* A step of a worker between two operations that touches no file.
LEMMA CallMoveKeeps ==
    ASSUME IInv, Serial, Serial', NEW w \in Workers, Ready(w),
           \/ Return(w) /\ step[w] \in {"get", "processed"}
           \/ Raise(w) \/ End(w, "none"),
           UNCHANGED <<fileVars, phase, loaded, finished, crashes>>
    PROVE  OperationsInv' /\ StoreInv'
<1>1. /\ doc[w] \in Docs /\ phase[w] = "call"
      /\ docsFile' = docsFile /\ jobsFile' = jobsFile
      /\ phase' = phase /\ loaded' = loaded /\ finished' = finished
  BY DEF Ready, IInv, TypesInv, TypeOK, fileVars
<1>2. \/ \E o \in {"none", "indexed", "failed"} : End(w, o) /\ o = "none"
      \/ \E s \in Steps :
            Goto(w, s) /\ (s \in {"processed", "log"} => step[w] = "processed")
  <2>1. {"log failed", "get", "indexing", "upsert", "indexed", "log"} \subseteq Steps
    BY StepsAre
  <2>2. CASE Return(w) /\ step[w] \in {"get", "processed"}
    BY <2>1, <2>2, Course DEF Return
  <2>3. CASE Raise(w)
    BY <2>1, <2>3, Raises
  <2> QED BY <2>2, <2>3
<1>3. \A v \in Workers : v # w => step'[v] = step[v]
  BY <1>2 DEF IInv, TypesInv, TypeOK, End, Goto
<1>4. TruncatedDocs' = TruncatedDocs /\ TruncatedJobs' = TruncatedJobs
  BY <1>1, <1>3 DEF TruncatedDocs, TruncatedJobs
<1>5. RowsNow' = RowsNow /\ LogNow' = LogNow
  BY <1>1, <1>4, RowsStay, LogStays
<1>6. step[w] = "processed" /\ RowsNow \notin Unreadable => RowsNow[doc[w]] = "indexed"
  BY <1>1 DEF IInv, StoreInv
<1>7. /\ StoreInv'
      /\ \A v, u \in Workers : doc'[v] = doc'[u] /\ doc'[v] # NoDoc => v = u
  BY <1>1, <1>2, <1>5, <1>6, MoveKeeps DEF IInv, StoreInv
<1>8. \A v \in Workers : v # w => File(step[v])' = File(step[v])
  BY <1>1, <1>3 DEF File
<1> QED BY <1>1, <1>3, <1>7, <1>8 DEF IInv, OperationsInv

\* A step leaves the operations on a file alone that it has not to itself.
LEMMA OthersKeep ==
    ASSUME TypesInv, OperationsInv, Serial, NEW w \in Workers, phase[w] # "call",
           \A v \in Workers : v # w =>
               step'[v] = step[v] /\ phase'[v] = phase[v] /\ loaded'[v] = loaded[v],
           \/ Logs(step[w]) /\ docsFile' = docsFile
           \/ ~Logs(step[w]) /\ jobsFile' = jobsFile
    PROVE  \A v \in Workers : v # w =>
               /\ phase'[v] = "loaded" => File(step[v])' = loaded'[v]
               /\ phase'[v] = "truncated" => File(step[v])' = Empty'
<1> SUFFICES ASSUME NEW v \in Workers, v # w, phase[v] # "call"
             PROVE  /\ phase[v] = "loaded" => File(step[v])' = loaded[v]
                    /\ phase[v] = "truncated" => File(step[v])' = Empty
  BY DEF TypesInv, TypeOK, Phases
<1>1. ~(Logs(step[v]) <=> Logs(step[w])) /\ step'[v] = step[v]
  BY DEF Serial
<1>2. File(step[v])' = File(step[v])
  BY <1>1 DEF File, Logs
<1> QED BY <1>2 DEF OperationsInv

LEMMA StartKeeps ==
    ASSUME IInv, Serial, Serial', NEW w \in Workers, NEW d \in Docs, Start(w, d)
    PROVE  OperationsInv' /\ StoreInv'
<1>1. /\ docsFile' = docsFile /\ jobsFile' = jobsFile
      /\ phase' = phase /\ loaded' = loaded /\ finished' = finished
      /\ doc[w] = NoDoc /\ phase[w] = "call" /\ ~Running(d) /\ d # NoDoc
      /\ \A v \in Workers : doc'[v] = IF v = w THEN d ELSE doc[v]
      /\ \A v \in Workers : step'[v] = IF v = w THEN "claim" ELSE step[v]
      /\ \A e \in Docs : outcome'[e] = IF e = d THEN "none" ELSE outcome[e]
  BY NoDocAssumption DEF Start, fileVars, IInv, TypesInv, TypeOK
<1>2. TruncatedDocs' = TruncatedDocs /\ TruncatedJobs' = TruncatedJobs
  BY <1>1 DEF TruncatedDocs, TruncatedJobs
<1>3. RowsNow' = RowsNow /\ LogNow' = LogNow
  BY <1>1, <1>2, RowsStay, LogStays
<1>4. OperationsInv'
  <2>1. \A v \in Workers : v # w => File(step[v])' = File(step[v])
    BY <1>1 DEF File
  <2>2. \A v, u \in Workers : doc'[v] = doc'[u] /\ doc'[v] # NoDoc => v = u
    BY <1>1 DEF IInv, OperationsInv, Running
  <2> QED BY <1>1, <2>1, <2>2 DEF IInv, OperationsInv
<1>5. \A e \in Docs : outcome'[e] # "none" =>
          ~Running(e)' /\ (RowsNow' \notin Unreadable' => RowsNow'[e] = outcome'[e])
  BY <1>1, <1>3 DEF IInv, StoreInv, Running, Unreadable
<1>6. \A v \in Workers : doc'[v] \in Docs /\ step'[v] \in {"processed", "log"} =>
          (RowsNow' \notin Unreadable' => RowsNow'[doc'[v]] = "indexed")
  BY <1>1, <1>3 DEF IInv, StoreInv, Unreadable
<1>7. LogNow' \notin Unreadable' => LogNow' = finished'
  BY <1>1, <1>3 DEF IInv, StoreInv, Unreadable
<1> QED BY <1>4, <1>5, <1>6, <1>7 DEF StoreInv

LEMMA LoadKeeps ==
    ASSUME IInv, Serial, Serial', NEW w \in Workers, Load(w)
    PROVE  OperationsInv' /\ StoreInv'
<1>1. /\ docsFile' = docsFile /\ jobsFile' = jobsFile /\ doc' = doc /\ step' = step
      /\ outcome' = outcome /\ finished' = finished
      /\ phase[w] = "call"
      /\ \A v \in Workers : phase'[v] = IF v = w THEN "loaded" ELSE phase[v]
      /\ \A v \in Workers : loaded'[v] = IF v = w THEN File(step[w]) ELSE loaded[v]
  BY DEF Load, Ready, fileVars, runVars, IInv, TypesInv, TypeOK
<1>2. TruncatedDocs' = TruncatedDocs /\ TruncatedJobs' = TruncatedJobs
  BY <1>1 DEF TruncatedDocs, TruncatedJobs
<1>3. RowsNow' = RowsNow /\ LogNow' = LogNow
  BY <1>1, <1>2, RowsStay, LogStays DEF TruncatedDocs, TruncatedJobs
<1>4. \A v \in Workers : File(step[v])' = File(step[v])
  BY <1>1 DEF File
<1> QED BY <1>1, <1>3, <1>4 DEF IInv, OperationsInv, StoreInv, Running, Unreadable

LEMMA TruncateKeeps ==
    ASSUME IInv, Serial, Serial', NEW w \in Workers, Truncate(w)
    PROVE  OperationsInv' /\ StoreInv'
<1>1. /\ doc' = doc /\ step' = step /\ loaded' = loaded
      /\ outcome' = outcome /\ finished' = finished
      /\ phase[w] = "loaded"
      /\ \A v \in Workers : phase'[v] = IF v = w THEN "truncated" ELSE phase[v]
      /\ SetFile(step[w], Empty)
  BY DEF Truncate, runVars, IInv, TypesInv, TypeOK
<1>2. RowsNow' = RowsNow /\ LogNow' = LogNow
  BY TruncateStays DEF IInv
<1>3. \A v \in Workers : v # w =>
          /\ phase'[v] = "loaded" => File(step[v])' = loaded'[v]
          /\ phase'[v] = "truncated" => File(step[v])' = Empty'
  BY <1>1, OthersKeep DEF SetFile, IInv
<1>4. File(step[w])' = Empty
  BY <1>1 DEF SetFile, File
<1>5. OperationsInv'
  BY <1>1, <1>3, <1>4 DEF IInv, OperationsInv
<1> QED BY <1>1, <1>2, <1>5 DEF IInv, StoreInv, Running, Unreadable

LEMMA WriteKeeps ==
    ASSUME IInv, Serial, Serial', NEW w \in Workers, Write(w)
    PROVE  OperationsInv' /\ StoreInv'
<1>1. /\ doc[w] \in Docs /\ phase[w] # "call" /\ step[w] # "get" /\ Return(w)
      /\ \A v \in Workers : phase'[v] = IF v = w THEN "call" ELSE phase[v]
      /\ \A v \in Workers : v # w => loaded'[v] = loaded[v]
      /\ finished' = IF Logs(step[w]) THEN Append(finished, Entry(step[w], doc[w]))
                                      ELSE finished
  BY DEF Write, IInv, TypesInv, TypeOK
<1>2. /\ Logs(step[w]) =>
            /\ RowsNow' = RowsNow
            /\ LogNow = loaded[w] /\ LogNow \in Seq(Entries)
            /\ LogNow' = Append(LogNow, Entry(step[w], doc[w]))
      /\ ~Logs(step[w]) =>
            /\ LogNow' = LogNow
            /\ RowsNow = loaded[w] /\ RowsNow \in Rows
            /\ RowsNow' = [RowsNow EXCEPT ![doc[w]] = NewStatus(step[w], @)]
  BY WriteChanges DEF IInv
<1>3. LogNow' \notin Unreadable => LogNow' = finished'
  <2>1. Logs(step[w]) => LogNow = finished
    BY <1>2, ContentAssumption DEF IInv, StoreInv
  <2> QED BY <1>1, <1>2, <2>1 DEF IInv, StoreInv
<1>4. RowsNow' \notin Unreadable =>
          /\ RowsNow \notin Unreadable
          /\ \A d \in Docs \ {doc[w]} : RowsNow'[d] = RowsNow[d]
  BY <1>2, ContentAssumption DEF Rows
<1>5. ~Logs(step[w]) => RowsNow'[doc[w]] = NewStatus(step[w], RowsNow[doc[w]])
  BY <1>1, <1>2 DEF Rows
<1>6. RowsNow \notin Unreadable /\ step[w] \in {"processed", "log"} =>
          RowsNow[doc[w]] = "indexed"
  BY <1>1 DEF IInv, StoreInv
<1>7. \/ \E o \in {"none", "indexed", "failed"} :
            /\ End(w, o)
            /\ o # "none" /\ RowsNow' \notin Unreadable => RowsNow'[doc[w]] = o
      \/ \E s \in Steps :
            /\ Goto(w, s)
            /\ s \in {"processed", "log"} /\ RowsNow' \notin Unreadable =>
                  RowsNow'[doc[w]] = "indexed"
  <2>1. CASE step[w] = "log" /\ End(w, "indexed")
    BY <1>2, <1>6, <2>1 DEF Logs
  <2>2. CASE step[w] = "failed" /\ End(w, "failed")
    BY <1>5, <2>2 DEF Logs, NewStatus
  <2>3. CASE step[w] = "log failed" /\ Goto(w, "failed")
    BY <2>3, StepsAre
  <2>4. CASE step[w] = "indexed" /\ Goto(w, "processed")
    BY <1>5, <2>4, StepsAre DEF Logs, NewStatus
  <2>5. CASE step[w] = "processed" /\ Goto(w, "log")
    BY <1>4, <1>5, <1>6, <2>5, StepsAre DEF Logs, NewStatus
  <2>6. CASE \E s \in {"get", "indexing", "upsert", "indexed"} : Goto(w, s)
    BY <2>6, StepsAre
  <2> QED BY <1>1, <2>1, <2>2, <2>3, <2>4, <2>5, <2>6, Returns DEF IInv, TypesInv
<1>8. /\ StoreInv'
      /\ \A v, u \in Workers : doc'[v] = doc'[u] /\ doc'[v] # NoDoc => v = u
      /\ \A v \in Workers : v # w => step'[v] = step[v]
  BY <1>1, <1>3, <1>4, <1>7, MoveKeeps DEF IInv
<1>9. \/ Logs(step[w]) /\ docsFile' = docsFile
      \/ ~Logs(step[w]) /\ jobsFile' = jobsFile
  BY DEF Write, SetFile
<1>10. \A v \in Workers : v # w =>
          /\ phase'[v] = "loaded" => File(step[v])' = loaded'[v]
          /\ phase'[v] = "truncated" => File(step[v])' = Empty'
  BY <1>1, <1>8, <1>9, OthersKeep DEF IInv
<1> QED BY <1>1, <1>8, <1>10 DEF OperationsInv

\* What a crash leaves in a file is what was there before, unless it could not
\* be read.
LEMMA CrashKeeps ==
    ASSUME IInv, Serial, Serial', Crash
    PROVE  OperationsInv' /\ StoreInv'
<1>1. /\ docsFile' = docsFile /\ jobsFile' = jobsFile
      /\ outcome' = outcome /\ finished' = finished
      /\ \A w \in Workers : doc'[w] = NoDoc /\ phase'[w] = "call"
      /\ NoDoc \notin Docs
  BY NoDocAssumption DEF Crash, fileVars, runVars
<1>2. TruncatedDocs' = {} /\ TruncatedJobs' = {}
  BY <1>1 DEF TruncatedDocs, TruncatedJobs
<1>3. RowsNow' = docsFile /\ LogNow' = jobsFile
  BY <1>1, <1>2, SettledHoldsNext DEF SettledFacts
<1>4. /\ docsFile \notin Unreadable => TruncatedDocs = {}
      /\ jobsFile \notin Unreadable => TruncatedJobs = {}
  BY DEF IInv, OperationsInv, TruncatedDocs, TruncatedJobs, File, Unreadable
<1>5. /\ docsFile \notin Unreadable => RowsNow = docsFile
      /\ jobsFile \notin Unreadable => LogNow = jobsFile
  BY <1>4, SettledHolds DEF SettledFacts
<1>6. StoreInv'
  BY <1>1, <1>3, <1>5 DEF IInv, StoreInv, Running, Unreadable
<1> QED BY <1>1, <1>6 DEF OperationsInv

LEMMA NextKeeps == IInv /\ Serial /\ Serial' /\ [Next]_vars => OperationsInv' /\ StoreInv'
<1> SUFFICES ASSUME IInv, Serial, Serial', [Next]_vars
             PROVE  OperationsInv' /\ StoreInv'
  OBVIOUS
<1>1. ASSUME NEW w \in Workers, Run(w)
      PROVE  OperationsInv' /\ StoreInv'
  <2>1. CASE LoadOnly(w) \/ LoadFails(w) \/ ClaimRefused(w) \/ StageFails(w)
    BY <2>1, CallMoveKeeps DEF LoadOnly, LoadFails, ClaimRefused, StageFails, ReadsOnly
  <2> QED BY <1>1, <2>1, StartKeeps, LoadKeeps, TruncateKeeps, WriteKeeps DEF Run
<1>2. CASE UNCHANGED vars
  <2>1. /\ docsFile' = docsFile /\ jobsFile' = jobsFile /\ doc' = doc /\ step' = step
        /\ phase' = phase /\ loaded' = loaded /\ outcome' = outcome /\ finished' = finished
    BY <1>2 DEF vars
  <2>2. RowsNow' = RowsNow /\ LogNow' = LogNow
    BY <2>1, RowsStay, LogStays DEF TruncatedDocs, TruncatedJobs
  <2> QED BY <2>1, <2>2 DEF IInv, OperationsInv, StoreInv, Running, Unreadable, File
<1> QED BY <1>1, <1>2, CrashKeeps DEF Next

LEMMA InitKeeps == Init /\ Serial => OperationsInv /\ StoreInv
<1> SUFFICES ASSUME Init, Serial
             PROVE  OperationsInv /\ StoreInv
  OBVIOUS
<1>1. /\ \A w \in Workers : doc[w] = NoDoc /\ phase[w] = "call"
      /\ \A d \in Docs : outcome[d] = "none"
      /\ jobsFile = <<>> /\ finished = <<>>
  BY DEF Init
<1>2. LogNow = jobsFile
  BY <1>1, SettledHolds DEF SettledFacts, TruncatedJobs
<1> QED BY <1>1, <1>2, NoDocAssumption DEF OperationsInv, StoreInv

LEMMA Invariance == Spec /\ []Serial => []IInv
<1>1. Init /\ Serial => IInv
  BY InitTypes, InitKeeps DEF IInv
<1>2. IInv /\ Serial /\ Serial' /\ [Next]_vars => IInv'
  BY NextTypes, NextKeeps DEF IInv
<1> QED BY <1>1, <1>2, PTL DEF Spec

-----------------------------------------------------------------------------
(* What a reader can rely on.                                              *)

\* As long as no two operations on one file overlap, a file that can be read
\* between runs has what the runs have done, also after crashes.
THEOREM Truth == Spec /\ []Serial => []KeptWhileReadable
<1>1. IInv /\ Serial => KeptWhileReadable
  <2> SUFFICES ASSUME IInv, Serial, AtRest
               PROVE  /\ docsFile \notin Unreadable =>
                             \A d \in Docs : outcome[d] # "none" => docsFile[d] = outcome[d]
                      /\ jobsFile \notin Unreadable => jobsFile = finished
    BY DEF KeptWhileReadable
  <2>1. \A w \in Workers : phase[w] = "call"
    BY NoDocAssumption DEF AtRest, IInv, TypesInv
  <2>2. RowsNow = docsFile /\ LogNow = jobsFile
    BY <2>1, SettledHolds DEF SettledFacts, TruncatedDocs, TruncatedJobs
  <2> QED BY <2>2 DEF IInv, StoreInv
<1> QED BY <1>1, Invariance, PTL

LEMMA StepImplements ==
    ASSUME IInv, Serial, Serial', [Next]_vars, crashes' = crashes
    PROVE  UNCHANGED Contents \/ Store!Next
<1>0. Contents = <<RowsNow, LogNow>>
  BY DEF Contents, RowsNow, LogNow
<1>1. SUFFICES (RowsNow' = RowsNow /\ LogNow' = LogNow) \/ Store!Next
  <2>1. Contents' = <<RowsNow', LogNow'>>
    BY DEF Contents, RowsNow, LogNow
  <2> QED BY <1>0, <2>1
<1>2. ASSUME NEW w \in Workers, Run(w)
      PROVE  (RowsNow' = RowsNow /\ LogNow' = LogNow) \/ Store!Next
  <2>1. ASSUME docsFile' = docsFile, jobsFile' = jobsFile,
               \A v \in Workers : phase'[v] = "truncated" <=> phase[v] = "truncated",
               \A v \in Workers : phase[v] = "truncated" =>
                   step'[v] = step[v] /\ loaded'[v] = loaded[v]
        PROVE  RowsNow' = RowsNow /\ LogNow' = LogNow
    BY <2>1, RowsStay, LogStays DEF TruncatedDocs, TruncatedJobs
  <2>2. ASSUME NEW d \in Docs, Start(w, d)
        PROVE  RowsNow' = RowsNow /\ LogNow' = LogNow
    <3>1. doc[w] = NoDoc /\ phase' = phase /\ loaded' = loaded
          /\ docsFile' = docsFile /\ jobsFile' = jobsFile
          /\ \A v \in Workers : v # w => step'[v] = step[v]
      BY <2>2 DEF Start, fileVars, IInv, TypesInv, TypeOK
    <3>2. phase[w] = "call"
      BY <3>1, NoDocAssumption DEF IInv, TypesInv
    <3> QED BY <2>1, <3>1, <3>2
  <2>3. CASE Load(w)
    BY <2>1, <2>3 DEF Load, Ready, fileVars, runVars, IInv, TypesInv, TypeOK
  <2>4. CASE LoadOnly(w) \/ LoadFails(w) \/ ClaimRefused(w) \/ StageFails(w)
    <3>1. /\ Ready(w) /\ UNCHANGED <<fileVars, phase, loaded>>
          /\ Return(w) \/ Raise(w) \/ End(w, "none")
      BY <2>4 DEF LoadOnly, LoadFails, ClaimRefused, StageFails
    <3>2. \A v \in Workers : v # w => step'[v] = step[v]
      <4>1. (\E o : End(w, o)) \/ (\E s : Goto(w, s))
        BY <3>1, Returns, Raises DEF IInv, TypesInv
      <4> QED BY <4>1 DEF IInv, TypesInv, TypeOK, End, Goto
    <3>3. /\ phase' = phase /\ loaded' = loaded
          /\ docsFile' = docsFile /\ jobsFile' = jobsFile
          /\ phase[w] = "call"
      BY <3>1 DEF Ready, fileVars
    <3> QED BY <2>1, <3>2, <3>3
  <2>5. CASE Truncate(w)
    BY <2>5, TruncateStays DEF IInv
  <2>6. CASE Write(w)
    <3>1. doc[w] \in Docs /\ step[w] \in Steps /\ step[w] # "get"
      BY <2>6 DEF Write, IInv, TypesInv, TypeOK
    <3>2. CASE Logs(step[w])
      <4>1. RowsNow' = RowsNow /\ LogNow' = Append(LogNow, Entry(step[w], doc[w]))
        BY <2>6, <3>2, WriteChanges DEF IInv
      <4>2. PICK s \in Store!Statuses : Entry(step[w], doc[w]) = <<doc[w], s>>
        BY DEF Entry, Store!Statuses
      <4>3. Store!RecordJob(doc[w], s)
        BY <4>1, <4>2 DEF Store!RecordJob, RowsNow, LogNow
      <4> QED BY <3>1, <4>3 DEF Store!Next
    <3>3. CASE ~Logs(step[w])
      <4>1. /\ LogNow' = LogNow /\ RowsNow \in Rows
            /\ RowsNow' = [RowsNow EXCEPT ![doc[w]] = NewStatus(step[w], @)]
        BY <2>6, <3>3, WriteChanges DEF IInv
      <4>2. step[w] = "processed" => RowsNow[doc[w]] = "indexed"
        BY <3>1, <4>1, ContentAssumption DEF IInv, StoreInv
      <4>3. NewStatus(step[w], RowsNow[doc[w]]) \in Store!Statuses
        BY <3>1, <3>3, <4>2, StepsAre DEF NewStatus, Store!Statuses, Logs
      <4>4. Store!SetStatus(doc[w], NewStatus(step[w], RowsNow[doc[w]]))
        BY <4>1 DEF Store!SetStatus, RowsNow, LogNow
      <4> QED BY <3>1, <4>3, <4>4 DEF Store!Next
    <3> QED BY <3>2, <3>3
  <2> QED BY <1>2, <2>2, <2>3, <2>4, <2>5, <2>6 DEF Run
<1>3. CASE UNCHANGED vars
  BY <1>3, RowsStay, LogStays DEF vars, TruncatedDocs, TruncatedJobs
<1>4. ~Crash
  BY DEF Crash, IInv, TypesInv, TypeOK
<1> QED BY <1>2, <1>3, <1>4 DEF Next

LEMMA InitImplements == Init /\ Serial => Store!Init
<1> SUFFICES ASSUME Init, Serial
             PROVE  RowsNow = [d \in Docs |-> "none"] /\ LogNow = <<>>
  BY DEF Store!Init, RowsNow, LogNow
<1>1. TruncatedDocs = {} /\ TruncatedJobs = {}
  BY DEF Init, TruncatedDocs, TruncatedJobs
<1> QED BY <1>1, SettledHolds DEF SettledFacts, Init

\* As long as no two operations on one file overlap, the rewrites of the whole
\* file are steps of a store that changes one row or appends one entry.
THEOREM Refinement == Spec /\ []Serial => AtomicStore
<1>1. IInv /\ Serial /\ Serial' /\ [Next]_vars =>
          [crashes' = crashes => UNCHANGED Contents \/ Store!Next]_vars
  BY StepImplements
<1> QED BY <1>1, InitImplements, Invariance, PTL DEF Spec, AtomicStore

LEMMA OneWorkerIsSerial == (\A v, w \in Workers : v = w) => Serial
BY DEF Serial

\* With SCAN_MAX_WORKERS=1 the interleaving needs no assumption.
COROLLARY OneWorker ==
    ASSUME \A v, w \in Workers : v = w
    PROVE  Spec => []KeptWhileReadable /\ AtomicStore
<1>1. []Serial
  <2>1. Serial
    BY OneWorkerIsSerial
  <2> QED BY <2>1, PTL
<1> QED BY <1>1, Truth, Refinement, PTL
=============================================================================
