-------------------------- MODULE SectionCaptioner --------------------------
(***************************************************************************)
(* app/infrastructure/ai/captioner.py: each ingest run captions all its    *)
(* sections at once with asyncio.gather; the calls of all runs share one   *)
(* semaphore of CAPTION_MAX_CONCURRENCY permits.  gather raises when the   *)
(* first call fails and leaves the others running: the run goes on to its  *)
(* error path while its tasks still wait for permits and use them.         *)
(*                                                                         *)
(* Runs are concurrent calls of caption_sections; the identity of one that *)
(* has ended is used again once none of its tasks is left.                 *)
(***************************************************************************)
EXTENDS Integers, Sequences, FiniteSets

CONSTANTS
    Runs,
    Sections,           \* the sections of a run
    MaxConcurrency      \* CAPTION_MAX_CONCURRENCY

ASSUME MaxConcurrencyAssumption == MaxConcurrency \in Nat \ {0}
ASSUME FiniteAssumption == IsFiniteSet(Runs) /\ IsFiniteSet(Sections)

Tasks == Runs \X Sections

RunOf(t) == t[1]

VARIABLES
    run,                \* where each call of caption_sections is
    task,               \* where each _caption_one task is
    permits,            \* the semaphore: free permits,
    waiters             \* and its waiters, woken in FIFO order

vars == <<run, task, permits, waiters>>

RunPlaces == {"idle", "captioning", "captioned", "failed"}
TaskPlaces == {"none", "ready", "waiting", "calling", "done", "failed"}

Init ==
    /\ run = [r \in Runs |-> "idle"]
    /\ task = [t \in Tasks |-> "none"]
    /\ permits = MaxConcurrency
    /\ waiters = <<>>

-----------------------------------------------------------------------------
TasksOf(r) == {t \in Tasks : RunOf(t) = r}

CaptionSections(r) ==
    /\ run[r] = "idle"
    /\ run' = [run EXCEPT ![r] = "captioning"]
    /\ task' = [t \in Tasks |-> IF RunOf(t) = r THEN "ready" ELSE task[t]]
    /\ UNCHANGED <<permits, waiters>>

\* Slip: enters whenever nobody waits.
PermitFreeUncounted == waiters = <<>>

PermitFree == permits > 0 /\ waiters = <<>>

BeginTask(t) ==
    /\ task[t] = "ready"
    /\ IF PermitFree
       THEN /\ task' = [task EXCEPT ![t] = "calling"]
            /\ permits' = permits - 1
            /\ UNCHANGED waiters
       ELSE /\ task' = [task EXCEPT ![t] = "waiting"]
            /\ waiters' = Append(waiters, t)
            /\ UNCHANGED permits
    /\ UNCHANGED run

AcquirePermit ==
    /\ waiters # <<>>
    /\ permits > 0
    /\ task' = [task EXCEPT ![Head(waiters)] = "calling"]
    /\ permits' = permits - 1
    /\ waiters' = Tail(waiters)
    /\ UNCHANGED run

AllIn(r, tasks, places) == \A t \in TasksOf(r) : tasks[t] \in places

\* The provider answers; the last answer resolves the gather of its run.
CaptionReturns(t) ==
    /\ task[t] = "calling"
    /\ task' = [task EXCEPT ![t] = "done"]
    /\ permits' = permits + 1
    /\ run' = IF run[RunOf(t)] = "captioning" /\ AllIn(RunOf(t), task', {"done"})
              THEN [run EXCEPT ![RunOf(t)] = "captioned"] ELSE run
    /\ UNCHANGED waiters

\* Slip: the permit is given back only when the call succeeds.
CaptionFailsKeepsPermit(t) ==
    /\ task[t] = "calling"
    /\ task' = [task EXCEPT ![t] = "failed"]
    /\ run' = IF run[RunOf(t)] = "captioning"
              THEN [run EXCEPT ![RunOf(t)] = "failed"] ELSE run
    /\ UNCHANGED <<permits, waiters>>

\* Slip: gather with return_exceptions, and nobody looks for them.
CaptionFailsSilently(t) ==
    /\ task[t] = "calling"
    /\ task' = [task EXCEPT ![t] = "failed"]
    /\ permits' = permits + 1
    /\ UNCHANGED <<run, waiters>>

\* It raises; the first exception of a run ends its gather, and no other.
CaptionFails(t) ==
    /\ task[t] = "calling"
    /\ task' = [task EXCEPT ![t] = "failed"]
    /\ permits' = permits + 1
    /\ run' = IF run[RunOf(t)] = "captioning"
              THEN [run EXCEPT ![RunOf(t)] = "failed"] ELSE run
    /\ UNCHANGED waiters

\* The run has left caption_sections and its last task has ended.
Forget(r) ==
    /\ run[r] \in {"captioned", "failed"}
    /\ AllIn(r, task, {"done", "failed"})
    /\ run' = [run EXCEPT ![r] = "idle"]
    /\ task' = [t \in Tasks |-> IF RunOf(t) = r THEN "none" ELSE task[t]]
    /\ UNCHANGED <<permits, waiters>>

Next ==
    \/ \E r \in Runs : CaptionSections(r) \/ Forget(r)
    \/ \E t \in Tasks : BeginTask(t) \/ CaptionReturns(t) \/ CaptionFails(t)
    \/ AcquirePermit

\* The loop runs its tasks; a call to the provider has a timeout.
Fairness ==
    /\ \A t \in Tasks : WF_vars(BeginTask(t))
    /\ \A t \in Tasks : WF_vars(CaptionReturns(t) \/ CaptionFails(t))
    /\ WF_vars(AcquirePermit)

Spec == Init /\ [][Next]_vars

FairSpec == Spec /\ Fairness

-----------------------------------------------------------------------------
(* Properties                                                              *)

InPlace(p) == {t \in Tasks : task[t] = p}

\* Type of every variable; no more permits than the semaphore was made with.
TypeOK ==
    /\ run \in [Runs -> RunPlaces]
    /\ task \in [Tasks -> TaskPlaces]
    /\ permits \in 0..MaxConcurrency
    /\ waiters \in Seq(Tasks)

\* At most CAPTION_MAX_CONCURRENCY calls are in progress in the whole process,
\* those of runs that have already failed included, and whichever calls fail
\* no permit is lost or given back twice; the line of waiters holds each
\* waiting task once.
PermitsExact ==
    /\ permits + Cardinality(InPlace("calling")) = MaxConcurrency
    /\ Len(waiters) = Cardinality(InPlace("waiting"))
    /\ \A t \in InPlace("waiting") : \E i \in DOMAIN waiters : waiters[i] = t

\* A run goes on to embedding only with the captions of all its sections, and
\* a run that failed stays failed although its other calls succeed later.
CaptionedWhole ==
    /\ \A r \in Runs : run[r] = "captioned" => AllIn(r, task, {"done"})
    /\ \A t \in Tasks : task[t] = "failed" => run[RunOf(t)] = "failed"

\* Every call of caption_sections ends, also while the tasks left behind by
\* failed runs stand before its own in the line; so does every task left behind.
CaptioningEnds ==
    /\ \A r \in Runs : run[r] = "captioning" ~> run[r] # "captioning"
    /\ \A t \in Tasks : task[t] = "ready" ~> task[t] \in {"done", "failed"}
=============================================================================
