--------------------------- MODULE BatchEmbedder ----------------------------
(***************************************************************************)
(* utils/batch_embedder.py: the embedding queue that all ingest jobs of a  *)
(* process share.  Callers of embed_one append a text and a future to      *)
(* _pending; a batch is flushed to the provider by the caller that fills   *)
(* it, by the timer task _delayed_flush, or by flush_and_close.            *)
(*                                                                         *)
(* An action is a stretch of one asyncio task between two awaits.  The     *)
(* asyncio.Lock is held across an await only inside _flush, so "flusher"   *)
(* (the task in to_thread(provider.embed)) is the owner of the lock.       *)
(***************************************************************************)
EXTENDS Integers, Sequences, FiniteSets, SequencesExt

CONSTANTS
    Keys,           \* content hashes of the texts
    Copies,         \* tells apart concurrent embed_one calls for one text
    Timers,         \* identities of _delayed_flush tasks, reused when done
    Closer,         \* the task that runs flush_and_close
    NoOne,
    MaxBatch,       \* max_batch_size
    CacheSize       \* cache_size

ASSUME MaxBatchAssumption == MaxBatch \in Nat \ {0}
ASSUME CacheSizeAssumption == CacheSize \in Nat \ {0}

Calls == Keys \X Copies

KeyOf(c) == c[1]

Procs == Calls \cup Timers \cup {Closer}

ASSUME ProcsAssumption ==
    /\ Calls \cap Timers = {}
    /\ Closer \notin Calls \cup Timers
    /\ NoOne \notin Procs

VARIABLES
    call,           \* where each embed_one call is: see CallPlaces
    outcome,        \* how the last embed_one of each identity ended
    pending,        \* self._pending: the calls whose futures wait for a flush
    batch,          \* the calls of the flush in progress
    flusher,        \* the task inside _flush, hence the owner of self._lock
    lockQueue,      \* FIFO of tasks suspended in self._lock.acquire()
    timer,          \* where each _delayed_flush task is: see TimerPlaces
    cancelled,      \* timers with a CancelledError to be delivered
    flushTask,      \* self._flush_task
    cache,          \* keys of self._cache, least recently used first
    closer,         \* where flush_and_close is
    joined,         \* the timer flush_and_close awaits
    phase           \* "open", or "teardown" once the loop cancels every task

callVars == <<call, outcome>>
batchVars == <<pending, batch>>
lockVars == <<flusher, lockQueue>>
timerVars == <<timer, cancelled, flushTask>>
closeVars == <<closer, joined>>
vars == <<call, outcome, pending, batch, flusher, lockQueue, timer, cancelled,
          flushTask, cache, closer, joined, phase>>

CallPlaces == {"idle", "lockwait", "awaiting", "flushing"}
Outcomes == {"none", "vector", "error", "cancelled"}
TimerPlaces == {"done", "sleeping", "lockwait", "flushing"}
CloserPlaces == {"none", "joining", "lockwait", "flushing", "closed"}

Init ==
    /\ call = [c \in Calls |-> "idle"]
    /\ outcome = [c \in Calls |-> "none"]
    /\ pending = <<>>
    /\ batch = <<>>
    /\ flusher = NoOne
    /\ lockQueue = <<>>
    /\ timer = [t \in Timers |-> "done"]
    /\ cancelled = {}
    /\ flushTask = NoOne
    /\ cache = <<>>
    /\ closer = "none"
    /\ joined = NoOne
    /\ phase = "open"

-----------------------------------------------------------------------------
(* self._cache, an OrderedDict.                                            *)

Held(entries, k) == {i \in DOMAIN entries : entries[i] = k}

MoveToEnd(entries, k) ==
    IF Held(entries, k) = {}
    THEN Append(entries, k)
    ELSE Append(RemoveAt(entries, CHOOSE i \in Held(entries, k) : TRUE), k)

\* Slip: off by one.
CachePutLate(entries, k) ==
    MoveToEnd(IF Len(entries) > CacheSize THEN Tail(entries) ELSE entries, k)

\* Evicts when full, also when the key is already there.
CachePut(entries, k) ==
    MoveToEnd(IF Len(entries) >= CacheSize THEN Tail(entries) ELSE entries, k)

Cached(k) == Held(cache, k) # {}

\* The cache once n texts of the batch have been put into it, in their order.
CacheAfter[n \in 0..Len(batch)] ==
    IF n = 0 THEN cache ELSE CachePut(CacheAfter[n - 1], KeyOf(batch[n]))

-----------------------------------------------------------------------------
(* _flush, up to its await: the batch is taken, the timer is cancelled     *)
(* unless it is the caller, and forgotten.                                 *)

\* Slip: done() is not asked.
TimerKnown(t) == t \in Timers

TimerAlive(t) == t \in Timers /\ timer[t] # "done"

\* Slip: cancels without looking at what _flush_task is.
CancelTargetUnchecked(p) == {flushTask} \ {p}

\* Slip: cancels the caller too (docs/notes/BATCH_EMBEDDER.md, Risk 1).
CancelTargetOrSelf(p) == {t \in {flushTask} : TimerAlive(t)}

\* The timer task that _flush or flush_and_close, run by p, cancels.
CancelTarget(p) == {t \in {flushTask} : TimerAlive(t) /\ t # p}

\* Slip: _pending is not cleared before the await.
StartFlushKeepsPending(p, items) ==
    /\ batch' = items
    /\ pending' = items
    /\ flusher' = p
    /\ cancelled' = cancelled \cup CancelTarget(p)
    /\ flushTask' = NoOne

StartFlush(p, items) ==
    /\ batch' = items
    /\ pending' = <<>>
    /\ flusher' = p
    /\ cancelled' = cancelled \cup CancelTarget(p)
    /\ flushTask' = NoOne

LockFree == flusher = NoOne

\* The task that may take the lock: asyncio.Lock is FIFO, and a task with a
\* CancelledError to be delivered leaves the line instead.
MayLock(p) ==
    /\ LockFree
    /\ lockQueue # <<>> /\ Head(lockQueue) = p
    /\ p \notin cancelled
    /\ lockQueue' = Tail(lockQueue)

\* A task cancelled in acquire() takes its future out of the waiters.
LeaveLine(p) ==
    \/ /\ p \notin ToSet(lockQueue)
       /\ UNCHANGED lockQueue
    \/ \E i \in DOMAIN lockQueue :
          /\ lockQueue[i] = p
          /\ lockQueue' = RemoveAt(lockQueue, i)

-----------------------------------------------------------------------------
(* embed_one.                                                              *)

\* Slip: off by one.
BatchOverfull(items) == Len(items) > MaxBatch

BatchFull(items) == Len(items) >= MaxBatch

\* The body of its "async with": append, then flush a full batch or see that
\* a timer runs.
AppendAndTrigger(c) ==
    LET items == Append(pending, c)
    IN  \/ /\ BatchFull(items)
           /\ StartFlush(c, items)
           /\ call' = [call EXCEPT ![c] = "flushing"]
           /\ UNCHANGED timer
        \/ /\ ~BatchFull(items)
           /\ pending' = items
           /\ call' = [call EXCEPT ![c] = "awaiting"]
           /\ IF TimerAlive(flushTask)
              THEN UNCHANGED timerVars
              ELSE \E t \in Timers :
                      /\ timer[t] = "done" /\ t # joined
                      /\ timer' = [timer EXCEPT ![t] = "sleeping"]
                      /\ flushTask' = t
                      /\ UNCHANGED cancelled
           /\ UNCHANGED <<batch, flusher>>

CacheHit(c) ==
    /\ phase = "open"
    /\ call[c] = "idle"
    /\ Cached(KeyOf(c))
    /\ cache' = MoveToEnd(cache, KeyOf(c))
    /\ outcome' = [outcome EXCEPT ![c] = "vector"]
    /\ UNCHANGED <<call, batchVars, lockVars, timerVars, closeVars, phase>>

\* A miss creates a future and asks for the lock; a free lock is taken
\* without suspending.
CacheMiss(c) ==
    /\ phase = "open"
    /\ call[c] = "idle"
    /\ ~Cached(KeyOf(c))
    /\ outcome' = [outcome EXCEPT ![c] = "none"]
    /\ IF LockFree /\ lockQueue = <<>>
       THEN /\ AppendAndTrigger(c)
            /\ UNCHANGED lockQueue
       ELSE /\ lockQueue' = Append(lockQueue, c)
            /\ call' = [call EXCEPT ![c] = "lockwait"]
            /\ UNCHANGED <<batchVars, flusher, timerVars>>
    /\ UNCHANGED <<cache, closeVars, phase>>

\* The cache is not looked at again.
CallLocks(c) ==
    /\ phase = "open"
    /\ MayLock(c)
    /\ AppendAndTrigger(c)
    /\ UNCHANGED <<outcome, cache, closeVars, phase>>

-----------------------------------------------------------------------------
(* _delayed_flush.                                                         *)

FlushIfPending(t) ==
    IF pending # <<>>
    THEN /\ StartFlush(t, pending)
         /\ timer' = [timer EXCEPT ![t] = "flushing"]
    ELSE /\ timer' = [timer EXCEPT ![t] = "done"]
         /\ UNCHANGED <<batchVars, flusher, cancelled, flushTask>>

\* The window expires.
TimerFires(t) ==
    /\ phase = "open"
    /\ timer[t] = "sleeping" /\ t \notin cancelled
    /\ IF LockFree /\ lockQueue = <<>>
       THEN /\ FlushIfPending(t)
            /\ UNCHANGED lockQueue
       ELSE /\ lockQueue' = Append(lockQueue, t)
            /\ timer' = [timer EXCEPT ![t] = "lockwait"]
            /\ UNCHANGED <<batchVars, flusher, cancelled, flushTask>>
    /\ UNCHANGED <<callVars, cache, closeVars, phase>>

TimerLocks(t) ==
    /\ phase = "open"
    /\ MayLock(t)
    /\ FlushIfPending(t)
    /\ UNCHANGED <<callVars, cache, closeVars, phase>>

-----------------------------------------------------------------------------
(* _flush, after its await.                                                *)

FlusherDone ==
    /\ flusher' = NoOne
    /\ batch' = <<>>
    /\ timer' = [t \in Timers |-> IF t = flusher THEN "done" ELSE timer[t]]
    /\ cancelled' = cancelled \ {flusher}
    /\ closer' = IF flusher = Closer THEN "closed" ELSE closer

\* Calls whose future is not done yet: a call cancelled by its caller is.
Unresolved == {c \in ToSet(batch) : call[c] \in {"awaiting", "flushing"}}

Resolve(futures, how) ==
    /\ call' = [c \in Calls |-> IF c \in futures THEN "idle" ELSE call[c]]
    /\ outcome' = [c \in Calls |-> IF c \in futures THEN how ELSE outcome[c]]

\* The provider returns one embedding per text, in the order of the texts.
ProviderReturns ==
    /\ phase = "open"
    /\ flusher # NoOne
    /\ cache' = CacheAfter[Len(batch)]
    /\ Resolve(Unresolved, "vector")
    /\ FlusherDone
    /\ UNCHANGED <<pending, lockQueue, flushTask, joined, phase>>

\* Slip: returns early and leaves the futures unset.
ProviderFailsSilently ==
    /\ phase = "open"
    /\ flusher # NoOne
    /\ Resolve(Unresolved \cap {flusher}, "error")
    /\ FlusherDone
    /\ UNCHANGED <<pending, lockQueue, flushTask, cache, joined, phase>>

\* The provider raises, or returns another number of embeddings: every
\* future of the batch gets the exception, nothing is cached.
ProviderFails ==
    /\ phase = "open"
    /\ flusher # NoOne
    /\ Resolve(Unresolved, "error")
    /\ FlusherDone
    /\ UNCHANGED <<pending, lockQueue, flushTask, cache, joined, phase>>

\* The task is cancelled while it waits for the provider: the handler of
\* BaseException hands the CancelledError to every future of the batch.
FlushCancelled(p) ==
    /\ flusher = p /\ p # NoOne
    /\ Resolve(Unresolved, "cancelled")
    /\ FlusherDone
    /\ UNCHANGED <<pending, lockQueue, flushTask, cache, joined, phase>>

\* A CancelledError requested by a flush or by flush_and_close arrives.
TimerCancelled(t) ==
    /\ phase = "open"
    /\ t \in cancelled
    /\ \/ FlushCancelled(t)
       \/ /\ timer[t] \in {"sleeping", "lockwait"}
          /\ timer' = [timer EXCEPT ![t] = "done"]
          /\ cancelled' = cancelled \ {t}
          /\ LeaveLine(t)
          /\ UNCHANGED <<callVars, batchVars, flusher, flushTask, cache,
                         closeVars, phase>>

-----------------------------------------------------------------------------
(* flush_and_close.  Jobs are still running: calls may go on arriving.     *)

\* Slip: only the timer is stopped.
CloseWithoutFlush ==
    /\ closer' = "closed"
    /\ UNCHANGED <<batchVars, flusher, cancelled, flushTask>>

CloseFlush ==
    IF pending # <<>>
    THEN /\ StartFlush(Closer, pending)
         /\ closer' = "flushing"
    ELSE /\ closer' = "closed"
         /\ UNCHANGED <<batchVars, flusher, cancelled, flushTask>>

AskCloseLock ==
    IF LockFree /\ lockQueue = <<>>
    THEN /\ CloseFlush
         /\ UNCHANGED lockQueue
    ELSE /\ lockQueue' = Append(lockQueue, Closer)
         /\ closer' = "lockwait"
         /\ UNCHANGED <<batchVars, flusher, cancelled, flushTask>>

Close ==
    /\ phase = "open"
    /\ closer = "none"
    /\ IF TimerAlive(flushTask)
       THEN /\ cancelled' = cancelled \cup CancelTarget(Closer)
            /\ joined' = flushTask
            /\ closer' = "joining"
            /\ UNCHANGED <<batchVars, lockVars, flushTask>>
       ELSE /\ AskCloseLock
            /\ UNCHANGED joined
    /\ UNCHANGED <<callVars, timer, cache, phase>>

CloserJoins ==
    /\ phase = "open"
    /\ closer = "joining"
    /\ timer[joined] = "done"
    /\ joined' = NoOne
    /\ AskCloseLock
    /\ UNCHANGED <<callVars, timer, cache, phase>>

CloserLocks ==
    /\ phase = "open"
    /\ MayLock(Closer)
    /\ CloseFlush
    /\ UNCHANGED <<callVars, timer, cache, joined, phase>>

-----------------------------------------------------------------------------
(* The loop is torn down after the lifespan ends: every task still there   *)
(* is cancelled before any of them runs again.                             *)

BeginTeardown ==
    /\ phase = "open"
    /\ closer = "closed"
    /\ phase' = "teardown"
    /\ UNCHANGED <<callVars, batchVars, lockVars, timerVars, cache, closeVars>>

CancelCall(c) ==
    /\ phase = "teardown"
    /\ call[c] # "idle"
    /\ \/ FlushCancelled(c)
       \/ /\ call[c] \in {"lockwait", "awaiting"}
          /\ call' = [call EXCEPT ![c] = "idle"]
          /\ outcome' = [outcome EXCEPT ![c] = "cancelled"]
          /\ LeaveLine(c)
          /\ UNCHANGED <<batchVars, flusher, timerVars, cache, closeVars, phase>>

CancelTimer(t) ==
    /\ phase = "teardown"
    /\ \/ FlushCancelled(t)
       \/ /\ timer[t] \in {"sleeping", "lockwait"}
          /\ timer' = [timer EXCEPT ![t] = "done"]
          /\ cancelled' = cancelled \ {t}
          /\ LeaveLine(t)
          /\ UNCHANGED <<callVars, batchVars, flusher, flushTask, cache,
                         closeVars, phase>>

\* Every task has ended.
Terminated ==
    /\ phase = "teardown"
    /\ \A c \in Calls : call[c] = "idle"
    /\ \A t \in Timers : timer[t] = "done"
    /\ UNCHANGED vars

Next ==
    \/ \E c \in Calls : CacheHit(c) \/ CacheMiss(c) \/ CallLocks(c) \/ CancelCall(c)
    \/ \E t \in Timers : TimerFires(t) \/ TimerLocks(t) \/ TimerCancelled(t) \/ CancelTimer(t)
    \/ ProviderReturns
    \/ ProviderFails
    \/ Close
    \/ CloserJoins
    \/ CloserLocks
    \/ BeginTeardown
    \/ Terminated

\* The loop runs every task that is ready and every sleep ends; the provider
\* call ends, for each of its attempts is an HTTP request with a timeout.
\* Nothing makes a caller call or the process close.
Fairness ==
    /\ \A c \in Calls : WF_vars(CallLocks(c)) /\ WF_vars(CancelCall(c))
    /\ \A t \in Timers : /\ WF_vars(TimerFires(t))
                         /\ WF_vars(TimerLocks(t))
                         /\ WF_vars(TimerCancelled(t))
                         /\ WF_vars(CancelTimer(t))
    /\ WF_vars(ProviderReturns \/ ProviderFails)
    /\ WF_vars(CloserJoins)
    /\ WF_vars(CloserLocks)

Spec == Init /\ [][Next]_vars

FairSpec == Spec /\ Fairness

-----------------------------------------------------------------------------
\* Type of every variable; only a task that is not done has a CancelledError
\* to be delivered.
TypeOK ==
    /\ call \in [Calls -> CallPlaces]
    /\ outcome \in [Calls -> Outcomes]
    /\ pending \in Seq(Calls)
    /\ batch \in Seq(Calls)
    /\ flusher \in Procs \cup {NoOne}
    /\ lockQueue \in Seq(Procs)
    /\ timer \in [Timers -> TimerPlaces]
    /\ cancelled \subseteq {t \in Timers : timer[t] # "done"}
    /\ flushTask \in Timers \cup {NoOne}
    /\ cache \in Seq(Keys)
    /\ closer \in CloserPlaces
    /\ joined \in Timers \cup {NoOne}
    /\ phase \in {"open", "teardown"}

\* Every future that a caller awaits is in _pending or in the batch being
\* flushed, once and in one of them only: no path drops a future.
NoFutureLost ==
    phase = "open" =>
        /\ {c \in Calls : call[c] \in {"awaiting", "flushing"}}
                = ToSet(pending) \cup ToSet(batch)
        /\ IsInjective(pending \o batch)

\* A text that waits while no flush is in progress has a task that will
\* flush it: a timer nobody has cancelled, or flush_and_close.
PendingWillBeFlushed ==
    (phase = "open" /\ LockFree /\ pending # <<>>) =>
        \/ \E t \in Timers : timer[t] \in {"sleeping", "lockwait"} /\ t \notin cancelled
        \/ closer \in {"joining", "lockwait"}

\* A cancellation never hits a task inside _flush, so no caller sees the
\* CancelledError of another task while the loop is running.
NoForeignCancel ==
    \A c \in Calls : outcome[c] = "cancelled" => phase = "teardown"

\* A batch is taken whole under the lock and never exceeds max_batch_size; the
\* cache stays within its size and holds a key once.
SizesKept ==
    /\ flusher # NoOne => pending = <<>> /\ batch # <<>>
    /\ Len(batch) <= MaxBatch
    /\ Len(cache) <= CacheSize
    /\ IsInjective(cache)

\* When flush_and_close returns nothing is pending and no flush is running.
CloseDrains ==
    [][closer # "closed" /\ closer' = "closed" => pending' = <<>> /\ batch' = <<>>]_vars

\* Every embed_one call ends, whatever the provider does, through the close
\* and the teardown.
EveryCallEnds == \A c \in Calls : call[c] # "idle" ~> call[c] = "idle"
=============================================================================
