------------------------ MODULE BatchEmbedder_proofs ------------------------
(***************************************************************************)
(* Proofs about BatchEmbedder, for any texts, callers, timers, batch and   *)
(* cache sizes.                                                            *)
(***************************************************************************)
EXTENDS BatchEmbedder, SequenceTheorems, WellFoundedInduction, TLAPS

\* The types that the argument about the open phase needs.
TypesInv ==
    /\ call \in [Calls -> CallPlaces]
    /\ outcome \in [Calls -> Outcomes]
    /\ pending \in Seq(Calls)
    /\ batch \in Seq(Calls)
    /\ flusher \in Procs \cup {NoOne}
    /\ lockQueue \in Seq(Procs)
    /\ timer \in [Timers -> TimerPlaces]
    /\ cancelled \subseteq {t \in Timers : timer[t] # "done"}
    /\ flushTask \in Timers \cup {NoOne}
    /\ closer \in CloserPlaces
    /\ joined \in Timers \cup {NoOne}

InLine ==
    {c \in Calls : call[c] = "lockwait"}
        \cup {t \in Timers : timer[t] = "lockwait"}
        \cup {p \in {Closer} : closer = "lockwait"}

\* Whoever is in the line of the lock waits there, once.
LineInv == IsInjective(lockQueue) /\ ToSet(lockQueue) \subseteq InLine

Awaited == {c \in Calls : call[c] \in {"awaiting", "flushing"}}

\* The futures awaited are in _pending or in the batch; as long as there is a
\* batch the lock is held and _pending is empty.
FuturesInv ==
    /\ Awaited = ToSet(pending) \cup ToSet(batch)
    /\ IsInjective(pending) /\ IsInjective(batch)
    /\ flusher = NoOne => batch = <<>>
    /\ flusher # NoOne => pending = <<>> /\ flushTask = NoOne

\* The owner of the lock is where it says, and nobody has cancelled it.
OwnerInv ==
    /\ flusher \notin cancelled
    /\ \A t \in Timers : timer[t] = "flushing" <=> flusher = t
    /\ closer = "flushing" <=> flusher = Closer
    /\ \A c \in Calls : outcome[c] # "cancelled"

\* Texts that wait have a timer, which only flush_and_close may have
\* cancelled, and then it waits for it.
TimerInv ==
    /\ pending # <<>> => TimerAlive(flushTask) \/ closer \in {"joining", "lockwait"}
    /\ flushTask \in cancelled => closer = "joining" /\ joined = flushTask

OpenInv == TypesInv /\ LineInv /\ FuturesInv /\ OwnerInv /\ TimerInv

\* The teardown drops futures on purpose.
IInv ==
    /\ phase \in {"open", "teardown"}
    /\ phase = "open" => OpenInv
    /\ phase = "teardown" => closer = "closed"

-----------------------------------------------------------------------------
(* Sequences that hold every element once.                                 *)

LEMMA AppendOnce ==
    ASSUME NEW S, NEW s \in Seq(S), NEW x \in S,
           IsInjective(s), x \notin ToSet(s)
    PROVE  /\ Append(s, x) \in Seq(S)
           /\ IsInjective(Append(s, x))
           /\ ToSet(Append(s, x)) = ToSet(s) \cup {x}
<1>1. /\ Append(s, x) \in Seq(S)
      /\ DOMAIN Append(s, x) = 1..(Len(s) + 1)
      /\ \A i \in 1..Len(s) : Append(s, x)[i] = s[i]
      /\ Append(s, x)[Len(s) + 1] = x
      /\ DOMAIN s = 1..Len(s) /\ Len(s) \in Nat
  OBVIOUS
<1>2. \A i \in 1..(Len(s) + 1) : i \in 1..Len(s) \/ i = Len(s) + 1
  BY <1>1
<1>3. \A i \in 1..Len(s) : i \in 1..(Len(s) + 1) /\ s[i] # x
  BY <1>1 DEF ToSet
<1>4. Len(s) + 1 \in 1..(Len(s) + 1)
  BY <1>1
<1>5. IsInjective(Append(s, x))
  BY <1>1, <1>2, <1>3 DEF IsInjective
<1>6. ToSet(Append(s, x)) \subseteq ToSet(s) \cup {x}
  BY <1>1, <1>2 DEF ToSet
<1>7. ToSet(s) \cup {x} \subseteq ToSet(Append(s, x))
  BY <1>1, <1>3, <1>4 DEF ToSet
<1> QED BY <1>1, <1>5, <1>6, <1>7

LEMMA TailOnce ==
    ASSUME NEW S, NEW s \in Seq(S), s # <<>>, IsInjective(s)
    PROVE  /\ Head(s) \in ToSet(s)
           /\ Tail(s) \in Seq(S)
           /\ IsInjective(Tail(s))
           /\ ToSet(Tail(s)) \subseteq ToSet(s) \ {Head(s)}
<1>1. /\ Tail(s) \in Seq(S)
      /\ DOMAIN Tail(s) = 1..(Len(s) - 1)
      /\ \A i \in 1..(Len(s) - 1) : Tail(s)[i] = s[i + 1]
      /\ Head(s) = s[1]
      /\ DOMAIN s = 1..Len(s) /\ Len(s) \in Nat /\ Len(s) # 0
  BY HeadTailProperties, EmptySeq
<1>2. /\ 1 \in 1..Len(s)
      /\ \A i \in 1..(Len(s) - 1) : i + 1 \in 1..Len(s) /\ i + 1 # 1 /\ i \in Int
  BY <1>1
<1>3. IsInjective(Tail(s))
  BY <1>1, <1>2 DEF IsInjective
<1>4. ToSet(Tail(s)) \subseteq ToSet(s) \ {Head(s)}
  BY <1>1, <1>2 DEF ToSet, IsInjective
<1> QED BY <1>1, <1>2, <1>3, <1>4 DEF ToSet

LEMMA RemoveOnce ==
    ASSUME NEW S, NEW s \in Seq(S), NEW i \in DOMAIN s, IsInjective(s)
    PROVE  /\ RemoveAt(s, i) \in Seq(S)
           /\ IsInjective(RemoveAt(s, i))
           /\ ToSet(RemoveAt(s, i)) \subseteq ToSet(s) \ {s[i]}
<1> DEFINE old(j) == IF j < i THEN j ELSE j + 1
           r == RemoveAt(s, i)
<1>1. Len(s) \in Nat /\ DOMAIN s = 1..Len(s) /\ i \in 1..Len(s)
  OBVIOUS
<1> DEFINE before == SubSeq(s, 1, i - 1)
           after == SubSeq(s, i + 1, Len(s))
<1>2. /\ before \in Seq(S) /\ Len(before) = i - 1
      /\ \A j \in 1..(i - 1) : before[j] = s[j]
  BY <1>1, SubSeqProperties
<1>3. /\ after \in Seq(S) /\ Len(after) = Len(s) - i
      /\ \A j \in 1..(Len(s) - i) : after[j] = s[i + j]
  BY <1>1, SubSeqProperties
<1>4. /\ r \in Seq(S) /\ DOMAIN r = 1..(Len(s) - 1)
      /\ \A j \in 1..(Len(s) - 1) : r[j] = s[old(j)]
  <2>1. r = before \o after
    BY DEF RemoveAt
  <2> HIDE DEF r, before, after
  <2>2. /\ r \in Seq(S) /\ Len(r) = Len(before) + Len(after)
        /\ \A j \in 1..(Len(before) + Len(after)) :
              r[j] = IF j <= Len(before) THEN before[j] ELSE after[j - Len(before)]
    BY <1>2, <1>3, <2>1, ConcatProperties
  <2>3. Len(r) = Len(s) - 1 /\ Len(before) + Len(after) = Len(s) - 1
    BY <1>1, <1>2, <1>3, <2>2
  <2>4. ASSUME NEW j \in 1..(Len(s) - 1)
        PROVE  r[j] = s[old(j)]
    <3>1. r[j] = IF j <= i - 1 THEN before[j] ELSE after[j - (i - 1)]
      BY <1>2, <2>2, <2>3
    <3>2. CASE j < i
      BY <1>1, <1>2, <3>1, <3>2
    <3>3. CASE ~(j < i)
      <4>1. j - (i - 1) \in 1..(Len(s) - i) /\ i + (j - (i - 1)) = j + 1
        BY <1>1, <3>3
      <4> QED BY <1>1, <1>3, <3>1, <3>3, <4>1
    <3> QED BY <3>2, <3>3
  <2>5. DOMAIN r = 1..(Len(s) - 1)
    BY <2>2, <2>3
  <2> QED BY <2>2, <2>4, <2>5
<1>5. /\ \A j \in 1..(Len(s) - 1) : old(j) \in 1..Len(s) /\ old(j) # i
      /\ \A j, k \in 1..(Len(s) - 1) : old(j) = old(k) => j = k
  BY <1>1
<1> HIDE DEF old, r
<1>6. IsInjective(r)
  BY <1>1, <1>4, <1>5 DEF IsInjective
<1>7. ToSet(r) \subseteq ToSet(s) \ {s[i]}
  BY <1>1, <1>4, <1>5 DEF ToSet, IsInjective
<1> QED BY <1>4, <1>6, <1>7 DEF r

LEMMA EmptySequence ==
    IsInjective(<<>>) /\ ToSet(<<>>) = {} /\ \A S : <<>> \in Seq(S)
BY DEF IsInjective, ToSet

-----------------------------------------------------------------------------
(* The cache.                                                              *)

\* What the cache is, at any time: every key once, as many as there is room for.
Caches == {s \in Seq(Keys) : IsInjective(s) /\ Len(s) <= CacheSize}

LEMMA LengthOfRemoved ==
    ASSUME NEW S, NEW s \in Seq(S), NEW i \in DOMAIN s
    PROVE  Len(RemoveAt(s, i)) = Len(s) - 1
<1> DEFINE before == SubSeq(s, 1, i - 1)
           after == SubSeq(s, i + 1, Len(s))
<1>1. Len(s) \in Nat /\ i \in 1..Len(s)
  OBVIOUS
<1>2. before \in Seq(S) /\ Len(before) = i - 1
  BY <1>1, SubSeqProperties
<1>3. after \in Seq(S) /\ Len(after) = Len(s) - i
  BY <1>1, SubSeqProperties
<1>4. RemoveAt(s, i) = before \o after
  BY DEF RemoveAt
<1> HIDE DEF before, after
<1>5. Len(RemoveAt(s, i)) = Len(before) + Len(after)
  BY <1>2, <1>3, <1>4, ConcatProperties
<1> QED BY <1>1, <1>2, <1>3, <1>5

LEMMA MoveToEndKeeps ==
    ASSUME NEW s \in Seq(Keys), NEW k \in Keys, IsInjective(s)
    PROVE  /\ MoveToEnd(s, k) \in Seq(Keys)
           /\ IsInjective(MoveToEnd(s, k))
           /\ Len(MoveToEnd(s, k)) = IF Held(s, k) = {} THEN Len(s) + 1 ELSE Len(s)
<1>1. CASE Held(s, k) = {}
  <2>1. k \notin ToSet(s)
    BY <1>1 DEF Held, ToSet
  <2>2. MoveToEnd(s, k) = Append(s, k) /\ Len(Append(s, k)) = Len(s) + 1
    BY <1>1 DEF MoveToEnd
  <2> QED BY <1>1, <2>1, <2>2, AppendOnce
<1>2. CASE Held(s, k) # {}
  <2> DEFINE i == CHOOSE j \in Held(s, k) : TRUE
             rest == RemoveAt(s, i)
  <2>1. i \in DOMAIN s /\ s[i] = k
    BY <1>2 DEF Held
  <2>2. MoveToEnd(s, k) = Append(rest, k)
    BY <1>2 DEF MoveToEnd
  <2> HIDE DEF i
  <2>3. /\ rest \in Seq(Keys) /\ IsInjective(rest) /\ k \notin ToSet(rest)
        /\ Len(rest) = Len(s) - 1
    BY <2>1, RemoveOnce, LengthOfRemoved
  <2> HIDE DEF rest
  <2>4. Len(Append(rest, k)) = Len(s)
    BY <2>3
  <2>5. Append(rest, k) \in Seq(Keys) /\ IsInjective(Append(rest, k))
    BY <2>3, AppendOnce
  <2> QED BY <1>2, <2>2, <2>4, <2>5
<1> QED BY <1>1, <1>2

\* _cache_put evicts before it stores: the size is never exceeded.
LEMMA CachePutKeeps ==
    ASSUME NEW s \in Caches, NEW k \in Keys
    PROVE  CachePut(s, k) \in Caches
<1> USE CacheSizeAssumption
<1> DEFINE kept == IF Len(s) >= CacheSize THEN Tail(s) ELSE s
<1>1. s \in Seq(Keys) /\ IsInjective(s) /\ Len(s) \in Nat /\ Len(s) <= CacheSize
  BY DEF Caches
<1>2. kept \in Seq(Keys) /\ IsInjective(kept) /\ Len(kept) < CacheSize
  <2>1. CASE Len(s) >= CacheSize
    <3>1. s # <<>>
      BY <1>1, <2>1
    <3>2. Tail(s) \in Seq(Keys) /\ IsInjective(Tail(s)) /\ Len(Tail(s)) = Len(s) - 1
      BY <1>1, <3>1, TailOnce, HeadTailProperties
    <3> QED BY <1>1, <2>1, <3>2
  <2>2. CASE ~(Len(s) >= CacheSize)
    BY <1>1, <2>2
  <2> QED BY <2>1, <2>2
<1>3. CachePut(s, k) = MoveToEnd(kept, k)
  BY DEF CachePut
<1> HIDE DEF kept
<1>4. /\ MoveToEnd(kept, k) \in Seq(Keys) /\ IsInjective(MoveToEnd(kept, k))
      /\ Len(MoveToEnd(kept, k)) \in {Len(kept), Len(kept) + 1}
  BY <1>2, MoveToEndKeeps
<1>5. Len(kept) \in Nat
  BY <1>2
<1> QED BY <1>2, <1>3, <1>4, <1>5 DEF Caches

\* Induction over the natural numbers, as a fact about a set.
LEMMA SetInduction ==
    ASSUME NEW S, 0 \in S, \A n \in Nat : n \in S => n + 1 \in S
    PROVE  Nat \subseteq S
<1> DEFINE R == OpToRel(<, Nat)
           T == Nat \ S
<1>1. R = {ss \in Nat \X Nat : ss[1] < ss[2]}
  BY DEF OpToRel
<1>2. IsWellFoundedOn(R, Nat)
  BY NatLessThanWellFounded
<1> HIDE DEF R
<1>3. SUFFICES ASSUME T # {}
               PROVE  FALSE
  OBVIOUS
<1>4. T \subseteq Nat
  OBVIOUS
<1> HIDE DEF T
<1>5. PICK n \in T : \A m \in T : ~(<<m, n>> \in R)
  BY <1>2, <1>3, <1>4, WFMin
<1> USE DEF T
<1>6. n \in Nat /\ n # 0 /\ n - 1 \in Nat
  BY <1>5
<1>7. <<n - 1, n>> \in Nat \X Nat /\ n - 1 < n
  BY <1>6
<1>8. n - 1 \notin T
  BY <1>1, <1>5, <1>7
<1> QED BY <1>5, <1>6, <1>8

\* CacheAfter is what its recursion says: an approximation of it exists for the
\* first n texts, whatever n, and the last one is the function itself.
LEMMA CacheAfterUnfolds ==
    ASSUME batch \in Seq(Calls)
    PROVE  /\ CacheAfter[0] = cache
           /\ \A n \in 1..Len(batch) :
                 CacheAfter[n] = CachePut(CacheAfter[n - 1], KeyOf(batch[n]))
<1> DEFINE N == Len(batch)
           Step(g, n) == IF n = 0 THEN cache ELSE CachePut(g[n - 1], KeyOf(batch[n]))
           Good == {n \in Nat : \E g : DOMAIN g = 0..n /\ \A m \in 0..n : g[m] = Step(g, m)}
<1>1. N \in Nat
  OBVIOUS
<1>2. 0 \in Good
  <2>1. \E g : DOMAIN g = 0..0 /\ \A m \in 0..0 : g[m] = Step(g, m)
    <3> WITNESS [m \in 0..0 |-> cache]
    <3> QED OBVIOUS
  <2> QED BY <2>1
<1>3. ASSUME NEW n \in Nat, n \in Good
      PROVE  n + 1 \in Good
  <2>1. PICK g : DOMAIN g = 0..n /\ \A m \in 0..n : g[m] = Step(g, m)
    BY <1>3
  <2> DEFINE h == [m \in 0..(n + 1) |-> IF m = n + 1 THEN Step(g, m) ELSE g[m]]
  <2>2. ASSUME NEW m \in 0..(n + 1)
        PROVE  h[m] = Step(h, m)
    <3>1. CASE m = 0
      BY <2>1, <3>1
    <3>2. CASE m # 0
      <4>1. m - 1 \in 0..n /\ m - 1 \in 0..(n + 1) /\ m - 1 # n + 1
        BY <3>2
      <4>2. h[m - 1] = g[m - 1]
        BY <4>1
      <4>3. h[m] = Step(g, m)
        BY <2>1
      <4> QED BY <3>2, <4>2, <4>3
    <3> QED BY <3>1, <3>2
  <2>3. DOMAIN h = 0..(n + 1)
    OBVIOUS
  <2> HIDE DEF h
  <2>4. \E f : DOMAIN f = 0..(n + 1) /\ \A m \in 0..(n + 1) : f[m] = Step(f, m)
    BY <2>2, <2>3
  <2> HIDE DEF Step
  <2> QED BY <2>4
<1>4. N \in Good
  <2> HIDE DEF Good, N
  <2>1. Nat \subseteq Good
    BY <1>2, <1>3, SetInduction
  <2> QED BY <1>1, <2>1
<1>5. PICK g : DOMAIN g = 0..N /\ \A m \in 0..N : g[m] = Step(g, m)
  BY <1>4
<1> DEFINE k == [m \in 0..N |-> g[m]]
<1>6. k = [m \in 0..N |-> IF m = 0 THEN cache ELSE CachePut(k[m - 1], KeyOf(batch[m]))]
  <2>1. ASSUME NEW m \in 0..N
        PROVE  g[m] = IF m = 0 THEN cache ELSE CachePut(k[m - 1], KeyOf(batch[m]))
    <3>1. m # 0 => m - 1 \in 0..N
      BY <1>1
    <3> QED BY <1>5, <3>1
  <2> QED BY <2>1
<1> HIDE DEF k
<1>7. CacheAfter = [m \in 0..N |->
                      IF m = 0 THEN cache ELSE CachePut(CacheAfter[m - 1], KeyOf(batch[m]))]
  BY <1>6 DEF CacheAfter
<1> QED BY <1>1, <1>7

\* A batch of any length fills the cache and does not overflow it.
LEMMA BatchCached ==
    ASSUME batch \in Seq(Calls), cache \in Caches
    PROVE  CacheAfter[Len(batch)] \in Caches
<1> DEFINE Good == {n \in Nat : n <= Len(batch) => CacheAfter[n] \in Caches}
<1>1. 0 \in Good
  BY CacheAfterUnfolds
<1>2. ASSUME NEW n \in Nat, n \in Good
      PROVE  n + 1 \in Good
  <2>1. SUFFICES ASSUME n + 1 <= Len(batch)
                 PROVE  CacheAfter[n + 1] \in Caches
    OBVIOUS
  <2>2. n + 1 \in 1..Len(batch) /\ (n + 1) - 1 = n /\ CacheAfter[n] \in Caches
    BY <1>2, <2>1
  <2>3. KeyOf(batch[n + 1]) \in Keys
    BY <2>2 DEF Calls, KeyOf
  <2>4. CacheAfter[n + 1] = CachePut(CacheAfter[n], KeyOf(batch[n + 1]))
    BY <2>2, CacheAfterUnfolds
  <2> QED BY <2>2, <2>3, <2>4, CachePutKeeps
<1> HIDE DEF Good
<1>3. Nat \subseteq Good
  BY <1>1, <1>2, SetInduction
<1> QED BY <1>3 DEF Good

-----------------------------------------------------------------------------
(* The line of the lock.                                                   *)

\* Task p takes the lock, whether or not it stood in the line.
TakesLock(p) ==
    /\ LockFree
    /\ p \notin cancelled
    /\ lockQueue' \in Seq(Procs)
    /\ IsInjective(lockQueue')
    /\ ToSet(lockQueue') \subseteq InLine \ {p}

LEMMA FreeLock ==
    ASSUME OpenInv, NEW p \in Procs, p \notin cancelled,
           LockFree, lockQueue = <<>>, UNCHANGED lockQueue
    PROVE  TakesLock(p)
BY EmptySequence DEF TakesLock

LEMMA LockedFromLine ==
    ASSUME OpenInv, NEW p, MayLock(p)
    PROVE  TakesLock(p) /\ p \in InLine
BY TailOnce DEF TakesLock, MayLock, OpenInv, LineInv, TypesInv

LEMMA JoinsLine ==
    ASSUME OpenInv, NEW p \in Procs, p \notin InLine,
           lockQueue' = Append(lockQueue, p)
    PROVE  /\ lockQueue' \in Seq(Procs)
           /\ IsInjective(lockQueue')
           /\ ToSet(lockQueue') \subseteq InLine \cup {p}
BY AppendOnce DEF OpenInv, LineInv, TypesInv

LEMMA LeavesLine ==
    ASSUME OpenInv, NEW p, LeaveLine(p)
    PROVE  /\ lockQueue' \in Seq(Procs)
           /\ IsInjective(lockQueue')
           /\ ToSet(lockQueue') \subseteq InLine \ {p}
<1>1. CASE p \notin ToSet(lockQueue) /\ UNCHANGED lockQueue
  BY <1>1 DEF OpenInv, LineInv, TypesInv
<1>2. CASE \E i \in DOMAIN lockQueue :
             lockQueue[i] = p /\ lockQueue' = RemoveAt(lockQueue, i)
  BY <1>2, RemoveOnce DEF OpenInv, LineInv, TypesInv
<1> QED BY <1>1, <1>2 DEF LeaveLine

-----------------------------------------------------------------------------
(* What a task does once it has the lock.                                  *)

LEMMA AppendKeeps ==
    ASSUME OpenInv, NEW c \in Calls, call[c] \in {"idle", "lockwait"},
           TakesLock(c), AppendAndTrigger(c),
           outcome' \in [Calls -> Outcomes],
           \A d \in Calls : outcome'[d] # "cancelled",
           UNCHANGED closeVars
    PROVE  OpenInv'
<1> DEFINE items == Append(pending, c)
<1> USE ProcsAssumption DEF OpenInv, closeVars, LockFree, Procs
<1>1. /\ c \notin Awaited /\ c \notin Timers /\ c # Closer /\ c # NoOne
      /\ Closer \notin Timers /\ NoOne \notin Timers
      /\ batch = <<>> /\ flusher = NoOne
  BY DEF Awaited, TakesLock, FuturesInv
<1>2. /\ items \in Seq(Calls) /\ IsInjective(items)
      /\ ToSet(items) = ToSet(pending) \cup {c} /\ items # <<>>
  BY <1>1, AppendOnce DEF FuturesInv, TypesInv
<1> HIDE DEF items
<1>3. CASE BatchFull(items)
  <2>1. /\ StartFlush(c, items) /\ UNCHANGED timer
        /\ call' = [call EXCEPT ![c] = "flushing"]
    BY <1>3 DEF AppendAndTrigger, items
  <2>2. TypesInv'
    BY <1>1, <1>2, <2>1 DEF TypesInv, StartFlush, CancelTarget, TimerAlive, TakesLock,
       CallPlaces
  <2>3. LineInv'
    BY <1>1, <2>1 DEF LineInv, TakesLock, InLine, TypesInv
  <2>4. FuturesInv'
    BY <1>1, <1>2, <2>1, EmptySequence DEF FuturesInv, StartFlush, Awaited, TypesInv
  <2>5. OwnerInv'
    BY <1>1, <2>1 DEF OwnerInv, StartFlush, CancelTarget, TakesLock
  <2>6. TimerInv'
    BY <1>1, <2>1 DEF TimerInv, StartFlush, CancelTarget, TimerAlive, TypesInv
  <2> QED BY <2>2, <2>3, <2>4, <2>5, <2>6
<1>4. CASE ~BatchFull(items)
  <2>1. /\ pending' = items /\ UNCHANGED <<batch, flusher, cancelled>>
        /\ call' = [call EXCEPT ![c] = "awaiting"]
    BY <1>4 DEF AppendAndTrigger, items, timerVars
  <2>2. \/ TimerAlive(flushTask) /\ UNCHANGED timerVars
        \/ \E t \in Timers :
              /\ timer[t] = "done"
              /\ timer' = [timer EXCEPT ![t] = "sleeping"]
              /\ flushTask' = t
    BY <1>4 DEF AppendAndTrigger, items
  <2>3. /\ timer' \in [Timers -> TimerPlaces] /\ flushTask' \in Timers
        /\ \A t \in Timers : \/ timer'[t] = timer[t]
                             \/ timer[t] = "done" /\ timer'[t] = "sleeping"
        /\ flushTask' = flushTask \/ flushTask' \notin cancelled
        /\ timer'[flushTask'] # "done"
    BY <2>2 DEF TypesInv, TimerPlaces, TimerAlive, timerVars
  <2>4. TypesInv'
    BY <1>1, <1>2, <2>1, <2>3 DEF TypesInv, TakesLock, CallPlaces
  <2>5. LineInv'
    BY <1>1, <2>1, <2>3 DEF LineInv, TakesLock, InLine, TypesInv
  <2>6. FuturesInv'
    BY <1>1, <1>2, <2>1, EmptySequence DEF FuturesInv, Awaited, TypesInv
  <2>7. OwnerInv'
    BY <1>1, <2>1, <2>3 DEF OwnerInv
  <2>8. TimerInv'
    BY <1>1, <2>1, <2>3 DEF TimerInv, TimerAlive
  <2> QED BY <2>4, <2>5, <2>6, <2>7, <2>8
<1> QED BY <1>3, <1>4

LEMMA TimerFlushKeeps ==
    ASSUME OpenInv, NEW t \in Timers, TakesLock(t), FlushIfPending(t),
           UNCHANGED <<callVars, closeVars>>
    PROVE  OpenInv'
<1> USE ProcsAssumption DEF OpenInv, closeVars, callVars, LockFree, Procs
<1>1. /\ t \notin Calls /\ t # Closer /\ t # NoOne
      /\ batch = <<>> /\ flusher = NoOne
  BY DEF TakesLock, FuturesInv
<1>2. CASE pending # <<>>
  <2>1. StartFlush(t, pending) /\ timer' = [timer EXCEPT ![t] = "flushing"]
    BY <1>2 DEF FlushIfPending
  <2>2. TypesInv'
    BY <1>1, <2>1 DEF TypesInv, StartFlush, CancelTarget, TimerAlive, TakesLock,
       TimerPlaces
  <2>3. LineInv'
    BY <1>1, <2>1 DEF LineInv, TakesLock, InLine, TypesInv
  <2>4. FuturesInv'
    BY <1>1, <2>1, EmptySequence DEF FuturesInv, StartFlush, Awaited
  <2>5. OwnerInv'
    BY <1>1, <2>1 DEF OwnerInv, StartFlush, CancelTarget, TakesLock, TypesInv
  <2>6. TimerInv'
    BY <1>1, <2>1 DEF TimerInv, StartFlush, CancelTarget, TimerAlive, TypesInv
  <2> QED BY <2>2, <2>3, <2>4, <2>5, <2>6
<1>3. CASE pending = <<>>
  <2>1. /\ timer' = [timer EXCEPT ![t] = "done"]
        /\ UNCHANGED <<batchVars, flusher, cancelled, flushTask>>
    BY <1>3 DEF FlushIfPending
  <2>2. TypesInv'
    BY <1>1, <2>1 DEF TypesInv, TakesLock, TimerPlaces, batchVars
  <2>3. LineInv'
    BY <1>1, <2>1 DEF LineInv, TakesLock, InLine, TypesInv
  <2>4. FuturesInv'
    BY <1>1, <2>1 DEF FuturesInv, Awaited, batchVars
  <2>5. OwnerInv'
    BY <1>1, <2>1 DEF OwnerInv, TypesInv
  <2>6. TimerInv'
    BY <1>1, <1>3, <2>1 DEF TimerInv, batchVars
  <2> QED BY <2>2, <2>3, <2>4, <2>5, <2>6
<1> QED BY <1>2, <1>3

LEMMA CloseFlushKeeps ==
    ASSUME OpenInv, TakesLock(Closer), CloseFlush, flushTask \notin cancelled,
           joined' \in Timers \cup {NoOne}, UNCHANGED <<callVars, timer>>
    PROVE  OpenInv'
<1> USE ProcsAssumption DEF OpenInv, callVars, LockFree, Procs
<1>1. /\ Closer \notin Calls /\ Closer \notin Timers /\ Closer # NoOne
      /\ batch = <<>> /\ flusher = NoOne
  BY DEF TakesLock, FuturesInv
<1>2. CASE pending # <<>>
  <2>1. StartFlush(Closer, pending) /\ closer' = "flushing"
    BY <1>2 DEF CloseFlush
  <2>2. TypesInv'
    BY <1>1, <2>1 DEF TypesInv, StartFlush, CancelTarget, TimerAlive, TakesLock,
       CloserPlaces
  <2>3. LineInv'
    BY <1>1, <2>1 DEF LineInv, TakesLock, InLine
  <2>4. FuturesInv'
    BY <1>1, <2>1, EmptySequence DEF FuturesInv, StartFlush, Awaited
  <2>5. OwnerInv'
    BY <1>1, <2>1 DEF OwnerInv, StartFlush, CancelTarget, TakesLock, TypesInv
  <2>6. TimerInv'
    BY <1>1, <2>1 DEF TimerInv, StartFlush, CancelTarget, TimerAlive, TypesInv
  <2> QED BY <2>2, <2>3, <2>4, <2>5, <2>6
<1>3. CASE pending = <<>>
  <2>1. /\ closer' = "closed"
        /\ UNCHANGED <<batchVars, flusher, cancelled, flushTask>>
    BY <1>3 DEF CloseFlush
  <2>2. TypesInv'
    BY <1>1, <2>1 DEF TypesInv, TakesLock, CloserPlaces, batchVars
  <2>3. LineInv'
    BY <1>1, <2>1 DEF LineInv, TakesLock, InLine
  <2>4. FuturesInv'
    BY <1>1, <2>1 DEF FuturesInv, Awaited, batchVars
  <2>5. OwnerInv'
    BY <1>1, <2>1 DEF OwnerInv
  <2>6. TimerInv'
    BY <1>1, <1>3, <2>1 DEF TimerInv, batchVars
  <2> QED BY <2>2, <2>3, <2>4, <2>5, <2>6
<1> QED BY <1>2, <1>3

-----------------------------------------------------------------------------
(* One lemma per action of a process whose loop is running.                *)

LEMMA InitIInv == Init => IInv
<1> SUFFICES ASSUME Init
             PROVE  IInv
  OBVIOUS
<1> USE ProcsAssumption, EmptySequence DEF Init, Procs
<1>1. TypesInv
  BY DEF TypesInv, CallPlaces, Outcomes, TimerPlaces, CloserPlaces
<1>2. LineInv /\ FuturesInv /\ OwnerInv /\ TimerInv
  BY DEF LineInv, FuturesInv, Awaited, OwnerInv, TimerInv
<1> QED BY <1>1, <1>2 DEF IInv, OpenInv

LEMMA CacheHitKeeps ==
    ASSUME OpenInv, NEW c \in Calls, CacheHit(c)
    PROVE  OpenInv'
<1> USE DEF OpenInv, CacheHit, batchVars, lockVars, timerVars, closeVars
<1>1. TypesInv'
  BY DEF TypesInv, Outcomes
<1>2. LineInv' /\ FuturesInv' /\ TimerInv'
  BY DEF LineInv, InLine, FuturesInv, Awaited, TimerInv, TimerAlive
<1>3. OwnerInv'
  BY DEF OwnerInv, TypesInv
<1> QED BY <1>1, <1>2, <1>3

LEMMA CacheMissKeeps ==
    ASSUME OpenInv, NEW c \in Calls, CacheMiss(c)
    PROVE  OpenInv'
<1>1. /\ c \in Procs /\ c \notin Timers /\ c # Closer
      /\ c \notin cancelled /\ c \notin InLine /\ call[c] = "idle"
  BY ProcsAssumption DEF Procs, CacheMiss, OpenInv, TypesInv, InLine
<1>2. /\ outcome' \in [Calls -> Outcomes]
      /\ \A d \in Calls : outcome'[d] # "cancelled"
      /\ UNCHANGED closeVars
  BY DEF CacheMiss, OpenInv, TypesInv, OwnerInv, Outcomes
<1>3. CASE LockFree /\ lockQueue = <<>>
  <2>1. AppendAndTrigger(c) /\ UNCHANGED lockQueue
    BY <1>3 DEF CacheMiss
  <2>2. TakesLock(c)
    BY <1>1, <1>3, <2>1, FreeLock
  <2> QED BY <1>1, <1>2, <2>1, <2>2, AppendKeeps
<1>4. CASE ~(LockFree /\ lockQueue = <<>>)
  <2>1. /\ lockQueue' = Append(lockQueue, c)
        /\ call' = [call EXCEPT ![c] = "lockwait"]
        /\ UNCHANGED <<pending, batch, flusher, timer, cancelled, flushTask, closer, joined>>
    BY <1>4 DEF CacheMiss, batchVars, timerVars, closeVars
  <2>2. /\ lockQueue' \in Seq(Procs) /\ IsInjective(lockQueue')
        /\ ToSet(lockQueue') \subseteq InLine \cup {c}
    BY <1>1, <2>1, JoinsLine
  <2>3. TypesInv'
    BY <1>2, <2>1, <2>2 DEF OpenInv, TypesInv, CallPlaces
  <2>4. LineInv'
    BY <2>1, <2>2 DEF LineInv, InLine, OpenInv, TypesInv
  <2>5. FuturesInv'
    BY <1>1, <2>1 DEF FuturesInv, Awaited, OpenInv, TypesInv
  <2>6. OwnerInv' /\ TimerInv'
    BY <1>2, <2>1 DEF OwnerInv, TimerInv, TimerAlive, OpenInv
  <2> QED BY <2>3, <2>4, <2>5, <2>6 DEF OpenInv
<1> QED BY <1>3, <1>4

LEMMA CallLocksKeeps ==
    ASSUME OpenInv, NEW c \in Calls, CallLocks(c)
    PROVE  OpenInv'
<1>1. TakesLock(c) /\ c \in InLine
  BY LockedFromLine DEF CallLocks
<1>2. call[c] = "lockwait"
  BY <1>1, ProcsAssumption DEF InLine
<1> QED BY <1>1, <1>2, AppendKeeps DEF CallLocks, OpenInv, TypesInv, OwnerInv

LEMMA TimerFiresKeeps ==
    ASSUME OpenInv, NEW t \in Timers, TimerFires(t)
    PROVE  OpenInv'
<1>1. /\ t \in Procs /\ t \notin Calls /\ t # Closer
      /\ t \notin cancelled /\ t \notin InLine /\ timer[t] = "sleeping"
      /\ UNCHANGED <<callVars, closeVars>>
  BY ProcsAssumption DEF Procs, TimerFires, InLine
<1>2. CASE LockFree /\ lockQueue = <<>>
  <2>1. FlushIfPending(t) /\ UNCHANGED lockQueue
    BY <1>2 DEF TimerFires
  <2>2. TakesLock(t)
    BY <1>1, <1>2, <2>1, FreeLock
  <2> QED BY <1>1, <2>1, <2>2, TimerFlushKeeps
<1>3. CASE ~(LockFree /\ lockQueue = <<>>)
  <2>1. /\ lockQueue' = Append(lockQueue, t)
        /\ timer' = [timer EXCEPT ![t] = "lockwait"]
        /\ UNCHANGED <<call, outcome, pending, batch, flusher, cancelled, flushTask, closer, joined>>
    BY <1>3 DEF TimerFires, callVars, batchVars, closeVars
  <2>2. /\ lockQueue' \in Seq(Procs) /\ IsInjective(lockQueue')
        /\ ToSet(lockQueue') \subseteq InLine \cup {t}
    BY <1>1, <2>1, JoinsLine
  <2>3. TypesInv'
    BY <1>1, <2>1, <2>2 DEF OpenInv, TypesInv, TimerPlaces
  <2>4. LineInv'
    BY <2>1, <2>2 DEF LineInv, InLine, OpenInv, TypesInv
  <2>5. FuturesInv'
    BY <2>1 DEF FuturesInv, Awaited, OpenInv
  <2>6. OwnerInv' /\ TimerInv'
    BY <1>1, <2>1 DEF OwnerInv, TimerInv, TimerAlive, OpenInv, TypesInv
  <2> QED BY <2>3, <2>4, <2>5, <2>6 DEF OpenInv
<1> QED BY <1>2, <1>3

LEMMA TimerLocksKeeps ==
    ASSUME OpenInv, NEW t \in Timers, TimerLocks(t)
    PROVE  OpenInv'
<1>1. TakesLock(t)
  BY LockedFromLine DEF TimerLocks
<1> QED BY <1>1, TimerFlushKeeps DEF TimerLocks

\* The flush ends, however: its batch is resolved and its owner moves on.
LEMMA FlushEndsKeeps ==
    ASSUME OpenInv, ProviderReturns \/ ProviderFails
    PROVE  OpenInv'
<1> USE ProcsAssumption DEF OpenInv, Procs
<1>1. PICK how \in {"vector", "error"} : Resolve(Unresolved, how)
  BY DEF ProviderReturns, ProviderFails
<1>2. /\ flusher # NoOne /\ FlusherDone
      /\ UNCHANGED <<pending, lockQueue, flushTask, joined>>
  BY DEF ProviderReturns, ProviderFails
<1>3. /\ pending = <<>> /\ flushTask = NoOne /\ Awaited = ToSet(batch)
      /\ flusher \notin cancelled
  BY <1>2, EmptySequence DEF FuturesInv, OwnerInv
<1>4. /\ Unresolved = Awaited
      /\ \A c \in Calls : call'[c] = IF c \in Awaited THEN "idle" ELSE call[c]
  BY <1>1, <1>3 DEF Unresolved, Resolve, Awaited
<1>5. TypesInv'
  <2>1. /\ call' \in [Calls -> CallPlaces] /\ outcome' \in [Calls -> Outcomes]
    BY <1>1 DEF Resolve, TypesInv, CallPlaces, Outcomes
  <2>2. /\ timer' \in [Timers -> TimerPlaces] /\ closer' \in CloserPlaces
        /\ cancelled' \subseteq {t \in Timers : timer'[t] # "done"}
    BY <1>2 DEF FlusherDone, TypesInv, TimerPlaces, CloserPlaces
  <2>3. batch' = <<>> /\ flusher' = NoOne
    BY <1>2 DEF FlusherDone
  <2> QED BY <1>2, <2>1, <2>2, <2>3, EmptySequence DEF TypesInv
<1>6. LineInv'
  BY <1>2, <1>4 DEF LineInv, InLine, Awaited, OwnerInv, FlusherDone
<1>7. FuturesInv'
  BY <1>2, <1>3, <1>4, EmptySequence DEF FuturesInv, FlusherDone, Awaited
<1>8. OwnerInv'
  BY <1>1, <1>2 DEF OwnerInv, FlusherDone, Resolve, TypesInv
<1>9. TimerInv'
  BY <1>2, <1>3 DEF TimerInv, FlusherDone, TypesInv
<1> QED BY <1>5, <1>6, <1>7, <1>8, <1>9

LEMMA TimerCancelledKeeps ==
    ASSUME OpenInv, NEW t \in Timers, TimerCancelled(t)
    PROVE  OpenInv'
<1> USE ProcsAssumption DEF OpenInv, Procs
<1>1. ~FlushCancelled(t)
  BY DEF FlushCancelled, OwnerInv, TimerCancelled
<1>2. /\ t \in cancelled /\ timer[t] \in {"sleeping", "lockwait"} /\ LeaveLine(t)
      /\ timer' = [timer EXCEPT ![t] = "done"] /\ cancelled' = cancelled \ {t}
      /\ UNCHANGED <<call, outcome, pending, batch, flusher, flushTask, closer, joined>>
  BY <1>1 DEF TimerCancelled, callVars, batchVars, closeVars
<1>3. /\ lockQueue' \in Seq(Procs) /\ IsInjective(lockQueue')
      /\ ToSet(lockQueue') \subseteq InLine \ {t}
  BY <1>2, LeavesLine
<1>4. TypesInv'
  BY <1>2, <1>3 DEF TypesInv, TimerPlaces
<1>5. LineInv'
  BY <1>2, <1>3 DEF LineInv, InLine, TypesInv
<1>6. FuturesInv'
  BY <1>2 DEF FuturesInv, Awaited
<1>7. OwnerInv'
  BY <1>2 DEF OwnerInv, TypesInv
<1>8. TimerInv'
  BY <1>2 DEF TimerInv, TimerAlive, TypesInv
<1> QED BY <1>4, <1>5, <1>6, <1>7, <1>8

LEMMA AskCloseLockKeeps ==
    ASSUME OpenInv, AskCloseLock, closer \in {"none", "joining"},
           flushTask \notin cancelled, joined' \in Timers \cup {NoOne},
           UNCHANGED <<callVars, timer>>
    PROVE  OpenInv'
<1>1. /\ Closer \in Procs /\ Closer \notin Calls /\ Closer \notin Timers
      /\ Closer \notin cancelled /\ Closer \notin InLine
  BY ProcsAssumption DEF Procs, OpenInv, TypesInv, InLine
<1>2. CASE LockFree /\ lockQueue = <<>>
  <2>1. CloseFlush /\ UNCHANGED lockQueue
    BY <1>2 DEF AskCloseLock
  <2>2. TakesLock(Closer)
    BY <1>1, <1>2, <2>1, FreeLock
  <2> QED BY <2>1, <2>2, CloseFlushKeeps
<1>3. CASE ~(LockFree /\ lockQueue = <<>>)
  <2>1. /\ lockQueue' = Append(lockQueue, Closer) /\ closer' = "lockwait"
        /\ UNCHANGED <<call, outcome, timer, pending, batch, flusher, cancelled, flushTask>>
    BY <1>3 DEF AskCloseLock, batchVars, callVars
  <2>2. /\ lockQueue' \in Seq(Procs) /\ IsInjective(lockQueue')
        /\ ToSet(lockQueue') \subseteq InLine \cup {Closer}
    BY <1>1, <2>1, JoinsLine
  <2>3. TypesInv'
    BY <2>1, <2>2 DEF OpenInv, TypesInv, CloserPlaces
  <2>4. LineInv'
    BY <2>1, <2>2 DEF LineInv, InLine
  <2>5. FuturesInv'
    BY <2>1 DEF FuturesInv, Awaited, OpenInv
  <2>6. OwnerInv' /\ TimerInv'
    BY <2>1 DEF OwnerInv, TimerInv, OpenInv
  <2> QED BY <2>3, <2>4, <2>5, <2>6 DEF OpenInv
<1> QED BY <1>2, <1>3

LEMMA CloseKeeps ==
    ASSUME OpenInv, Close
    PROVE  OpenInv'
<1>1. CASE TimerAlive(flushTask)
  <2> USE ProcsAssumption DEF OpenInv, Procs
  <2>1. /\ cancelled' = cancelled \cup CancelTarget(Closer)
        /\ joined' = flushTask /\ closer' = "joining" /\ closer = "none"
        /\ UNCHANGED <<call, outcome, timer, pending, batch, flusher, lockQueue, flushTask>>
    BY <1>1 DEF Close, callVars, batchVars, lockVars
  <2>2. flushTask \in Timers /\ flusher = NoOne
    BY <1>1 DEF TimerAlive, FuturesInv
  <2>3. TypesInv'
    BY <2>1, <2>2 DEF TypesInv, CancelTarget, TimerAlive, CloserPlaces
  <2>4. LineInv' /\ FuturesInv'
    BY <2>1 DEF LineInv, InLine, FuturesInv, Awaited
  <2>5. OwnerInv'
    BY <2>1, <2>2 DEF OwnerInv, CancelTarget
  <2>6. TimerInv'
    BY <2>1 DEF TimerInv
  <2> QED BY <2>3, <2>4, <2>5, <2>6
<1>2. CASE ~TimerAlive(flushTask)
  <2>1. flushTask \notin cancelled
    BY <1>2 DEF OpenInv, TypesInv, TimerAlive
  <2> QED BY <1>2, <2>1, AskCloseLockKeeps DEF Close, OpenInv, TypesInv
<1> QED BY <1>1, <1>2

LEMMA CloserJoinsKeeps ==
    ASSUME OpenInv, CloserJoins
    PROVE  OpenInv'
<1>1. flushTask \notin cancelled
  BY DEF OpenInv, TypesInv, TimerInv, CloserJoins
<1> QED BY <1>1, AskCloseLockKeeps DEF CloserJoins

LEMMA CloserLocksKeeps ==
    ASSUME OpenInv, CloserLocks
    PROVE  OpenInv'
<1>1. TakesLock(Closer) /\ Closer \in InLine
  BY LockedFromLine DEF CloserLocks
<1>2. flushTask \notin cancelled
  BY <1>1, ProcsAssumption DEF InLine, OpenInv, TimerInv
<1> QED BY <1>1, <1>2, CloseFlushKeeps DEF CloserLocks, OpenInv, TypesInv

-----------------------------------------------------------------------------
(* The invariant.                                                          *)

\* Closing is over when the teardown begins.
LEMMA TeardownKeeps ==
    ASSUME IInv, Next, phase = "teardown"
    PROVE  phase' = "teardown" /\ closer' = "closed"
<1> USE DEF IInv
<1>1. ASSUME NEW p, FlushCancelled(p)
      PROVE  phase' = phase /\ closer' = "closed"
  BY <1>1 DEF FlushCancelled, FlusherDone
<1>2. ASSUME NEW c \in Calls, CacheHit(c) \/ CacheMiss(c) \/ CallLocks(c) \/ CancelCall(c)
      PROVE  phase' = phase /\ closer' = "closed"
  BY <1>1, <1>2 DEF CacheHit, CacheMiss, CallLocks, CancelCall, closeVars
<1>3. ASSUME NEW t \in Timers,
             TimerFires(t) \/ TimerLocks(t) \/ TimerCancelled(t) \/ CancelTimer(t)
      PROVE  phase' = phase /\ closer' = "closed"
  BY <1>1, <1>3 DEF TimerFires, TimerLocks, TimerCancelled, CancelTimer, closeVars
<1>4. /\ ~ProviderReturns /\ ~ProviderFails /\ ~Close /\ ~CloserJoins
      /\ ~CloserLocks /\ ~BeginTeardown
  BY DEF ProviderReturns, ProviderFails, Close, CloserJoins, CloserLocks, BeginTeardown
<1>5. CASE Terminated
  BY <1>5 DEF Terminated, vars
<1> QED BY <1>2, <1>3, <1>4, <1>5 DEF Next

LEMMA OpenKeeps ==
    ASSUME IInv, Next, phase = "open"
    PROVE  \/ phase' = "open" /\ OpenInv'
           \/ BeginTeardown
<1> USE DEF IInv
<1>1. ASSUME NEW c \in Calls, CacheHit(c) \/ CacheMiss(c) \/ CallLocks(c) \/ CancelCall(c)
      PROVE  phase' = phase /\ OpenInv'
  <2>1. ~CancelCall(c)
    BY DEF CancelCall
  <2>2. phase' = phase
    BY <1>1, <2>1 DEF CacheHit, CacheMiss, CallLocks
  <2> QED BY <1>1, <2>1, <2>2, CacheHitKeeps, CacheMissKeeps, CallLocksKeeps
<1>2. ASSUME NEW t \in Timers,
             TimerFires(t) \/ TimerLocks(t) \/ TimerCancelled(t) \/ CancelTimer(t)
      PROVE  phase' = phase /\ OpenInv'
  <2>1. ~CancelTimer(t)
    BY DEF CancelTimer
  <2>2. phase' = phase
    BY <1>2, <2>1 DEF TimerFires, TimerLocks, TimerCancelled, FlushCancelled
  <2> QED BY <1>2, <2>1, <2>2, TimerFiresKeeps, TimerLocksKeeps, TimerCancelledKeeps
<1>3. CASE ProviderReturns \/ ProviderFails
  <2>1. phase' = phase
    BY <1>3 DEF ProviderReturns, ProviderFails
  <2> QED BY <1>3, <2>1, FlushEndsKeeps
<1>4. CASE Close \/ CloserJoins \/ CloserLocks
  <2>1. phase' = phase
    BY <1>4 DEF Close, CloserJoins, CloserLocks
  <2> QED BY <1>4, <2>1, CloseKeeps, CloserJoinsKeeps, CloserLocksKeeps
<1>5. ~Terminated
  BY DEF Terminated
<1> QED BY <1>1, <1>2, <1>3, <1>4, <1>5 DEF Next

LEMMA NextIInv == IInv /\ [Next]_vars => IInv'
<1> SUFFICES ASSUME IInv, [Next]_vars
             PROVE  IInv'
  OBVIOUS
<1>1. CASE UNCHANGED vars
  BY <1>1 DEF vars, IInv, OpenInv, TypesInv, LineInv, InLine, FuturesInv, Awaited,
     OwnerInv, TimerInv, TimerAlive
<1>2. CASE Next /\ phase = "teardown"
  BY <1>2, TeardownKeeps DEF IInv
<1>3. CASE Next /\ phase = "open"
  <2>1. CASE BeginTeardown
    BY <2>1 DEF BeginTeardown, IInv, closeVars
  <2> QED BY <1>3, <2>1, OpenKeeps DEF IInv
<1> QED BY <1>1, <1>2, <1>3 DEF IInv

LEMMA Invariance == Spec => []IInv
BY InitIInv, NextIInv, PTL DEF Spec

-----------------------------------------------------------------------------
(* Types and sizes, through the teardown as well.                          *)

\* The types of the variables of _flush and of the lock.
QueuesTyped ==
    /\ pending \in Seq(Calls)
    /\ batch \in Seq(Calls)
    /\ flusher \in Procs \cup {NoOne}
    /\ lockQueue \in Seq(Procs)
    /\ flushTask \in Timers \cup {NoOne}
    /\ cancelled \subseteq {t \in Timers : timer[t] # "done"}

\* A batch is taken whole, and is full as soon as _pending would have
\* max_batch_size texts.
BatchInv ==
    /\ flusher # NoOne => pending = <<>> /\ batch # <<>>
    /\ Len(batch) <= MaxBatch
    /\ Len(pending) < MaxBatch

StoreInv ==
    /\ QueuesTyped
    /\ BatchInv
    /\ cache \in Caches
    /\ call \in [Calls -> CallPlaces] /\ outcome \in [Calls -> Outcomes]
    /\ timer \in [Timers -> TimerPlaces]
    /\ closer \in CloserPlaces /\ joined \in Timers \cup {NoOne}
    /\ phase \in {"open", "teardown"}

LEMMA InitStoreInv == Init => StoreInv
<1> SUFFICES ASSUME Init
             PROVE  StoreInv
  OBVIOUS
<1> USE EmptySequence DEF Init
<1>1. QueuesTyped /\ BatchInv /\ cache \in Caches
  BY MaxBatchAssumption, CacheSizeAssumption DEF QueuesTyped, BatchInv, Caches
<1> QED BY <1>1 DEF StoreInv, CallPlaces, Outcomes, TimerPlaces, CloserPlaces

LEMMA LineTyped ==
    ASSUME lockQueue \in Seq(Procs), NEW p,
           LeaveLine(p) \/ MayLock(p)
              \/ (p \in Procs /\ lockQueue' = Append(lockQueue, p)) \/ UNCHANGED lockQueue
    PROVE  lockQueue' \in Seq(Procs)
<1>1. CASE LeaveLine(p)
  <2>1. ASSUME NEW i \in DOMAIN lockQueue
        PROVE  RemoveAt(lockQueue, i) \in Seq(Procs)
    <3>1. Len(lockQueue) \in Nat /\ i \in 1..Len(lockQueue)
      OBVIOUS
    <3>2. /\ SubSeq(lockQueue, 1, i - 1) \in Seq(Procs)
          /\ SubSeq(lockQueue, i + 1, Len(lockQueue)) \in Seq(Procs)
      BY <3>1, SubSeqProperties
    <3> QED BY <3>2, ConcatProperties DEF RemoveAt
  <2> QED BY <1>1, <2>1 DEF LeaveLine
<1>2. CASE MayLock(p)
  BY <1>2, HeadTailProperties DEF MayLock
<1> QED BY <1>1, <1>2

\* Whoever flushes takes a batch that is not too long.
LEMMA StartFlushSizes ==
    ASSUME QueuesTyped, NEW p \in Procs, NEW items \in Seq(Calls), items # <<>>,
           Len(items) <= MaxBatch, StartFlush(p, items),
           lockQueue' \in Seq(Procs),
           \A t \in Timers : timer'[t] = "done" => timer[t] = "done" /\ t \notin cancelled
    PROVE  QueuesTyped' /\ BatchInv'
<1> USE ProcsAssumption, MaxBatchAssumption
<1>1. /\ batch' = items /\ pending' = <<>> /\ flusher' = p /\ flushTask' = NoOne
      /\ cancelled' = cancelled \cup CancelTarget(p)
  BY DEF StartFlush
<1>2. cancelled' \subseteq {t \in Timers : timer'[t] # "done"}
  BY <1>1 DEF QueuesTyped, CancelTarget, TimerAlive
<1>3. QueuesTyped'
  BY <1>1, <1>2, EmptySequence DEF QueuesTyped
<1>4. BatchInv'
  BY <1>1 DEF BatchInv
<1> QED BY <1>3, <1>4

LEMMA AppendSizes ==
    ASSUME StoreInv, NEW c \in Calls, LockFree, AppendAndTrigger(c),
           lockQueue' \in Seq(Procs)
    PROVE  /\ QueuesTyped' /\ BatchInv'
           /\ call' \in [Calls -> CallPlaces] /\ timer' \in [Timers -> TimerPlaces]
<1> DEFINE items == Append(pending, c)
<1> USE DEF StoreInv
<1>1. /\ items \in Seq(Calls) /\ items # <<>> /\ c \in Procs
      /\ Len(items) = Len(pending) + 1 /\ Len(pending) \in Nat /\ Len(pending) < MaxBatch
  <2>1. pending \in Seq(Calls) /\ Len(pending) < MaxBatch
    BY DEF QueuesTyped, BatchInv
  <2>2. c \in Procs
    BY DEF Procs
  <2> HIDE DEF StoreInv
  <2>3. Append(pending, c) \in Seq(Calls) /\ Len(Append(pending, c)) = Len(pending) + 1
    BY <2>1
  <2>4. Append(pending, c) # <<>> /\ Len(pending) \in Nat
    BY <2>1
  <2> QED BY <2>1, <2>2, <2>3, <2>4
<1> HIDE DEF items
<1>2. CASE BatchFull(items)
  <2>1. /\ StartFlush(c, items) /\ UNCHANGED timer
        /\ call' = [call EXCEPT ![c] = "flushing"]
    BY <1>2 DEF AppendAndTrigger, items
  <2>2. Len(items) <= MaxBatch
    BY <1>1, MaxBatchAssumption
  <2>3. \A t \in Timers : timer'[t] = "done" => timer[t] = "done" /\ t \notin cancelled
    BY <2>1 DEF QueuesTyped
  <2>4. QueuesTyped' /\ BatchInv'
    BY <1>1, <2>1, <2>2, <2>3, StartFlushSizes
  <2> QED BY <2>1, <2>4 DEF CallPlaces
<1>3. CASE ~BatchFull(items)
  <2>1. /\ pending' = items /\ UNCHANGED <<batch, flusher, cancelled>>
        /\ call' = [call EXCEPT ![c] = "awaiting"]
    BY <1>3 DEF AppendAndTrigger, items, timerVars
  <2>2. \/ UNCHANGED timerVars
        \/ \E t \in Timers : timer' = [timer EXCEPT ![t] = "sleeping"] /\ flushTask' = t
    BY <1>3 DEF AppendAndTrigger, items
  <2>3. /\ timer' \in [Timers -> TimerPlaces] /\ flushTask' \in Timers \cup {NoOne}
        /\ \A t \in Timers : timer'[t] = timer[t] \/ timer'[t] = "sleeping"
    BY <2>2 DEF TimerPlaces, timerVars, QueuesTyped
  <2>4. QueuesTyped'
    BY <1>1, <2>1, <2>3 DEF QueuesTyped
  <2>5. BatchInv'
    BY <1>1, <1>3, <2>1, MaxBatchAssumption DEF BatchInv, BatchFull, LockFree
  <2> QED BY <2>1, <2>3, <2>4, <2>5 DEF CallPlaces
<1> QED BY <1>2, <1>3

LEMMA CallSizes ==
    ASSUME StoreInv, NEW c \in Calls, CacheHit(c) \/ CacheMiss(c) \/ CallLocks(c)
    PROVE  StoreInv'
<1> USE DEF StoreInv
<1>1. CASE CacheHit(c)
  <2>1. KeyOf(c) \in Keys /\ Held(cache, KeyOf(c)) # {}
    BY <1>1 DEF CacheHit, Cached, KeyOf, Calls
  <2>2. cache' \in Caches
    BY <1>1, <2>1, MoveToEndKeeps DEF CacheHit, Caches
  <2>3. QueuesTyped' /\ BatchInv'
    BY <1>1 DEF CacheHit, batchVars, lockVars, timerVars, QueuesTyped, BatchInv
  <2>4. outcome' \in [Calls -> Outcomes]
    BY <1>1 DEF CacheHit, Outcomes
  <2> QED BY <1>1, <2>2, <2>3, <2>4 DEF CacheHit, closeVars, timerVars, batchVars
<1>2. CASE CacheMiss(c)
  <2>1. outcome' \in [Calls -> Outcomes] /\ UNCHANGED <<cache, closer, joined, phase>>
    BY <1>2 DEF CacheMiss, closeVars, Outcomes
  <2>2. CASE LockFree /\ lockQueue = <<>>
    <3>1. AppendAndTrigger(c) /\ lockQueue' \in Seq(Procs)
      BY <1>2, <2>2 DEF CacheMiss, QueuesTyped
    <3> QED BY <2>1, <2>2, <3>1, AppendSizes
  <2>3. CASE ~(LockFree /\ lockQueue = <<>>)
    <3>1. /\ lockQueue' = Append(lockQueue, c)
          /\ call' = [call EXCEPT ![c] = "lockwait"]
          /\ UNCHANGED <<pending, batch, flusher, timer, cancelled, flushTask>>
      BY <1>2, <2>3 DEF CacheMiss, batchVars, timerVars
    <3>2. lockQueue' \in Seq(Procs)
      BY <3>1 DEF QueuesTyped, Procs
    <3>3. QueuesTyped' /\ BatchInv'
      BY <3>1, <3>2 DEF QueuesTyped, BatchInv
    <3> QED BY <2>1, <3>1, <3>3 DEF CallPlaces
  <2> QED BY <2>2, <2>3
<1>3. CASE CallLocks(c)
  <2>1. /\ MayLock(c) /\ AppendAndTrigger(c) /\ LockFree
        /\ UNCHANGED <<outcome, cache, closer, joined, phase>>
    BY <1>3 DEF CallLocks, MayLock, closeVars
  <2>2. lockQueue' \in Seq(Procs)
    BY <2>1, LineTyped DEF QueuesTyped
  <2> QED BY <2>1, <2>2, AppendSizes
<1> QED BY <1>1, <1>2, <1>3

LEMMA TimerFlushSizes ==
    ASSUME StoreInv, NEW t \in Timers, t \notin cancelled, timer[t] # "done" \/ MayLock(t),
           FlushIfPending(t), lockQueue' \in Seq(Procs)
    PROVE  QueuesTyped' /\ BatchInv' /\ timer' \in [Timers -> TimerPlaces]
<1> USE DEF StoreInv
<1>1. Len(pending) <= MaxBatch /\ t \in Procs /\ pending \in Seq(Calls)
  BY MaxBatchAssumption DEF QueuesTyped, BatchInv, Procs
<1>2. CASE pending # <<>>
  <2>1. StartFlush(t, pending) /\ timer' = [timer EXCEPT ![t] = "flushing"]
    BY <1>2 DEF FlushIfPending
  <2>2. \A s \in Timers : timer'[s] = "done" => timer[s] = "done" /\ s \notin cancelled
    BY <2>1 DEF QueuesTyped
  <2>3. QueuesTyped' /\ BatchInv'
    BY <1>1, <1>2, <2>1, <2>2, StartFlushSizes
  <2> QED BY <2>1, <2>3 DEF TimerPlaces
<1>3. CASE pending = <<>>
  <2>1. /\ timer' = [timer EXCEPT ![t] = "done"]
        /\ UNCHANGED <<pending, batch, flusher, cancelled, flushTask>>
    BY <1>3 DEF FlushIfPending, batchVars
  <2>2. QueuesTyped' /\ BatchInv'
    BY <2>1 DEF QueuesTyped, BatchInv
  <2> QED BY <2>1, <2>2 DEF TimerPlaces
<1> QED BY <1>2, <1>3

LEMMA TimerSizes ==
    ASSUME StoreInv, NEW t \in Timers, TimerFires(t) \/ TimerLocks(t)
    PROVE  StoreInv'
<1> USE DEF StoreInv
<1>1. UNCHANGED <<call, outcome, cache, closer, joined, phase>>
  BY DEF TimerFires, TimerLocks, callVars, closeVars
<1>2. CASE TimerFires(t)
  <2>1. CASE LockFree /\ lockQueue = <<>>
    <3>1. /\ FlushIfPending(t) /\ lockQueue' \in Seq(Procs)
          /\ t \notin cancelled /\ timer[t] # "done"
      BY <1>2, <2>1 DEF TimerFires, QueuesTyped
    <3> QED BY <1>1, <3>1, TimerFlushSizes
  <2>2. CASE ~(LockFree /\ lockQueue = <<>>)
    <3>1. /\ lockQueue' = Append(lockQueue, t)
          /\ timer' = [timer EXCEPT ![t] = "lockwait"]
          /\ UNCHANGED <<pending, batch, flusher, cancelled, flushTask>>
      BY <1>2, <2>2 DEF TimerFires, batchVars
    <3>2. lockQueue' \in Seq(Procs)
      BY <3>1 DEF QueuesTyped, Procs
    <3>3. QueuesTyped' /\ BatchInv'
      BY <3>1, <3>2 DEF QueuesTyped, BatchInv
    <3> QED BY <1>1, <3>1, <3>3 DEF TimerPlaces
  <2> QED BY <2>1, <2>2
<1>3. CASE TimerLocks(t)
  <2>1. MayLock(t) /\ FlushIfPending(t) /\ t \notin cancelled
    BY <1>3 DEF TimerLocks, MayLock
  <2>2. lockQueue' \in Seq(Procs)
    BY <2>1, LineTyped DEF QueuesTyped
  <2> QED BY <1>1, <2>1, <2>2, TimerFlushSizes
<1> QED BY <1>2, <1>3

\* The end of a flush, for any reason.
LEMMA FlusherDoneSizes ==
    ASSUME StoreInv, FlusherDone, NEW how \in Outcomes, Resolve(Unresolved, how),
           cache' \in Caches, UNCHANGED <<pending, lockQueue, flushTask, joined, phase>>
    PROVE  StoreInv'
<1> USE DEF StoreInv
<1>1. /\ flusher' = NoOne /\ batch' = <<>>
      /\ timer' = [t \in Timers |-> IF t = flusher THEN "done" ELSE timer[t]]
      /\ cancelled' = cancelled \ {flusher}
      /\ closer' = IF flusher = Closer THEN "closed" ELSE closer
  BY DEF FlusherDone
<1>2. call' \in [Calls -> CallPlaces] /\ outcome' \in [Calls -> Outcomes]
  BY DEF Resolve, CallPlaces
<1>3. timer' \in [Timers -> TimerPlaces] /\ closer' \in CloserPlaces
  BY <1>1 DEF TimerPlaces, CloserPlaces
<1>4. QueuesTyped'
  BY <1>1, EmptySequence DEF QueuesTyped
<1>5. BatchInv'
  BY <1>1, MaxBatchAssumption DEF BatchInv
<1> QED BY <1>2, <1>3, <1>4, <1>5

LEMMA FlushEndsSizes ==
    ASSUME StoreInv, ProviderReturns \/ ProviderFails \/ \E p : FlushCancelled(p)
    PROVE  StoreInv'
<1>1. CASE ProviderReturns
  <2>1. cache' \in Caches
    BY <1>1, BatchCached DEF StoreInv, ProviderReturns, QueuesTyped
  <2> QED BY <1>1, <2>1, FlusherDoneSizes DEF ProviderReturns, Outcomes
<1>2. CASE ProviderFails \/ \E p : FlushCancelled(p)
  <2>1. PICK how \in {"error", "cancelled"} : Resolve(Unresolved, how)
    BY <1>2 DEF ProviderFails, FlushCancelled
  <2>2. /\ FlusherDone /\ cache' \in Caches
        /\ UNCHANGED <<pending, lockQueue, flushTask, joined, phase>>
    BY <1>2 DEF StoreInv, ProviderFails, FlushCancelled
  <2> QED BY <2>1, <2>2, FlusherDoneSizes DEF Outcomes
<1> QED BY <1>1, <1>2

LEMMA CancelSizes ==
    ASSUME StoreInv,
           \/ \E c \in Calls : CancelCall(c)
           \/ \E t \in Timers : TimerCancelled(t) \/ CancelTimer(t)
    PROVE  StoreInv'
<1> USE DEF StoreInv
<1>1. CASE \E p : FlushCancelled(p)
  BY <1>1, FlushEndsSizes
<1>2. ASSUME NEW c \in Calls, CancelCall(c), ~FlushCancelled(c)
      PROVE  StoreInv'
  <2>1. /\ call' = [call EXCEPT ![c] = "idle"]
        /\ outcome' = [outcome EXCEPT ![c] = "cancelled"]
        /\ LeaveLine(c)
        /\ UNCHANGED <<pending, batch, flusher, timer, cancelled, flushTask, cache,
                       closer, joined, phase>>
    BY <1>2 DEF CancelCall, batchVars, timerVars, closeVars
  <2>2. lockQueue' \in Seq(Procs)
    BY <2>1, LineTyped DEF QueuesTyped
  <2>3. QueuesTyped' /\ BatchInv'
    BY <2>1, <2>2 DEF QueuesTyped, BatchInv
  <2> QED BY <2>1, <2>3 DEF CallPlaces, Outcomes
<1>3. ASSUME NEW t \in Timers, TimerCancelled(t) \/ CancelTimer(t), ~FlushCancelled(t)
      PROVE  StoreInv'
  <2>1. /\ timer' = [timer EXCEPT ![t] = "done"] /\ cancelled' = cancelled \ {t}
        /\ LeaveLine(t)
        /\ UNCHANGED <<call, outcome, pending, batch, flusher, flushTask, cache,
                       closer, joined, phase>>
    BY <1>3 DEF TimerCancelled, CancelTimer, callVars, batchVars, closeVars
  <2>2. lockQueue' \in Seq(Procs)
    BY <2>1, LineTyped DEF QueuesTyped
  <2>3. QueuesTyped' /\ BatchInv'
    BY <2>1, <2>2 DEF QueuesTyped, BatchInv
  <2> QED BY <2>1, <2>3 DEF TimerPlaces
<1> QED BY <1>1, <1>2, <1>3

LEMMA CloseFlushSizes ==
    ASSUME StoreInv, CloseFlush, lockQueue' \in Seq(Procs), UNCHANGED timer
    PROVE  QueuesTyped' /\ BatchInv' /\ closer' \in CloserPlaces
<1> USE DEF StoreInv
<1>1. Len(pending) <= MaxBatch /\ Closer \in Procs /\ pending \in Seq(Calls)
  BY MaxBatchAssumption DEF QueuesTyped, BatchInv, Procs
<1>2. CASE pending # <<>>
  <2>1. StartFlush(Closer, pending) /\ closer' = "flushing"
    BY <1>2 DEF CloseFlush
  <2>2. \A t \in Timers : timer'[t] = "done" => timer[t] = "done" /\ t \notin cancelled
    BY DEF QueuesTyped
  <2>3. QueuesTyped' /\ BatchInv'
    BY <1>1, <1>2, <2>1, <2>2, StartFlushSizes
  <2> QED BY <2>1, <2>3 DEF CloserPlaces
<1>3. CASE pending = <<>>
  <2>1. /\ closer' = "closed"
        /\ UNCHANGED <<pending, batch, flusher, cancelled, flushTask>>
    BY <1>3 DEF CloseFlush, batchVars
  <2>2. QueuesTyped' /\ BatchInv'
    BY <2>1 DEF QueuesTyped, BatchInv
  <2> QED BY <2>1, <2>2 DEF CloserPlaces
<1> QED BY <1>2, <1>3

LEMMA AskCloseLockSizes ==
    ASSUME StoreInv, AskCloseLock, UNCHANGED timer
    PROVE  QueuesTyped' /\ BatchInv' /\ closer' \in CloserPlaces
<1> USE DEF StoreInv
<1>1. CASE LockFree /\ lockQueue = <<>>
  <2>1. CloseFlush /\ lockQueue' \in Seq(Procs)
    BY <1>1 DEF AskCloseLock, QueuesTyped
  <2> QED BY <2>1, CloseFlushSizes
<1>2. CASE ~(LockFree /\ lockQueue = <<>>)
  <2>1. /\ lockQueue' = Append(lockQueue, Closer) /\ closer' = "lockwait"
        /\ UNCHANGED <<pending, batch, flusher, cancelled, flushTask>>
    BY <1>2 DEF AskCloseLock, batchVars
  <2>2. lockQueue' \in Seq(Procs)
    BY <2>1 DEF QueuesTyped, Procs
  <2>3. QueuesTyped' /\ BatchInv'
    BY <2>1, <2>2 DEF QueuesTyped, BatchInv
  <2> QED BY <2>1, <2>3 DEF CloserPlaces
<1> QED BY <1>1, <1>2

LEMMA CloseSizes ==
    ASSUME StoreInv, Close \/ CloserJoins \/ CloserLocks
    PROVE  StoreInv'
<1> USE DEF StoreInv
<1>1. UNCHANGED <<call, outcome, timer, cache, phase>>
  BY DEF Close, CloserJoins, CloserLocks, callVars
<1>2. CASE Close /\ TimerAlive(flushTask)
  <2>1. /\ cancelled' = cancelled \cup CancelTarget(Closer)
        /\ joined' = flushTask /\ closer' = "joining"
        /\ UNCHANGED <<pending, batch, flusher, lockQueue, flushTask>>
    BY <1>2 DEF Close, batchVars, lockVars
  <2>2. QueuesTyped' /\ BatchInv'
    BY <1>1, <2>1 DEF QueuesTyped, BatchInv, CancelTarget, TimerAlive
  <2> QED BY <1>1, <2>1, <2>2 DEF CloserPlaces, QueuesTyped
<1>3. CASE (Close /\ ~TimerAlive(flushTask)) \/ CloserJoins
  <2>1. AskCloseLock /\ joined' \in {joined, NoOne}
    BY <1>3 DEF Close, CloserJoins
  <2> QED BY <1>1, <2>1, AskCloseLockSizes
<1>4. CASE CloserLocks
  <2>1. CloseFlush /\ MayLock(Closer) /\ UNCHANGED joined
    BY <1>4 DEF CloserLocks
  <2>2. lockQueue' \in Seq(Procs)
    BY <2>1, LineTyped DEF QueuesTyped
  <2> QED BY <1>1, <2>1, <2>2, CloseFlushSizes
<1> QED BY <1>2, <1>3, <1>4

LEMMA NextStoreInv == StoreInv /\ [Next]_vars => StoreInv'
<1> SUFFICES ASSUME StoreInv, [Next]_vars
             PROVE  StoreInv'
  OBVIOUS
<1>1. ASSUME UNCHANGED <<call, outcome, pending, batch, flusher, lockQueue, timer,
                         cancelled, flushTask, cache, closer, joined>>,
             phase' \in {"open", "teardown"}
      PROVE  StoreInv'
  BY <1>1 DEF StoreInv, QueuesTyped, BatchInv
<1>2. CASE UNCHANGED vars
  BY <1>1, <1>2 DEF StoreInv, vars
<1>3. CASE BeginTeardown
  BY <1>1, <1>3 DEF BeginTeardown, callVars, batchVars, lockVars, timerVars, closeVars
<1>4. CASE Terminated
  BY <1>2, <1>4 DEF Terminated
<1> QED BY <1>2, <1>3, <1>4, CallSizes, TimerSizes, FlushEndsSizes, CancelSizes,
           CloseSizes DEF Next

LEMMA StoreInvariance == Spec => []StoreInv
BY InitStoreInv, NextStoreInv, PTL DEF Spec

-----------------------------------------------------------------------------
(* The theorems.                                                           *)

\* The variables keep their types, through the teardown; only a task that is
\* not done has a CancelledError to be delivered.
THEOREM Typing == Spec => []TypeOK
<1>1. StoreInv => TypeOK
  BY DEF StoreInv, QueuesTyped, Caches, TypeOK
<1> QED BY <1>1, StoreInvariance, PTL

\* A flush takes all that is pending, never more than max_batch_size texts, and
\* the cache holds a key once and never exceeds its size, however long the
\* batch that is put into it.
THEOREM Sizes == Spec => []SizesKept
<1>1. StoreInv => SizesKept
  BY DEF StoreInv, BatchInv, Caches, SizesKept
<1> QED BY <1>1, StoreInvariance, PTL

\* While the process runs every future that a caller awaits is in _pending or
\* in the batch being flushed, once and in one of them only.
THEOREM Futures == Spec => []NoFutureLost
<1>1. ASSUME IInv, phase = "open"
      PROVE  IsInjective(pending \o batch)
  <2>1. /\ pending \in Seq(Calls) /\ batch \in Seq(Calls)
        /\ IsInjective(pending) /\ IsInjective(batch)
        /\ pending = <<>> \/ batch = <<>>
    BY <1>1 DEF IInv, OpenInv, TypesInv, FuturesInv
  <2>2. pending \o batch = pending \/ pending \o batch = batch
    BY <2>1, ConcatEmptySeq
  <2> QED BY <2>1, <2>2
<1>2. IInv => NoFutureLost
  BY <1>1 DEF IInv, OpenInv, FuturesInv, NoFutureLost, Awaited
<1> QED BY <1>2, Invariance, PTL

\* A text that waits while no flush is in progress has a task that will flush
\* it: no order of arrivals, expiring windows and cancellations forgets it.
THEOREM Waiting == Spec => []PendingWillBeFlushed
<1>1. IInv => PendingWillBeFlushed
  BY ProcsAssumption DEF IInv, OpenInv, TypesInv, OwnerInv, TimerInv, TimerAlive,
     PendingWillBeFlushed, LockFree, TimerPlaces, Procs
<1> QED BY <1>1, Invariance, PTL

\* The cancellation of a timer never hits a flush, so it never reaches a
\* caller as long as the process runs.
THEOREM Cancellation == Spec => []NoForeignCancel
<1>1. IInv => NoForeignCancel
  BY DEF IInv, OpenInv, OwnerInv, NoForeignCancel
<1> QED BY <1>1, Invariance, PTL

\* flush_and_close returns only when nothing is pending and no flush runs.
THEOREM Drain == Spec => CloseDrains
<1> DEFINE Drained == closer # "closed" /\ closer' = "closed" => pending' = <<>> /\ batch' = <<>>
<1>1. ASSUME IInv, Next, closer # "closed", closer' = "closed"
      PROVE  pending' = <<>> /\ batch' = <<>>
  <2>1. phase = "open" /\ OpenInv
    BY <1>1 DEF IInv
  <2>2. ASSUME FlusherDone, UNCHANGED pending
        PROVE  pending' = <<>> /\ batch' = <<>>
    BY <1>1, <2>1, <2>2, ProcsAssumption DEF FlusherDone, OpenInv, FuturesInv, Procs
  <2>3. ASSUME CloseFlush, LockFree
        PROVE  pending' = <<>> /\ batch' = <<>>
    BY <1>1, <2>1, <2>3 DEF CloseFlush, OpenInv, FuturesInv, LockFree, batchVars
  <2>4. ASSUME AskCloseLock
        PROVE  pending' = <<>> /\ batch' = <<>>
    BY <1>1, <2>3, <2>4 DEF AskCloseLock
  <2>5. ASSUME NEW c \in Calls, CacheHit(c) \/ CacheMiss(c) \/ CallLocks(c) \/ CancelCall(c)
        PROVE  FALSE
    BY <1>1, <2>1, <2>5 DEF CacheHit, CacheMiss, CallLocks, CancelCall, closeVars
  <2>6. ASSUME NEW t \in Timers,
               TimerFires(t) \/ TimerLocks(t) \/ TimerCancelled(t) \/ CancelTimer(t)
        PROVE  pending' = <<>> /\ batch' = <<>>
    BY <1>1, <2>1, <2>2, <2>6 DEF TimerFires, TimerLocks, TimerCancelled, CancelTimer,
       FlushCancelled, closeVars
  <2>7. CASE ProviderReturns \/ ProviderFails
    BY <2>2, <2>7 DEF ProviderReturns, ProviderFails
  <2>8. CASE Close \/ CloserJoins
    BY <1>1, <2>4, <2>8 DEF Close, CloserJoins
  <2>9. CASE CloserLocks
    BY <2>3, <2>9 DEF CloserLocks, MayLock
  <2>10. ~BeginTeardown /\ ~Terminated
    BY <1>1, <2>1 DEF BeginTeardown, Terminated, closeVars
  <2> QED BY <1>1, <2>5, <2>6, <2>7, <2>8, <2>9, <2>10 DEF Next
<1>2. IInv /\ [Next]_vars => [Drained]_vars
  BY <1>1
<1> QED BY <1>2, Invariance, PTL DEF Spec, CloseDrains
=============================================================================
