---------------------- MODULE SectionCaptioner_proofs -----------------------
(***************************************************************************)
(* Proofs about SectionCaptioner, for any finite sets of runs and          *)
(* sections and any number of permits.                                     *)
(***************************************************************************)
EXTENDS SectionCaptioner, FiniteSetTheorems, TLAPS

\* The line holds waiting tasks, each once, and a run that is not at work has
\* no task.
IInv ==
    /\ TypeOK
    /\ PermitsExact
    /\ CaptionedWhole
    /\ \A i, j \in DOMAIN waiters : waiters[i] = waiters[j] => i = j
    /\ \A i \in DOMAIN waiters : task[waiters[i]] = "waiting"
    /\ \A t \in Tasks : run[RunOf(t)] = "idle" => task[t] = "none"

-----------------------------------------------------------------------------
(* Counting the tasks in a place.                                          *)

LEMMA RunOfTask == \A t \in Tasks : RunOf(t) \in Runs
BY DEF Tasks, RunOf

LEMMA PlacesFinite ==
    \A p : IsFiniteSet(InPlace(p)) /\ Cardinality(InPlace(p)) \in Nat
<1>1. IsFiniteSet(Tasks)
  BY FiniteAssumption, FS_Product DEF Tasks
<1> QED BY <1>1, FS_Subset, FS_CardinalityType DEF InPlace

\* One task moves from place a to place b.
LEMMA MoveCounts ==
    ASSUME TypeOK, NEW t \in Tasks, NEW a \in TaskPlaces, NEW b \in TaskPlaces,
           task[t] = a, a # b, task' = [task EXCEPT ![t] = b]
    PROVE  /\ Cardinality(InPlace(a)') = Cardinality(InPlace(a)) - 1
           /\ Cardinality(InPlace(b)') = Cardinality(InPlace(b)) + 1
           /\ \A p : p # a /\ p # b => InPlace(p)' = InPlace(p)
<1>1. /\ InPlace(a)' = InPlace(a) \ {t} /\ t \in InPlace(a)
      /\ InPlace(b)' = InPlace(b) \cup {t} /\ t \notin InPlace(b)
      /\ \A p : p # a /\ p # b => InPlace(p)' = InPlace(p)
  BY DEF InPlace, TypeOK
<1>2. Cardinality(InPlace(a) \ {t}) = Cardinality(InPlace(a)) - 1
  BY <1>1, PlacesFinite, FS_RemoveElement
<1>3. Cardinality(InPlace(b) \cup {t}) = Cardinality(InPlace(b)) + 1
  BY <1>1, PlacesFinite, FS_AddElement
<1> QED BY <1>1, <1>2, <1>3

\* Only tasks that hold no permit and want none change their place.
LEMMA SameCounts ==
    ASSUME IInv, NEW r \in Runs,
           \A t \in TasksOf(r) : task[t] \notin {"calling", "waiting"},
           \A t \in TasksOf(r) : task'[t] \notin {"calling", "waiting"},
           \A t \in Tasks \ TasksOf(r) : task'[t] = task[t],
           UNCHANGED <<permits, waiters>>
    PROVE  /\ PermitsExact'
           /\ \A i \in DOMAIN waiters' : task'[waiters'[i]] = "waiting"
<1>1. InPlace("calling")' = InPlace("calling") /\ InPlace("waiting")' = InPlace("waiting")
  BY DEF InPlace, TasksOf
<1>2. PermitsExact'
  BY <1>1 DEF IInv, PermitsExact
<1>3. \A i \in DOMAIN waiters : waiters[i] \in Tasks /\ task[waiters[i]] = "waiting"
  BY DEF IInv, TypeOK
<1> QED BY <1>2, <1>3 DEF InPlace

-----------------------------------------------------------------------------
(* The actions.                                                            *)

LEMMA InitIInv == Init => IInv
<1> SUFFICES ASSUME Init
             PROVE  IInv
  OBVIOUS
<1>1. TypeOK /\ CaptionedWhole
  BY RunOfTask, MaxConcurrencyAssumption
  DEF Init, TypeOK, CaptionedWhole, RunPlaces, TaskPlaces
<1>2. InPlace("calling") = {} /\ InPlace("waiting") = {}
  BY DEF Init, InPlace
<1>3. PermitsExact
  BY <1>2, FS_EmptySet, MaxConcurrencyAssumption DEF Init, PermitsExact
<1> QED BY <1>1, <1>3, RunOfTask DEF Init, IInv

LEMMA CaptionSectionsIInv ==
    ASSUME IInv, NEW r \in Runs, CaptionSections(r)
    PROVE  IInv'
<1> USE RunOfTask DEF IInv
<1>1. \A t \in TasksOf(r) : task[t] = "none" /\ task'[t] = "ready"
  BY DEF CaptionSections, TasksOf
<1>2. \A t \in Tasks \ TasksOf(r) : task'[t] = task[t]
  BY DEF CaptionSections, TasksOf
<1>3. TypeOK'
  BY DEF CaptionSections, TypeOK, RunPlaces, TaskPlaces
<1>4. PermitsExact' /\ \A i \in DOMAIN waiters' : task'[waiters'[i]] = "waiting"
  BY <1>1, <1>2, SameCounts DEF CaptionSections
<1>5. CaptionedWhole'
  BY <1>1, <1>2 DEF CaptionSections, CaptionedWhole, AllIn, TasksOf, TypeOK
<1>6. \A t \in Tasks : run'[RunOf(t)] = "idle" => task'[t] = "none"
  BY <1>2 DEF CaptionSections, TasksOf, TypeOK
<1> QED BY <1>3, <1>4, <1>5, <1>6 DEF CaptionSections

LEMMA ForgetIInv ==
    ASSUME IInv, NEW r \in Runs, Forget(r)
    PROVE  IInv'
<1> USE RunOfTask DEF IInv
<1>1. \A t \in TasksOf(r) : task[t] \in {"done", "failed"} /\ task'[t] = "none"
  BY DEF Forget, AllIn, TasksOf
<1>2. \A t \in Tasks \ TasksOf(r) : task'[t] = task[t]
  BY DEF Forget, TasksOf
<1>3. TypeOK'
  BY DEF Forget, TypeOK, RunPlaces, TaskPlaces
<1>4. PermitsExact' /\ \A i \in DOMAIN waiters' : task'[waiters'[i]] = "waiting"
  BY <1>1, <1>2, SameCounts DEF Forget
<1>5. CaptionedWhole'
  BY <1>1, <1>2 DEF Forget, CaptionedWhole, AllIn, TasksOf, TypeOK
<1>6. \A t \in Tasks : run'[RunOf(t)] = "idle" => task'[t] = "none"
  BY <1>1, <1>2 DEF Forget, TasksOf, TypeOK
<1> QED BY <1>3, <1>4, <1>5, <1>6 DEF Forget

\* A task takes a permit or joins the end of the line.
LEMMA BeginTaskIInv ==
    ASSUME IInv, NEW t \in Tasks, BeginTask(t)
    PROVE  IInv'
<1> USE RunOfTask DEF IInv
<1>1. /\ task[t] = "ready" /\ run' = run
      /\ permits \in Nat /\ permits <= MaxConcurrency /\ MaxConcurrency \in Nat
      /\ task \in [Tasks -> TaskPlaces] /\ waiters \in Seq(Tasks)
  BY MaxConcurrencyAssumption DEF BeginTask, TypeOK
<1>2. CASE PermitFree
  <2>1. /\ task' = [task EXCEPT ![t] = "calling"]
        /\ permits' = permits - 1 /\ waiters' = waiters /\ permits > 0
    BY <1>2 DEF BeginTask, PermitFree
  <2>2. TypeOK'
    BY <1>1, <2>1 DEF TypeOK, TaskPlaces
  <2>3. /\ Cardinality(InPlace("calling")') = Cardinality(InPlace("calling")) + 1
        /\ InPlace("waiting")' = InPlace("waiting")
    BY <1>1, <2>1, MoveCounts DEF TaskPlaces
  <2>4. PermitsExact'
    BY <1>1, <2>1, <2>3, PlacesFinite DEF PermitsExact
  <2>5. CaptionedWhole' /\ \A s \in Tasks : run'[RunOf(s)] = "idle" => task'[s] = "none"
    BY <1>1, <2>1 DEF CaptionedWhole, AllIn, TasksOf
  <2>6. \A i \in DOMAIN waiters' : task'[waiters'[i]] = "waiting"
    BY <1>1, <2>1
  <2> QED BY <2>1, <2>2, <2>4, <2>5, <2>6
<1>3. CASE ~PermitFree
  <2>1. /\ task' = [task EXCEPT ![t] = "waiting"]
        /\ permits' = permits /\ waiters' = Append(waiters, t)
    BY <1>3 DEF BeginTask
  <2>2. TypeOK'
    BY <1>1, <2>1 DEF TypeOK, TaskPlaces
  <2>3. /\ Cardinality(InPlace("waiting")') = Cardinality(InPlace("waiting")) + 1
        /\ InPlace("calling")' = InPlace("calling")
    BY <1>1, <2>1, MoveCounts DEF TaskPlaces
  <2>4. /\ Len(waiters') = Len(waiters) + 1
        /\ \A i \in DOMAIN waiters : waiters'[i] = waiters[i]
        /\ waiters'[Len(waiters')] = t
        /\ DOMAIN waiters' = DOMAIN waiters \cup {Len(waiters')}
        /\ Len(waiters') \notin DOMAIN waiters
    BY <1>1, <2>1
  <2>5. \A s \in InPlace("waiting")' : \E i \in DOMAIN waiters' : waiters'[i] = s
    <3>1. \A s \in InPlace("waiting")' : s = t \/ s \in InPlace("waiting")
      BY <1>1, <2>1 DEF InPlace
    <3> QED BY <2>4, <3>1 DEF PermitsExact
  <2>6. PermitsExact'
    BY <2>1, <2>3, <2>4, <2>5 DEF PermitsExact
  <2>7. CaptionedWhole' /\ \A s \in Tasks : run'[RunOf(s)] = "idle" => task'[s] = "none"
    BY <1>1, <2>1 DEF CaptionedWhole, AllIn, TasksOf
  <2>8. \A i \in DOMAIN waiters' : task'[waiters'[i]] = "waiting"
    BY <1>1, <2>1, <2>4
  <2>9. \A i, j \in DOMAIN waiters' : waiters'[i] = waiters'[j] => i = j
    BY <1>1, <2>4
  <2> QED BY <2>2, <2>6, <2>7, <2>8, <2>9
<1> QED BY <1>2, <1>3

\* The head of the line takes a permit.
LEMMA AcquirePermitIInv ==
    ASSUME IInv, AcquirePermit
    PROVE  IInv'
<1> USE RunOfTask DEF IInv
<1> DEFINE t == Head(waiters)
<1>1. /\ waiters \in Seq(Tasks) /\ waiters # <<>> /\ t \in Tasks /\ t = waiters[1]
      /\ 1 \in DOMAIN waiters
      /\ permits \in Nat /\ permits > 0 /\ permits <= MaxConcurrency
      /\ MaxConcurrency \in Nat
      /\ task \in [Tasks -> TaskPlaces] /\ run' = run
      /\ task' = [task EXCEPT ![t] = "calling"] /\ permits' = permits - 1
      /\ waiters' = Tail(waiters)
  BY MaxConcurrencyAssumption DEF AcquirePermit, TypeOK
<1>2. task[t] = "waiting"
  BY <1>1
<1>3. /\ waiters' \in Seq(Tasks) /\ Len(waiters') = Len(waiters) - 1
      /\ \A i \in DOMAIN waiters' : i + 1 \in DOMAIN waiters /\ waiters'[i] = waiters[i + 1]
      /\ \A i \in DOMAIN waiters : i # 1 => i - 1 \in DOMAIN waiters'
      /\ \A i \in DOMAIN waiters' : i \in Nat /\ i + 1 # 1
  BY <1>1
<1>4. TypeOK'
  BY <1>1, <1>3 DEF TypeOK, TaskPlaces
<1>5. /\ Cardinality(InPlace("calling")') = Cardinality(InPlace("calling")) + 1
      /\ Cardinality(InPlace("waiting")') = Cardinality(InPlace("waiting")) - 1
  BY <1>1, <1>2, MoveCounts DEF TaskPlaces
<1>6. \A s \in InPlace("waiting")' : \E i \in DOMAIN waiters' : waiters'[i] = s
  <2> SUFFICES ASSUME NEW s \in InPlace("waiting")'
               PROVE  \E i \in DOMAIN waiters' : waiters'[i] = s
    OBVIOUS
  <2>1. s \in InPlace("waiting") /\ s # t
    BY <1>1 DEF InPlace
  <2>2. PICK i \in DOMAIN waiters : waiters[i] = s
    BY <2>1 DEF PermitsExact
  <2>3. i # 1 /\ i \in Int
    BY <1>1, <2>1, <2>2
  <2> QED BY <1>1, <1>3, <2>2, <2>3
<1>7. PermitsExact'
  <2>1. permits' + Cardinality(InPlace("calling")') = MaxConcurrency
    BY <1>1, <1>5, PlacesFinite DEF PermitsExact
  <2>2. Len(waiters') = Cardinality(InPlace("waiting")')
    BY <1>3, <1>5 DEF PermitsExact
  <2> QED BY <1>6, <2>1, <2>2 DEF PermitsExact
<1>8. CaptionedWhole' /\ \A s \in Tasks : run'[RunOf(s)] = "idle" => task'[s] = "none"
  BY <1>1, <1>2 DEF CaptionedWhole, AllIn, TasksOf
<1>9. \A i, j \in DOMAIN waiters' : waiters'[i] = waiters'[j] => i = j
  BY <1>3
<1>10. \A i \in DOMAIN waiters' : task'[waiters'[i]] = "waiting"
  <2> SUFFICES ASSUME NEW i \in DOMAIN waiters'
               PROVE  task'[waiters'[i]] = "waiting"
    OBVIOUS
  <2>1. waiters'[i] # t
    BY <1>1, <1>3
  <2>2. task[waiters'[i]] = "waiting"
    BY <1>3
  <2> QED BY <1>1, <2>1, <2>2
<1> QED BY <1>4, <1>7, <1>8, <1>9, <1>10

\* The end of a call, which returns or raises, gives its permit back; its run
\* cannot have been captioned, or forgotten, already.
LEMMA CallEndsIInv ==
    ASSUME IInv, NEW t \in Tasks, CaptionReturns(t) \/ CaptionFails(t)
    PROVE  IInv'
<1> USE RunOfTask DEF IInv
<1> DEFINE place == IF CaptionReturns(t) THEN "done" ELSE "failed"
           r == RunOf(t)
<1>1. /\ task[t] = "calling" /\ task \in [Tasks -> TaskPlaces]
      /\ run \in [Runs -> RunPlaces] /\ r \in Runs
      /\ permits \in Nat /\ permits <= MaxConcurrency /\ MaxConcurrency \in Nat
      /\ permits' = permits + 1 /\ waiters' = waiters
  BY MaxConcurrencyAssumption DEF CaptionReturns, CaptionFails, TypeOK
<1>2. task' = [task EXCEPT ![t] = place] /\ place \in {"done", "failed"}
  BY DEF CaptionReturns, CaptionFails
<1>3. run[r] \in {"captioning", "failed"}
  BY <1>1 DEF RunPlaces, CaptionedWhole, AllIn, TasksOf
<1>4. \/ run' = run
      \/ run' = [run EXCEPT ![r] = "captioned"] \/ run' = [run EXCEPT ![r] = "failed"]
  BY DEF CaptionReturns, CaptionFails
<1>5. /\ Cardinality(InPlace("calling")') = Cardinality(InPlace("calling")) - 1
      /\ InPlace("waiting")' = InPlace("waiting")
  BY <1>1, <1>2, MoveCounts DEF TaskPlaces
<1>6. TypeOK' /\ PermitsExact'
  <2>1. PermitsExact'
    BY <1>1, <1>5, PlacesFinite DEF PermitsExact
  <2>2. permits' \in 0..MaxConcurrency
    <3>1. /\ Cardinality(InPlace("calling")') \in Nat
          /\ permits' + Cardinality(InPlace("calling")') = MaxConcurrency
      <4>1. Cardinality(InPlace("calling")) # 0
        BY <1>1, PlacesFinite, FS_EmptySet DEF InPlace
      <4> QED BY <1>1, <1>5, <2>1, <4>1, PlacesFinite DEF PermitsExact
    <3> QED BY <1>1, <3>1
  <2> QED BY <1>1, <1>2, <1>4, <2>1, <2>2 DEF TypeOK, RunPlaces, TaskPlaces
<1>7. CaptionedWhole'
  <2>1. CASE CaptionReturns(t)
    BY <1>1, <1>2, <1>3, <2>1 DEF CaptionReturns, CaptionedWhole, AllIn, TasksOf
  <2>2. CASE CaptionFails(t)
    BY <1>1, <1>3, <2>2 DEF CaptionFails, CaptionedWhole, AllIn, TasksOf
  <2> QED BY <2>1, <2>2
<1>8. \A s \in Tasks : run'[RunOf(s)] = "idle" => task'[s] = "none"
  BY <1>1, <1>2, <1>3, <1>4
<1>9. \A i \in DOMAIN waiters' : task'[waiters'[i]] = "waiting"
  BY <1>1, <1>2
<1> QED BY <1>1, <1>6, <1>7, <1>8, <1>9

LEMMA NextIInv == IInv /\ [Next]_vars => IInv'
<1> SUFFICES ASSUME IInv, [Next]_vars
             PROVE  IInv'
  OBVIOUS
<1>1. CASE UNCHANGED vars
  BY <1>1 DEF vars, IInv, TypeOK, PermitsExact, CaptionedWhole, AllIn, InPlace
<1> QED
  BY <1>1, CaptionSectionsIInv, ForgetIInv, BeginTaskIInv, CallEndsIInv, AcquirePermitIInv
  DEF Next

LEMMA Invariance == Spec => []IInv
BY InitIInv, NextIInv, PTL DEF Spec

\* Every variable keeps its type; the semaphore never has more permits than it
\* was made with.
THEOREM Typing == Spec => []TypeOK
<1>1. IInv => TypeOK
  BY DEF IInv
<1> QED BY <1>1, Invariance, PTL

\* Whichever calls fail and whichever runs leave tasks behind, permits and
\* calls in progress always make up the limit, and the line holds each waiting
\* task once.
THEOREM Permits == Spec => []PermitsExact
<1>1. IInv => PermitsExact
  BY DEF IInv
<1> QED BY <1>1, Invariance, PTL

\* A run goes on to embedding only with all its captions, and a call that
\* succeeds late revives no failed run.
THEOREM Captions == Spec => []CaptionedWhole
<1>1. IInv => CaptionedWhole
  BY DEF IInv
<1> QED BY <1>1, Invariance, PTL
=============================================================================
