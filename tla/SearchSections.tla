--------------------------- MODULE SearchSections ---------------------------
(***************************************************************************)
(* app/application/search/search_sections.py: POST /search runs each       *)
(* search in a thread of the pool.  The threads share _query_cache, an     *)
(* OrderedDict guarded by _cache_lock; the embedding of a missing query is *)
(* computed outside the lock.  Then the vector store is asked, and its     *)
(* answer is thresholded and cut.                                          *)
(*                                                                         *)
(* An action is what a thread does under the lock, or one call to the      *)
(* provider or the store.  A query stands for its vector.  The store's     *)
(* answer is a ranking of what it holds at that moment; ties come in any   *)
(* order.                                                                  *)
(***************************************************************************)
EXTENDS Integers, Sequences, FiniteSets, SequencesExt

CONSTANTS
    Threads,        \* threads of the pool
    Queries,
    NoQuery,
    CacheSize,      \* SEARCH_QUERY_CACHE_SIZE
    Sections,       \* sections that may be in the vector store
    Score(_, _),    \* similarity of a query and a section
    Threshold,      \* SEARCH_SCORE_THRESHOLD, on the scale of Score
    TopKs           \* values of top_k in requests

ASSUME CacheSizeAssumption == CacheSize \in Nat \ {0}
ASSUME NoQueryAssumption == NoQuery \notin Queries
ASSUME TopKsAssumption == TopKs \subseteq Nat \ {0}
ASSUME ThresholdAssumption == Threshold \in Nat
ASSUME SectionsAssumption == IsFiniteSet(Sections)
ASSUME ScoreAssumption == \A q \in Queries, s \in Sections : Score(q, s) \in Int

VARIABLES
    at,             \* where each thread is: see Places
    query,          \* the query of its request
    topK,           \* top_k of its request
    results,        \* what its last search returned
    cache,          \* keys of self._query_cache, first to last
    stored          \* sections in the vector store

vars == <<at, query, topK, results, cache, stored>>

Places == {"idle", "lookup", "embed", "search"}

Init ==
    /\ at = [t \in Threads |-> "idle"]
    /\ query = [t \in Threads |-> NoQuery]
    /\ topK = [t \in Threads |-> 0]
    /\ results = [t \in Threads |-> <<>>]
    /\ cache = <<>>
    /\ stored \in SUBSET Sections

-----------------------------------------------------------------------------
(* The query cache                                                         *)

Cached(q) == \E i \in DOMAIN cache : cache[i] = q

IndexOf(entries, q) == CHOOSE i \in DOMAIN entries : entries[i] = q

\* Slip: a hit does not refresh the entry.
LeaveInPlace(entries, q) == entries

\* OrderedDict.move_to_end of a key that is there.
MoveToEnd(entries, q) == Append(RemoveAt(entries, IndexOf(entries, q)), q)

\* An assignment: a key that is there keeps its place, a new one goes last.
Assign(entries, q) ==
    IF \E i \in DOMAIN entries : entries[i] = q THEN entries ELSE Append(entries, q)

\* Slip: lets the cache exceed its size by one.
EvictLate(entries) ==
    IF Len(entries) > CacheSize + 1 THEN Tail(entries) ELSE entries

\* Slip: popitem from the wrong end.
EvictNewest(entries) ==
    IF Len(entries) > CacheSize THEN SubSeq(entries, 1, Len(entries) - 1) ELSE entries

\* popitem(last=False) when there are too many entries.
Evict(entries) == IF Len(entries) > CacheSize THEN Tail(entries) ELSE entries

-----------------------------------------------------------------------------
(* The answer                                                              *)

\* The orders in which the store may rank its sections.
Rankings(q) ==
    {r \in SetToSeqs(stored) :
        \A i, j \in DOMAIN r : i < j => Score(q, r[i]) >= Score(q, r[j])}

\* Candidates asked for: more when some may fall below the threshold.
FetchK(k) == IF Threshold > 0 THEN 3 * k ELSE k

\* Slip: a score equal to the threshold is dropped too.
RelevantStrictly(q, s) == Threshold # 0 => Score(q, s) > Threshold

\* A threshold of zero keeps negative scores too.
Relevant(q, s) == Threshold # 0 => Score(q, s) >= Threshold

FirstOf(s, n) == SubSeq(s, 1, IF n < Len(s) THEN n ELSE Len(s))

\* The loop over the candidates, and what is left of it after each of them.
Mapped(q, candidates) ==
    LET mapped[n \in 0..Len(candidates)] ==
            IF n = 0 THEN <<>>
            ELSE IF Relevant(q, candidates[n])
                 THEN Append(mapped[n - 1], candidates[n])
                 ELSE mapped[n - 1]
    IN  mapped[Len(candidates)]

Results(q, k, ranking) == FirstOf(Mapped(q, FirstOf(ranking, FetchK(k))), k)

-----------------------------------------------------------------------------
(* One search                                                              *)

Start(t, q, k) ==
    /\ at[t] = "idle"
    /\ at' = [at EXCEPT ![t] = "lookup"]
    /\ query' = [query EXCEPT ![t] = q]
    /\ topK' = [topK EXCEPT ![t] = k]
    /\ results' = [results EXCEPT ![t] = <<>>]
    /\ UNCHANGED <<cache, stored>>

CacheHit(t) ==
    /\ at[t] = "lookup"
    /\ Cached(query[t])
    /\ cache' = MoveToEnd(cache, query[t])
    /\ at' = [at EXCEPT ![t] = "search"]
    /\ UNCHANGED <<query, topK, results, stored>>

CacheMiss(t) ==
    /\ at[t] = "lookup"
    /\ ~Cached(query[t])
    /\ at' = [at EXCEPT ![t] = "embed"]
    /\ UNCHANGED <<query, topK, results, cache, stored>>

\* The provider has answered; the vector is cached under the lock.  Another
\* thread may have cached the same query in the meantime.
Embed(t) ==
    /\ at[t] = "embed"
    /\ cache' = Evict(Assign(cache, query[t]))
    /\ at' = [at EXCEPT ![t] = "search"]
    /\ UNCHANGED <<query, topK, results, stored>>

Answer(t) ==
    /\ at[t] = "search"
    /\ \E ranking \in Rankings(query[t]) :
           results' = [results EXCEPT ![t] = Results(query[t], topK[t], ranking)]
    /\ at' = [at EXCEPT ![t] = "idle"]
    /\ UNCHANGED <<query, topK, cache, stored>>

\* Slip: forgets the request and goes on.
FailAndGoOn(t) ==
    /\ at[t] \in {"embed", "search"}
    /\ query' = [query EXCEPT ![t] = NoQuery]
    /\ UNCHANGED <<at, topK, results, cache, stored>>

\* The provider or the store raises; the request fails.
Fail(t) ==
    /\ at[t] \in {"embed", "search"}
    /\ at' = [at EXCEPT ![t] = "idle"]
    /\ UNCHANGED <<query, topK, results, cache, stored>>

\* Ingest runs delete and upsert sections.
IndexChanges ==
    /\ stored' \in SUBSET Sections
    /\ UNCHANGED <<at, query, topK, results, cache>>

Search(t) ==
    \/ \E q \in Queries, k \in TopKs : Start(t, q, k)
    \/ CacheHit(t)
    \/ CacheMiss(t)
    \/ Embed(t)
    \/ Answer(t)
    \/ Fail(t)

Next ==
    \/ \E t \in Threads : Search(t)
    \/ IndexChanges

Spec == Init /\ [][Next]_vars

-----------------------------------------------------------------------------
(* Properties                                                              *)

\* Type of every variable; a thread past its start has a query.
TypeOK ==
    /\ at \in [Threads -> Places]
    /\ query \in [Threads -> Queries \cup {NoQuery}]
    /\ topK \in [Threads -> TopKs \cup {0}]
    /\ results \in [Threads -> Seq(Sections)]
    /\ cache \in Seq(Queries)
    /\ stored \subseteq Sections
    /\ \A t \in Threads : at[t] # "idle" => query[t] \in Queries /\ topK[t] \in TopKs

\* However threads interleave lookups and insertions, with the same query
\* missed by several of them, the cache holds a query once and never more
\* than SEARCH_QUERY_CACHE_SIZE of them.
CacheBound ==
    /\ Len(cache) <= CacheSize
    /\ \A i, j \in DOMAIN cache : cache[i] = cache[j] => i = j

\* A query leaves the cache only to make room in a full cache, alone, and the
\* query whose embedding was just computed is not the one evicted, also when
\* another thread cached it first.
EvictionExact ==
    [][/\ \A i \in DOMAIN cache :
             cache[i] \notin ToSet(cache') =>
                 /\ Len(cache) = CacheSize
                 /\ Len(cache') = CacheSize
       /\ \A t \in Threads :
             at[t] = "embed" /\ at'[t] = "search" => query[t] \in ToSet(cache')]_vars

\* Whether res is what thread t should find in the store: sections that reach
\* the threshold, without repetition, as many as there are up to top_k, best
\* first, and none of those left out better than one of them.
Best(t, res) ==
    LET relevant == {s \in stored : Threshold = 0 \/ Score(query[t], s) >= Threshold}
        score(s) == Score(query[t], s)
    IN  /\ ToSet(res) \subseteq relevant
        /\ Cardinality(ToSet(res)) = Len(res)
        /\ Len(res) = IF Cardinality(relevant) < topK[t]
                      THEN Cardinality(relevant) ELSE topK[t]
        /\ \A i, j \in DOMAIN res : i < j => score(res[i]) >= score(res[j])
        /\ \A i \in DOMAIN res, s \in relevant \ ToSet(res) :
               score(res[i]) >= score(s)

\* A search returns the top_k best of the sections that reach the threshold,
\* best first, or all of them if there are fewer: asking the store for three
\* times top_k and filtering afterwards loses nothing.
ResultsAreBest ==
    [][\A t \in Threads : Answer(t) => Best(t, results'[t])]_vars
=============================================================================
