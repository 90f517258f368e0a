--------------------------- MODULE SearchRecency ----------------------------
(***************************************************************************)
(* SearchSections with a history variable: which queries were used since   *)
(* which others were.  It says in what order an OrderedDict that is never  *)
(* wrong would evict, without a word on how the cache is ordered.          *)
(***************************************************************************)
EXTENDS SearchSections

VARIABLE since      \* pairs <<a, b>>: b was used since a was last used

allVars == <<vars, since>>

\* A thread finds its query, or is the first to cache it.
UsedBy(t) ==
    /\ at'[t] = "search"
    /\ at[t] = "lookup" \/ (at[t] = "embed" /\ ~Cached(query[t]))

\* A use of q puts every other query before it, and it before none.
Use(q) == {p \in since : p[1] # q} \cup ((Queries \ {q}) \X {q})

HInit == Init /\ since = {}

HNext ==
    /\ Next
    /\ \/ \E t \in Threads : UsedBy(t) /\ since' = Use(query[t])
       \/ (\A t \in Threads : ~UsedBy(t)) /\ UNCHANGED since

HSpec == HInit /\ [][HNext]_allVars

-----------------------------------------------------------------------------
\* The query that is evicted was used less recently than each one that stays,
\* as long as "used" leaves out the misses of a query that another thread has
\* cached meanwhile: those do not move it (search_sections.py:85).
LeastRecentlyUsed ==
    [][\A q \in ToSet(cache) \ ToSet(cache'), r \in ToSet(cache') :
           <<q, r>> \in since' /\ <<r, q>> \notin since']_allVars
=============================================================================
