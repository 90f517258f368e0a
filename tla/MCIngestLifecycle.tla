------------------------- MODULE MCIngestLifecycle --------------------------
(* TLC instance of IngestLifecycle.                                        *)
EXTENDS IngestLifecycle

CONSTANTS p1, p2, s1, s2

MCOnePod == {p1}
MCTwoPods == {p1, p2}
MCSectionIds == {s1, s2}

\* Odd versions have two sections, even ones a single section.
MCSectionsOf(v) == IF v % 2 = 1 THEN {s1, s2} ELSE {s1}

\* Every upload in a second of its own.
MCDistinctSeconds(v) == v

\* The first two uploads within one second.
MCSameSecond(v) == IF v <= 2 THEN 1 ELSE v - 1

\* Every run ends within the stale limit.
MCPromptSpec == FairSpec /\ ~slowRuns
=============================================================================
