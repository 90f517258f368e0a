-------------------------- MODULE MCSearchSections --------------------------
(* TLC instance of SearchSections, with the history of SearchRecency.      *)
EXTENDS SearchRecency

CONSTANTS t1, t2, q1, q2, q3, s1, s2, s3, s4

MCThreads == {t1, t2}
MCQueries == {q1, q2, q3}
MCSections == {s1, s2, s3, s4}

\* Scores in hundredths: a tie, a section exactly at the threshold of 50 for
\* one query and one below it.
MCScore(q, s) ==
    CASE s = s1 -> IF q = q1 THEN 90 ELSE 10
      [] s = s2 -> IF q = q1 THEN 50 ELSE 70
      [] s = s3 -> IF q = q1 THEN 20 ELSE 70
      [] s = s4 -> IF q = q1 THEN 60 ELSE 50
=============================================================================
