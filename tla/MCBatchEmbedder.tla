-------------------------- MODULE MCBatchEmbedder ---------------------------
(* TLC instance of BatchEmbedder.                                          *)
EXTENDS BatchEmbedder

CONSTANTS k1, k2, c1, c2, t1, t2

MCKeys == {k1, k2}
MCCopies == {c1, c2}
MCTimers == {t1, t2}
=============================================================================
