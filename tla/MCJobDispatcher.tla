-------------------------- MODULE MCJobDispatcher ---------------------------
(* TLC instance of JobDispatcher.                                          *)
EXTENDS JobDispatcher

CONSTANTS d1, d2, d3, c1, c2, h1

MCDocs == {d1, d2, d3}
MCCopies == {c1, c2}
MCHandlers == {h1}
=============================================================================
