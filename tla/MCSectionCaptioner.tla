------------------------- MODULE MCSectionCaptioner -------------------------
(* TLC instance of SectionCaptioner.                                       *)
EXTENDS SectionCaptioner

CONSTANTS r1, r2, s1, s2, s3

MCRuns == {r1, r2}
MCSections == {s1, s2, s3}
=============================================================================
