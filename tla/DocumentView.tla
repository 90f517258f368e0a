---------------------------- MODULE DocumentView ----------------------------
(***************************************************************************)
(* What a reader of one document may see: /search shows nothing of it, or  *)
(* the sections of exactly one version, the one whose markdown was saved   *)
(* last; versions never go back.  IngestLifecycle implements this as long  *)
(* as one run at a time is past the claim.                                 *)
(***************************************************************************)
EXTENDS Integers

CONSTANT MaxVersion

VARIABLES
    source,     \* version of the S3 object
    saved,      \* version of the markdown artifact, 0 if none
    shown       \* version whose sections the vector index holds, 0 if none

viewVars == <<source, saved, shown>>

Init == source = 1 /\ saved = 0 /\ shown = 0

Upload ==
    /\ source < MaxVersion
    /\ source' = source + 1
    /\ UNCHANGED <<saved, shown>>

\* The bytes were read some time before the markdown is saved.
Save ==
    /\ saved' \in saved..source
    /\ UNCHANGED <<source, shown>>

Hide == shown' = 0 /\ UNCHANGED <<source, saved>>

Publish ==
    /\ shown = 0
    /\ shown' = saved
    /\ UNCHANGED <<source, saved>>

Next == Upload \/ Save \/ Hide \/ Publish

Spec == Init /\ [][Next]_viewVars
=============================================================================
