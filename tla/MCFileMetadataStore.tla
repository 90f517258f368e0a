------------------------ MODULE MCFileMetadataStore -------------------------
(* TLC instance of FileMetadataStore.                                      *)
EXTENDS FileMetadataStore

CONSTANTS w1, w2, d1, d2

MCTwoWorkers == {w1, w2}
MCDocs == {d1, d2}
=============================================================================
