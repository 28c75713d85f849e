---------------------------- MODULE MCDedupFiles ----------------------------
(***************************************************************************)
(* Small instances of DedupFiles, to check the refinement of FileStore.    *)
(***************************************************************************)
EXTENDS MCDedup, DedupFiles

=============================================================================
