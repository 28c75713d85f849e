---------------------------- MODULE MCDedupRead ----------------------------
(***************************************************************************)
(* Small instances of DedupRead: one or two writers and one reader.        *)
(***************************************************************************)
EXTENDS MCDedup, DedupRead

=============================================================================
