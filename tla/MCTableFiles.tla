---------------------------- MODULE MCTableFiles ----------------------------
(***************************************************************************)
(* Small instances of TableFiles: digests and buffers as in MCDedup, and   *)
(* the sets of faults.                                                     *)
(***************************************************************************)
EXTENDS TableFiles, TLC

MCHashes == {<<"sha", c>> : c \in Contents}
MCHashOf == [c \in Contents |-> <<"sha", c>>]
OneBlock == [1 .. 1 -> Contents]

Symmetry == Permutations(Paths) \cup Permutations(Contents)

AllOpens == {"load", "hash", "file", "values", "sizes", "free"}

=============================================================================
