---------------------------- MODULE MCNamespace ----------------------------
(* Small instances of Namespace: two directories, each with one more name. *)
EXTENDS Namespace, TLC

CONSTANTS dir1, dir2, leaf, hid

AllComponents == {dir1, dir2, leaf, hid}
TwoDirectories == {<<dir1>>, <<dir2>>, <<dir1, leaf>>, <<dir2, leaf>>}
HiddenInEach == {<<hid>>, <<dir1, hid>>, <<dir2, hid>>}

Symmetry == Permutations({dir1, dir2}) \cup Permutations(Contents) \cup Permutations(Handles)

=============================================================================
