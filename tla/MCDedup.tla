------------------------------ MODULE MCDedup ------------------------------
(***************************************************************************)
(* Small instances of Dedup.  A digest is its content tagged, so two       *)
(* contents never collide.                                                 *)
(***************************************************************************)
EXTENDS DedupProps, TLC

MCHashes == {<<"sha", c>> : c \in Contents}
MCHashOf == [c \in Contents |-> <<"sha", c>>]

SeqsOf(n) == [1 .. n -> Contents]
Distinct(s) == \A j, k \in DOMAIN s : s[j] = s[k] => j = k

\* Buffers of one block; of one or two different blocks; of one or two.
OneBlock == SeqsOf(1)
DistinctPairs == SeqsOf(1) \cup {s \in SeqsOf(2) : Distinct(s)}
AnyPairs == SeqsOf(1) \cup SeqsOf(2)

Symmetry == Permutations(Threads) \cup Permutations(Paths)
            \cup Permutations(Contents) \cup Permutations(InfoIds)

=============================================================================
