---------------------------- MODULE MCBufferedIO ----------------------------
(***************************************************************************)
(* Small instances of BufferedIO: every list of up to MaxElems slots, and  *)
(* of up to MaxElems block indices with paths of up to MaxPath characters. *)
(***************************************************************************)
EXTENDS BufferedIO

CONSTANTS MaxElems, MaxPath

Slots == {5, 6}
Chars == 1 .. 2
BlockIndices ==
  [path : UNION {[1 .. k -> Chars] : k \in 1 .. MaxPath}, offset : {0, 1}]

ListsOf(kind, S) ==
  {[kind |-> kind, elems |-> e] : e \in UNION {[1 .. k -> S] : k \in 0 .. MaxElems}}
MCLists == ListsOf("free_block", Slots) \cup ListsOf("block_indice", BlockIndices)

=============================================================================
