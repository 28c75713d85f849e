--------------------------- MODULE AddressSearch ---------------------------
(* The binary search that trace_helpers.c has twice, in ksyms__map_addr and *)
(* in dso__find_sym: the largest key not above an address.                  *)
EXTENDS Integers, Sequences

\* The loop over positions of C, from 0, until start and end meet.  The
\* result is the set with the position found, of TLA+, or empty.
Search(keys, addr) ==
  LET search[start \in 0..Len(keys), end \in -1..Len(keys)] ==
        LET mid == start + (end - start + 1) \div 2
        IN  IF start < end
            THEN IF keys[mid + 1] <= addr THEN search[mid, end] ELSE search[start, mid - 1]
            ELSE <<start, end>>
      stop == search[0, Len(keys) - 1]
  IN  {i \in DOMAIN keys : stop[1] = stop[2] /\ i = stop[1] + 1 /\ keys[i] <= addr}

=============================================================================
