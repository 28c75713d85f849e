------------------------------ MODULE Symbols ------------------------------
(***************************************************************************)
(* A tracer that uses both tables of trace_helpers.c: the kernel's symbols *)
(* (Ksyms), then those of processes (ProcSyms).  The two share no state,   *)
(* so their steps commute, and it is enough to let one follow the other.   *)
(***************************************************************************)
EXTENDS Ksyms

CONSTANTS Tgids, MapFiles, Elf, ProcAddrs, NULL, MaxExecs   \* of ProcSyms

VARIABLES maps, execs, cache, answer, loaded_maps           \* of ProcSyms

proc == <<maps, execs, cache, answer, loaded_maps>>

Proc == INSTANCE ProcSyms WITH Addrs <- ProcAddrs

SymbolsInit == Init /\ Proc!Init

SymbolsNext ==
  \/ Next /\ UNCHANGED proc
  \/ phase = "freed" /\ Proc!Next /\ UNCHANGED vars

SymbolsSpec == SymbolsInit /\ [][SymbolsNext]_<<vars, proc>>

\* syms__map_addr_dso: every answer about an address of a process is right for
\* the maps that the cache read, unless it comes out of a dso whose symbols
\* could not be added and which dso__load_sym_table_from_elf therefore freed.
AnswersRight == Proc!AnswersRight

\* syms_cache__get_syms and dso__find_sym: what the cache holds once, later
\* lookups and changes of the process do not alter, except that a load which
\* fails in dso__add_syms frees a dso no symbol was handed out of.
AnswersStay == [][Proc!CacheKept]_<<vars, proc>>

=============================================================================
