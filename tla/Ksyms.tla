------------------------------- MODULE Ksyms -------------------------------
(***************************************************************************)
(* The table of kernel symbols of trace_helpers.c: ksyms__load reads       *)
(* /proc/kallsyms line by line into two arrays that grow by a third, turns *)
(* offsets into pointers and sorts; ksyms__map_addr searches the table.    *)
(*                                                                         *)
(* A name is a number, ordered as strcmp orders names; Length is the room  *)
(* it takes in strs.  An array is what has been written into it and its    *)
(* capacity; strs holds names, found again by the offset they start at.    *)
(***************************************************************************)
EXTENDS Integers, Sequences, FiniteSets, SequencesExt, AddressSearch

CONSTANTS
  Names,            \* numbers
  Length(_),        \* strlen(name) + 1
  Addrs,            \* the addresses symbols have
  MinCap,           \* 1024
  MaxLines          \* bound: lines of kallsyms

ASSUME NamesAssumption == Names \subseteq Nat /\ \A n \in Names : Length(n) \in Nat \ {0}
ASSUME AddrsAssumption == Addrs \subseteq Nat
ASSUME MinCapAssumption == MinCap \in Nat /\ MinCap >= 3
ASSUME LinesAssumption == MaxLines \in Nat

VARIABLES
  phase,                        \* "reading", "loaded", "freed"
  lines,                        \* history: the lines read
  syms, syms_sz, syms_cap,      \* struct ksyms
  strs, strs_sz, strs_cap

vars == <<phase, lines, syms, syms_sz, syms_cap, strs, strs_sz, strs_cap>>

Init ==
  /\ phase = "reading" /\ lines = <<>>
  /\ syms = <<>> /\ syms_sz = 0 /\ syms_cap = 0
  /\ strs = <<>> /\ strs_sz = 0 /\ strs_cap = 0

Largest(a, b) == IF a < b THEN b ELSE a

\* The new capacities of strs and syms, when they are too small.
StrsCap(len) ==
  IF strs_sz + len > strs_cap
  THEN Largest(MinCap, Largest(strs_sz + len, (strs_cap * 4) \div 3))
  ELSE strs_cap
NoGrowth == IF syms_sz + 1 > syms_cap THEN Largest(MinCap, syms_cap) ELSE syms_cap
SymsCap == IF syms_sz + 1 > syms_cap THEN Largest(MinCap, (syms_cap * 4) \div 3) ELSE syms_cap

\* ksyms__add_symbol: the name is kept as its offset in strs.
AddSymbol(name, addr) ==
  /\ phase = "reading" /\ Len(lines) < MaxLines
  /\ lines' = Append(lines, [name |-> name, addr |-> addr])
  /\ strs_cap' = StrsCap(Length(name))
  /\ syms_cap' = SymsCap
  /\ syms' = Append(syms, [name |-> strs_sz, addr |-> addr])
  /\ strs' = Append(strs, [at |-> strs_sz, name |-> name])
  /\ strs_sz' = strs_sz + Length(name)
  /\ syms_sz' = syms_sz + 1
  /\ UNCHANGED phase

\* ksyms__free: by the caller, or by ksyms__load when a line does not scan or
\* a realloc fails.
Free ==
  /\ phase \in {"reading", "loaded"}
  /\ phase' = "freed" /\ lines' = <<>>
  /\ syms' = <<>> /\ syms_sz' = 0 /\ syms_cap' = 0
  /\ strs' = <<>> /\ strs_sz' = 0 /\ strs_cap' = 0

\* The string at an offset of strs.
StringAt(off) == (CHOOSE s \in ToSet(strs) : s.at = off).name

\* ksym_cmp.
AddrOnly(s1, s2) == s1.addr < s2.addr
Before(s1, s2) == s1.addr < s2.addr \/ (s1.addr = s2.addr /\ s1.name < s2.name)

\* The end of the file: pointers for offsets, and qsort.
Finish ==
  /\ phase = "reading"
  /\ phase' = "loaded"
  /\ syms' = SortSeq([i \in DOMAIN syms |-> [syms[i] EXCEPT !.name = StringAt(@)]], Before)
  /\ UNCHANGED <<lines, syms_sz, syms_cap, strs, strs_sz, strs_cap>>

Next ==
  \/ \E n \in Names, a \in Addrs : AddSymbol(n, a)
  \/ Finish \/ Free

Spec == Init /\ [][Next]_vars

-----------------------------------------------------------------------------
(* The lookups. *)

\* ksyms__map_addr: a set with the symbol, or empty for NULL.
map_addr(addr) == {syms[i] : i \in Search([i \in DOMAIN syms |-> syms[i].addr], addr)}

\* ksyms__get_symbol: the first of that name.
get_symbol(name) ==
  {syms[i] : i \in {i \in DOMAIN syms : syms[i].name = name /\ \A j \in 1..(i - 1) : syms[j].name # name}}

-----------------------------------------------------------------------------
(* Properties. *)

\* The arrays ksyms__add_symbol writes to are large enough after it made room.
WithinCapacity == syms_sz <= syms_cap /\ strs_sz <= strs_cap

\* Every address is mapped to the symbol with the largest address not above
\* it, and of several at that address to the one whose name is last; every
\* name to the lowest address it has (ksyms__map_addr, ksyms__get_symbol).
LookupsRight ==
  phase = "loaded" =>
    LET known == ToSet(lines)
    IN  /\ \A a \in Addrs : map_addr(a) =
             {s \in known : s.addr <= a /\ \A t \in known : t.addr <= a =>
                             t.addr < s.addr \/ (t.addr = s.addr /\ t.name <= s.name)}
        /\ \A n \in Names : get_symbol(n) =
             {s \in known : s.name = n /\ \A t \in known : t.name = n => s.addr <= t.addr}

=============================================================================
