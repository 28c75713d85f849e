---------------------------- MODULE KsymsProofs ----------------------------
(* The arrays of ksyms never overflow, whatever kallsyms holds. *)
EXTENDS Ksyms, TLAPS

\* A capacity is 0 or at least MinCap: below 3, a third more is nothing more.
Capacities ==
  /\ syms_sz \in Nat /\ syms_cap \in Nat /\ strs_sz \in Nat /\ strs_cap \in Nat
  /\ syms_cap = 0 \/ syms_cap >= MinCap

\* The inductive invariant.
CapInv == Capacities /\ WithinCapacity

\* A third more is at least one more, from 3 on.
LEMMA ThirdMore == \A c \in Nat : c >= 3 => (c * 4) \div 3 \in Nat /\ (c * 4) \div 3 >= c + 1
  OBVIOUS

\* The room syms has once ksyms__add_symbol made it.
LEMMA RoomInSyms ==
  ASSUME CapInv
  PROVE  SymsCap \in Nat /\ SymsCap >= syms_sz + 1 /\ SymsCap >= MinCap
<1>1. CASE syms_cap = 0
  BY <1>1, MinCapAssumption DEF CapInv, Capacities, WithinCapacity, SymsCap, Largest
<1>2. CASE syms_cap >= MinCap
  BY <1>2, MinCapAssumption, ThirdMore DEF CapInv, Capacities, WithinCapacity, SymsCap, Largest
<1> QED BY <1>1, <1>2 DEF CapInv, Capacities

\* The room strs has for a name of that length.
LEMMA RoomInStrs ==
  ASSUME CapInv, NEW len \in Nat
  PROVE  StrsCap(len) \in Nat /\ StrsCap(len) >= strs_sz + len
<1>1. (strs_cap * 4) \div 3 \in Nat
  BY DEF CapInv, Capacities
<1> QED BY <1>1, MinCapAssumption DEF CapInv, Capacities, WithinCapacity, StrsCap, Largest

\* Every step of the load keeps the invariant.
LEMMA CapStep == CapInv /\ [Next]_vars => CapInv'
<1> SUFFICES ASSUME CapInv, [Next]_vars PROVE CapInv'
  OBVIOUS
<1>1. ASSUME NEW n \in Names, NEW a \in Addrs, AddSymbol(n, a) PROVE CapInv'
  <2>1. Length(n) \in Nat
    BY NamesAssumption
  <2>2. SymsCap \in Nat /\ SymsCap >= syms_sz + 1 /\ SymsCap >= MinCap
    BY RoomInSyms
  <2>3. StrsCap(Length(n)) \in Nat /\ StrsCap(Length(n)) >= strs_sz + Length(n)
    BY <2>1, RoomInStrs
  <2>4. /\ syms_sz' = syms_sz + 1 /\ syms_cap' = SymsCap
        /\ strs_sz' = strs_sz + Length(n) /\ strs_cap' = StrsCap(Length(n))
    BY <1>1 DEF AddSymbol
  <2> QED BY <2>1, <2>2, <2>3, <2>4 DEF CapInv, Capacities, WithinCapacity
<1>2. CASE Free
  BY <1>2 DEF CapInv, Capacities, WithinCapacity, Free
<1>3. CASE Finish
  BY <1>3 DEF CapInv, Capacities, WithinCapacity, Finish
<1>4. CASE UNCHANGED vars
  BY <1>4 DEF CapInv, Capacities, WithinCapacity, vars
<1> QED BY <1>1, <1>2, <1>3, <1>4 DEF Next

\* ksyms__add_symbol never writes behind the end of syms or of strs: the
\* capacity it grows them to holds the symbol and the name it adds.
THEOREM ArraysNeverOverflow == Spec => []WithinCapacity
<1>1. Init => CapInv
  BY DEF Init, CapInv, Capacities, WithinCapacity
<1>2. CapInv => WithinCapacity
  BY DEF CapInv
<1> QED BY <1>1, <1>2, CapStep, PTL DEF Spec

=============================================================================
