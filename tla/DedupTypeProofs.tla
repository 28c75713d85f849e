-------------------------- MODULE DedupTypeProofs --------------------------
(***************************************************************************)
(* What the steps of Dedup have in common: the types they preserve, the    *)
(* shape of a thread's locals from one step to the next, and the counting  *)
(* of references.  With that, the steps keep TypeInv, and SizeInv if the   *)
(* kernel locks inodes (SerialPaths) and writes leave no hole.             *)
(*                                                                         *)
(* A buffer that repeats a block breaks the counts (run duplicate_race),   *)
(* so the payloads are taken to be free of repetitions where they matter.  *)
(***************************************************************************)
EXTENDS DedupProps, TLAPS

\* Facts about sequences: an element, a concatenation, a slice, an update.
LEMMA SeqElement ==
  ASSUME NEW S, NEW s \in Seq(S), NEW n \in 1 .. Len(s)
  PROVE  s[n] \in S
OBVIOUS

\* One sequence after another.
LEMMA SeqConcat ==
  ASSUME NEW S, NEW a \in Seq(S), NEW b \in Seq(S)
  PROVE  /\ a \o b \in Seq(S)
         /\ Len(a \o b) = Len(a) + Len(b)
         /\ \A i \in 1 .. Len(a) + Len(b) : (a \o b)[i] = IF i <= Len(a) THEN a[i] ELSE b[i - Len(a)]
OBVIOUS

\* A slice of a sequence.
LEMMA SeqSlice ==
  ASSUME NEW S, NEW s \in Seq(S), NEW m \in Int, NEW n \in Int, 1 <= m, n <= Len(s)
  PROVE  /\ SubSeq(s, m, n) \in Seq(S)
         /\ Len(SubSeq(s, m, n)) = IF m <= n THEN n - m + 1 ELSE 0
         /\ \A i \in 1 .. n - m + 1 : SubSeq(s, m, n)[i] = s[m + i - 1]
OBVIOUS

\* What is left of a range after its first element.
LEMMA RestOfRange ==
  ASSUME NEW n \in Nat, NEW b \in 1 .. n
  PROVE  /\ b >= b /\ \A j \in 1 .. n : j >= 1
         /\ \A j \in 1 .. n : j >= b + 1 <=> j >= b /\ j # b
         /\ ~(b < n) => \A j \in 1 .. n : j >= b <=> j = b
OBVIOUS

\* What the steps need of least and greatest elements and of cardinalities.
\* DedupProofs derives both from the theorems on natural numbers and finite
\* sets.
MinMaxLaws ==
  \A S \in SUBSET Nat : S # {} =>
    /\ Min(S) \in S /\ \A y \in S : Min(S) <= y
    /\ \A n \in Nat : (\A y \in S : y <= n) => Max(S) \in S /\ \A y \in S : y <= Max(S)

CountingLaws ==
  /\ \A S : IsFiniteSet(S) =>
       /\ Cardinality(S) \in Nat
       /\ Cardinality(S) = 0 <=> S = {}
       /\ Cardinality(S) = 1 <=> \E x : S = {x}
  /\ \A S, x : IsFiniteSet(S) /\ x \notin S => Cardinality(S \cup {x}) = Cardinality(S) + 1
  /\ \A S, x : IsFiniteSet(S) /\ x \in S => Cardinality(S \ {x}) = Cardinality(S) - 1
  /\ \A S \in SUBSET (Paths \X Blocks) : IsFiniteSet(S)
  /\ \A S \in SUBSET (Threads \X (1 .. MaxBlocks)) : IsFiniteSet(S)

\* Min and Max of two numbers.
LEMMA PairMinMax ==
  ASSUME NEW a \in Int, NEW b \in Int
  PROVE  /\ Min({a, b}) \in {a, b} /\ Min({a, b}) <= a /\ Min({a, b}) <= b
         /\ Max({a, b}) \in {a, b} /\ a <= Max({a, b}) /\ b <= Max({a, b})
<1>1. \E x \in {a, b} : \A y \in {a, b} : x <= y
  OBVIOUS
<1>2. \E x \in {a, b} : \A y \in {a, b} : x >= y
  OBVIOUS
<1>3. Min({a, b}) \in {a, b} /\ \A y \in {a, b} : Min({a, b}) <= y
  BY <1>1, Zenon DEF Min
<1>4. Max({a, b}) \in {a, b} /\ \A y \in {a, b} : Max({a, b}) >= y
  BY <1>2, Zenon DEF Max
<1>. QED
  BY <1>3, <1>4

\* The types of one thread's locals.
LEMMA LocalTypes ==
  ASSUME TypeOK, NEW t \in Threads
  PROVE  /\ pc[t] \in Steps /\ blk[t] \in Nat /\ miss_count[t] \in Nat
         /\ req[t].start \in Nat /\ req[t].count \in Nat /\ req[t].buf \in Seq(Contents)
         /\ req[t].path \in Paths \cup {NULL}
         /\ plan[t] \in Seq(PlanEntry) /\ out[t] \in Seq(Nat) /\ rel[t] \in Seq(Nat)
BY Zenon DEF TypeOK, Requests

\* What TypeInv says of one thread.
LEMMA Parts ==
  ASSUME TypeInv, NEW t \in Threads
  PROVE  TypeOK /\ LockInv /\ RequestShape(t) /\ LoopShape(t) /\ PlanShape(t) /\ SlotShape(t)
BY DEF TypeInv, Shape

\* The names of steps that actions go to.
LEMMA StepNames ==
  /\ "idle" \in Steps /\ "p1" \in Steps /\ "p1take" \in Steps /\ "p1unlock" \in Steps
  /\ "append" \in Steps /\ "flush" \in Steps /\ "p3lock" \in Steps /\ "publish" \in Steps
  /\ "map" \in Steps /\ "p3unlock" \in Steps /\ "rblock" \in Steps /\ "rbhits" \in Steps
  /\ "rbunlock" \in Steps /\ "rbmisses" \in Steps /\ "remove" \in Steps /\ "rmunlock" \in Steps
  /\ "setsize" \in Steps
BY DEF Steps

\* A step of one thread leaves the locals of the others alone.
SameLocals(u) ==
  /\ pc'[u] = pc[u] /\ req'[u] = req[u] /\ blk'[u] = blk[u] /\ plan'[u] = plan[u]
  /\ miss_count'[u] = miss_count[u] /\ out'[u] = out[u] /\ rel'[u] = rel[u]

-----------------------------------------------------------------------------
(* From one step of a request to the next, outside the loops. *)

StraightSteps ==
  {<<"p1lock", "p1">>, <<"p1unlock", "drain">>, <<"p1unlock", "p3lock">>, <<"drain", "append">>,
   <<"append", "flush">>, <<"flush", "p3lock">>, <<"flush", "rblock">>, <<"p3lock", "publish">>,
   <<"p3unlock", "p3release">>, <<"rblock", "rbhits">>, <<"rbunlock", "rbrelease">>,
   <<"rbrelease", "rbmisses">>, <<"rmlock", "remove">>, <<"rmunlock", "rmrelease">>,
   <<"rmrelease", "setsize">>}

\* What a step of a loop does to the program counter and the loop counter.
LEMMA LoopStep ==
  ASSUME TypeOK, NEW t \in Threads, NEW again \in Steps, NEW after \in Steps,
         NextBlock(t, again, after)
  PROVE  /\ pc' \in [Threads -> Steps] /\ blk' \in [Threads -> Nat]
         /\ \A u \in Threads \ {t} : pc'[u] = pc[u] /\ blk'[u] = blk[u]
         /\ \/ blk[t] < req[t].count /\ blk'[t] = blk[t] + 1 /\ pc'[t] = again
            \/ ~(blk[t] < req[t].count) /\ blk'[t] = 1 /\ pc'[t] = after
<1>1. pc \in [Threads -> Steps] /\ blk \in [Threads -> Nat]
  BY Zenon DEF TypeOK
<1>2. CASE blk[t] < req[t].count
  BY <1>1, <1>2 DEF NextBlock, Goto
<1>3. CASE ~(blk[t] < req[t].count)
  BY <1>1, <1>3 DEF NextBlock, Goto
<1>. QED
  BY <1>2, <1>3

\* The fields of a MasterInfo, and what stays one when they change.
LEMMA InfoTypes ==
  ASSUME TypeOK, NEW m \in InfoIds
  PROVE  /\ info[m].hash \in Hashes \cup {NULL} /\ info[m].masterBlockIndex \in Nat
         /\ info[m].refcount \in Int
         /\ [info EXCEPT ![m].refcount = @ + 1] \in [InfoIds -> MasterInfo]
         /\ [info EXCEPT ![m].refcount = @ - 1] \in [InfoIds -> MasterInfo]
         /\ [info EXCEPT ![m] = Freed] \in [InfoIds -> MasterInfo]
<1>1. info \in [InfoIds -> MasterInfo]
  BY DEF TypeOK
<1>2. /\ [info[m] EXCEPT !.refcount = @ + 1] \in MasterInfo
      /\ [info[m] EXCEPT !.refcount = @ - 1] \in MasterInfo
      /\ Freed \in MasterInfo
  BY <1>1 DEF MasterInfo, Freed
<1>3. /\ info[m].hash \in Hashes \cup {NULL} /\ info[m].masterBlockIndex \in Nat
      /\ info[m].refcount \in Int
  BY <1>1 DEF MasterInfo
<1>. QED
  BY <1>1, <1>2, <1>3

\* The entries of a plan, and their MISSes.
LEMMA PlanTypes ==
  ASSUME TypeOK, NEW t \in Threads, NEW j \in DOMAIN plan[t]
  PROVE  /\ j \in 1 .. Len(plan[t]) /\ plan[t][j] \in PlanEntry
         /\ plan[t][j].info \in InfoIds /\ plan[t][j].rank \in Nat
         /\ plan[t][j].kind \in {"HIT", "MISS"}
<1>1. j \in 1 .. Len(plan[t]) /\ plan[t][j] \in PlanEntry
  BY LocalTypes, SeqElement
<1>. QED
  BY <1>1 DEF PlanEntry

\* The entry of the plan that a loop is at.
LEMMA LoopEntry ==
  ASSUME TypeInv, NEW t \in Threads, pc[t] \in {"p1take", "publish", "map", "rbhits"}
  PROVE  blk[t] \in DOMAIN plan[t] /\ plan[t][blk[t]].info \in InfoIds
<1>1. blk[t] \in DOMAIN plan[t]
  BY Parts, LocalTypes, SMTT(30) DEF LoopShape, PlanShape, LoopSteps, PlannedSteps, AllocatedSteps
<1>. QED
  BY <1>1, Parts, PlanTypes, SMTT(30)

\* The block that the loop of Passe 1 is at has a digest.
LEMMA BlockHashType ==
  ASSUME TypeInv, NEW t \in Threads, pc[t] = "p1"
  PROVE  BlockHash(t) \in Hashes
<1>1. blk[t] \in 1 .. Len(req[t].buf) /\ req[t].buf \in Seq(Contents)
  BY Parts, LocalTypes DEF RequestShape, LoopShape, LoopSteps
<1>2. req[t].buf[blk[t]] \in Contents
  BY <1>1, SeqElement
<1>. QED
  BY <1>2, HashOfAssumption DEF BlockHash

\* A loop over the blocks of a request stays within the file.
LEMMA FileBlockType ==
  ASSUME TypeInv, NEW t \in Threads, pc[t] \in {"map", "remove"}
  PROVE  FileBlock(t) \in Paths \X Blocks
<1>1. /\ req[t].path \in Paths /\ req[t].start \in Nat /\ req[t].count \in Nat /\ blk[t] \in Nat
      /\ req[t].start + req[t].count <= MaxBlocks /\ 0 < blk[t] /\ blk[t] <= req[t].count
  BY Parts, LocalTypes DEF RequestShape, LoopShape, LoopSteps
<1>2. req[t].start + blk[t] - 1 \in Blocks
  BY <1>1, BoundsAssumption DEF Blocks
<1>. QED
  BY <1>1, <1>2 DEF FileBlock

\* Nobody writes to the locals of another thread.
LEMMA OthersUnchanged ==
  ASSUME TypeOK, NEW t \in Threads, Start(t) \/ Step(t), NEW u \in Threads, u # t
  PROVE  SameLocals(u)
<1>. SUFFICES /\ pc'[u] = pc[u] /\ req'[u] = req[u] /\ blk'[u] = blk[u] /\ plan'[u] = plan[u]
              /\ miss_count'[u] = miss_count[u] /\ out'[u] = out[u] /\ rel'[u] = rel[u]
  BY DEF SameLocals
<1>0. /\ DOMAIN pc = Threads /\ DOMAIN req = Threads /\ DOMAIN blk = Threads /\ DOMAIN plan = Threads
      /\ DOMAIN miss_count = Threads /\ DOMAIN out = Threads /\ DOMAIN rel = Threads
  BY SMTT(90) DEF TypeOK
<1>. USE DEF Goto, request
<1>1. CASE Start(t)
  BY <1>0, <1>1, Zenon DEF Start, StartWrite, StartUnlink, StartTruncate, Arrive
<1>2. CASE P1Lock(t)
  BY <1>0, <1>2, Zenon DEF P1Lock
<1>3. CASE P1Hit(t)
  BY <1>0, <1>3, Zenon DEF P1Hit
<1>4. CASE P1Take(t)
  BY <1>0, <1>4, Zenon DEF P1Take, NextBlock
<1>5. CASE P1Miss(t)
  BY <1>0, <1>5, ZenonT(30) DEF P1Miss, NextBlock
<1>6. CASE P1Unlock(t)
  BY <1>0, <1>6, Zenon DEF P1Unlock
<1>7. CASE Drain(t)
  BY <1>0, <1>7, Zenon DEF Drain
<1>8. CASE AppendSlots(t)
  BY <1>0, <1>8, Zenon DEF AppendSlots
<1>9. CASE FlushRun(t)
  BY <1>0, <1>9, Zenon DEF FlushRun
<1>10. CASE FlushFail(t)
  BY <1>0, <1>10, Zenon DEF FlushFail
<1>11. CASE P3Lock(t)
  BY <1>0, <1>11, Zenon DEF P3Lock
<1>12. CASE PublishBlock(t)
  BY <1>0, <1>12, Zenon DEF PublishBlock, NextBlock
<1>13. CASE MapBlock(t)
  BY <1>0, <1>13, Zenon DEF MapBlock, NextBlock, DropReference
<1>14. CASE P3Unlock(t)
  BY <1>0, <1>14, Zenon DEF P3Unlock
<1>15. CASE P3Release(t)
  BY <1>0, <1>15, Zenon DEF P3Release, Return, ReleaseSlots
<1>16. CASE RbLock(t)
  BY <1>0, <1>16, Zenon DEF RbLock
<1>17. CASE RbHit(t)
  BY <1>0, <1>17, Zenon DEF RbHit, NextBlock, DropReference
<1>18. CASE RbUnlock(t)
  BY <1>0, <1>18, Zenon DEF RbUnlock
<1>19. CASE RbRelease(t)
  BY <1>0, <1>19, Zenon DEF RbRelease, ReleaseSlots
<1>20. CASE RbMisses(t)
  BY <1>0, <1>20, Zenon DEF RbMisses, Return
<1>21. CASE RmLock(t)
  BY <1>0, <1>21, Zenon DEF RmLock
<1>22. CASE RmBlock(t)
  BY <1>0, <1>22, Zenon DEF RmBlock, NextBlock, DropReference
<1>23. CASE RmUnlock(t)
  BY <1>0, <1>23, Zenon DEF RmUnlock
<1>24. CASE RmRelease(t)
  BY <1>0, <1>24, Zenon DEF RmRelease, ReleaseSlots
<1>25. CASE SetSize(t)
  BY <1>0, <1>25, Zenon DEF SetSize, Return
<1>. QED
  BY <1>1, <1>2, <1>3, <1>4, <1>5, <1>6, <1>7, <1>8, <1>9, <1>10, <1>11, <1>12, <1>13,
     <1>14, <1>15, <1>16, <1>17, <1>18, <1>19, <1>20, <1>21, <1>22, <1>23, <1>24, <1>25, ZenonT(30) DEF Step

-----------------------------------------------------------------------------
(* The runs of a flush. *)

\* A flush is at a run of MISSes with slots, within the buffer.
LEMMA RunFacts ==
  ASSUME MinMaxLaws, TypeInv, NEW t \in Threads, pc[t] = "flush"
  PROVE  /\ RunStart(t) \in Misses(t) /\ RunEnd(t) \in Misses(t)
         /\ RunStart(t) \in Nat /\ RunEnd(t) \in Nat
         /\ 1 <= RunStart(t) /\ RunStart(t) <= RunEnd(t) /\ RunEnd(t) <= Len(req[t].buf)
         /\ MasterBlk(t, RunStart(t)) \in Nat
         /\ InRun(t, RunEnd(t)) /\ \A j \in Unflushed(t) : RunStart(t) <= j
<1>t. TypeOK /\ LockInv /\ RequestShape(t) /\ LoopShape(t) /\ PlanShape(t) /\ SlotShape(t)
  BY Parts, Zenon
<1>1. Misses(t) \in SUBSET Nat /\ \A j \in Misses(t) : 1 <= j /\ j <= Len(plan[t])
  BY <1>t, LocalTypes DEF Misses
<1>2. Unflushed(t) \in SUBSET Nat /\ Unflushed(t) # {} /\ Unflushed(t) \subseteq Misses(t)
  BY <1>t, <1>1, Zenon DEF SlotShape, Unflushed
<1>3. RunStart(t) \in Unflushed(t) /\ \A j \in Unflushed(t) : RunStart(t) <= j
  BY <1>2, Zenon DEF MinMaxLaws, RunStart
<1>4. Len(out[t]) = miss_count[t] /\ Len(plan[t]) = Len(req[t].buf)
  BY <1>t, Zenon DEF RequestShape, PlanShape, SlotShape, PlannedSteps, AllocatedSteps
<1>5. MasterBlk(t, RunStart(t)) \in Nat
  <2>1. plan[t][RunStart(t)].rank \in 1 .. Len(out[t])
    BY <1>t, <1>2, <1>3, <1>4, Zenon DEF PlanShape
  <2>. QED
    BY <1>t, <2>1, LocalTypes, SeqElement, Zenon DEF MasterBlk
<1>. DEFINE E == {e \in Unflushed(t) : InRun(t, e)}
<1>6. InRun(t, RunStart(t))
  <2>1. RunStart(t) \in Nat /\ RunStart(t) \in Misses(t)
    BY <1>2, <1>3, Zenon
  <2>2. \A j \in RunStart(t) .. RunStart(t) : j = RunStart(t)
    BY <2>1
  <2>. QED
    BY <1>5, <2>1, <2>2 DEF InRun
<1>7. RunEnd(t) \in E
  <2>1. E \in SUBSET Nat /\ E # {} /\ Len(plan[t]) \in Nat /\ \A e \in E : e <= Len(plan[t])
    BY <1>t, <1>1, <1>2, <1>3, <1>6, LocalTypes, SMTT(90)
  <2>. QED
    BY <2>1, Zenon DEF MinMaxLaws, RunEnd
<1>. QED
  BY <1>1, <1>2, <1>3, <1>4, <1>5, <1>7, Zenon

-----------------------------------------------------------------------------
(* The mapped blocks of a file, at every step of a change of it. *)

\* A file whose blocks of the set S, and no others, are mapped.
Mapped(p, S) == \A b \in Blocks : file_to_master[<<p, b>>] # NULL <=> b \in S

Below(n) == {b \in Blocks : b < n}

\* The blocks that the loop of thread t has done, and all those of its request.
Done(t) == {b \in Blocks : req[t].start <= b /\ b < req[t].start + blk[t] - 1}
Covered(t) == {b \in Blocks : req[t].start <= b /\ b < NewEnd(t)}

\* What thread t at work has mapped of its file so far.
MappedSoFar(t) ==
  LET size == SizeOf(req[t].path) IN
  CASE pc[t] = "map" -> Below(size) \cup Done(t)
    [] pc[t] = "p3unlock" -> Below(size) \cup Covered(t)
    [] pc[t] = "remove" -> Below(size) \ Done(t)
    [] pc[t] \in {"rmunlock", "rmrelease", "setsize"} -> Below(req[t].start)
    [] OTHER -> Below(size)

\* A write begins within its file or at its end; a removal reaches to its end.
\* An unlink removes everything, a truncate lowers the size.
RequestFits(t) ==
  LET size == SizeOf(req[t].path) IN
  /\ pc[t] \in PlannedSteps \cup {"p1lock", "p1", "p1take"} => req[t].start <= size
  /\ pc[t] \in RemoveSteps =>
       /\ NewEnd(t) = size
       /\ req[t].op = "unlink" => req[t].start = 0
       /\ req[t].op # "unlink" => file_to_sizes[req[t].path] # NULL /\ req[t].count > 0

SizeInv ==
  /\ \A t \in Threads : pc[t] = "idle" => req[t].path = NULL
  /\ \A t, u \in Threads : req[t].path \in Paths /\ req[t].path = req[u].path => t = u
  /\ \A t \in Threads : pc[t] # "idle" => Mapped(req[t].path, MappedSoFar(t)) /\ RequestFits(t)
  /\ \A p \in Paths : (\A t \in Threads : req[t].path # p) => Mapped(p, Below(SizeOf(p)))

\* What request r says of its file when it arrives at a step.
FitsFile(r, step) ==
  \/ step = "p1lock" /\ r.start <= SizeOf(r.path)
  \/ /\ step = "rmlock" \/ (step = "setsize" /\ SizeOf(r.path) = 0 /\ r.start = 0)
     /\ r.start + r.count = SizeOf(r.path)
     /\ r.op = "unlink" => r.start = 0
     /\ r.op # "unlink" => file_to_sizes[r.path] # NULL /\ r.count > 0

\* Steps at which thread t has not changed the mappings of its file.
QuietSteps == {"p1lock", "p1", "p1take", "p1unlock", "drain", "append", "flush", "p3lock", "publish",
               "p3release", "rblock", "rbhits", "rbunlock", "rbrelease", "rbmisses"}

\* SizeInv holds at first, when every file is empty.
LEMMA InitSizeInv == Init => SizeInv
<1>. SUFFICES ASSUME Init PROVE SizeInv
  OBVIOUS
<1>1. \A p \in Paths : Mapped(p, Below(SizeOf(p)))
  BY BoundsAssumption DEF Init, Mapped, Below, SizeOf, Blocks
<1>. QED
  BY <1>1, NullAssumption, Zenon DEF Init, SizeInv, NoRequest

\* A step keeps the mapped blocks what they should be when the kernel
\* serialises the changes of a file and no write leaves a hole.
LEMMA NextSizeInv ==
  ASSUME SerialPaths, ~WithHoles, TypeInv, SizeInv, [Next]_vars
  PROVE  SizeInv'
\* A thread at work has a file.
<1>PathAtWork.
    ASSUME TypeInv, NEW t \in Threads, pc[t] # "idle"
    PROVE  req[t].path \in Paths
    BY <1>PathAtWork, Parts, Zenon DEF RequestShape
\* What a thread has mapped of its file when neither of them moves.
<1>StillMapped.
    ASSUME NEW u \in Threads, pc'[u] = pc[u], req'[u] = req[u], blk'[u] = blk[u],
           NEW file, file = req[u].path, file_to_sizes'[file] = file_to_sizes[file],
           \A b \in Blocks : file_to_master'[<<file, b>>] = file_to_master[<<file, b>>],
           Mapped(file, MappedSoFar(u)), RequestFits(u)
    PROVE  (Mapped(req[u].path, MappedSoFar(u)) /\ RequestFits(u))'
  <2> USE <1>StillMapped
  <2>1. SizeOf(req[u].path)' = SizeOf(req[u].path) /\ NewEnd(u)' = NewEnd(u)
    BY Zenon DEF SizeOf, NewEnd
  <2>2. Done(u)' = Done(u) /\ Covered(u)' = Covered(u)
    BY <2>1, Zenon DEF Done, Covered
  <2>3. /\ Below(SizeOf(req[u].path))' = Below(SizeOf(req[u].path))
        /\ Below(req[u].start)' = Below(req[u].start)
    BY <2>1, Zenon DEF Below
  <2>4. MappedSoFar(u)' = MappedSoFar(u)
    BY <2>1, <2>2, <2>3, ZenonT(30) DEF MappedSoFar
  <2>5. RequestFits(u)'
    BY <2>1, ZenonT(30) DEF RequestFits
  <2>. QED
    BY <2>4, <2>5, Zenon DEF Mapped
\* A step of thread t on its own file leaves the other files alone.
<1>SizeStep.
    ASSUME TypeInv, SizeInv, NEW t \in Threads, Step(t),
           pc[t] # "idle", pc'[t] # "idle", req'[t] = req[t],
           \A p \in Paths : p # req[t].path =>
              /\ file_to_sizes'[p] = file_to_sizes[p]
              /\ \A b \in Blocks : file_to_master'[<<p, b>>] = file_to_master[<<p, b>>],
           Mapped(req[t].path, MappedSoFar(t))', RequestFits(t)'
    PROVE  SizeInv'
  <2> USE <1>SizeStep
  <2>1. \A u \in Threads : u # t => pc'[u] = pc[u] /\ req'[u] = req[u] /\ blk'[u] = blk[u]
    BY Parts, OthersUnchanged, Zenon DEF SameLocals
  <2>2. \A u \in Threads : req'[u] = req[u]
    BY <2>1, ZenonT(30)
  <2>3. ASSUME NEW u \in Threads, u # t, pc[u] # "idle"
        PROVE  (Mapped(req[u].path, MappedSoFar(u)) /\ RequestFits(u))'
    <3>1. req[u].path \in Paths /\ req[u].path # req[t].path
      BY <2>3, <1>PathAtWork, Zenon DEF SizeInv
    <3>2. Mapped(req[u].path, MappedSoFar(u)) /\ RequestFits(u)
      BY <2>3, Zenon DEF SizeInv
    <3>3. /\ file_to_sizes'[req[u].path] = file_to_sizes[req[u].path]
          /\ \A b \in Blocks : file_to_master'[<<req[u].path, b>>] = file_to_master[<<req[u].path, b>>]
      BY <3>1, Zenon
    <3>. QED
      BY ONLY <2>1, <2>3, <3>2, <3>3, <1>StillMapped, Zenon
  <2>4. ASSUME NEW p \in Paths, \A u \in Threads : req[u].path # p
        PROVE  Mapped(p, Below(SizeOf(p)))'
    <3>1. Mapped(p, Below(SizeOf(p))) /\ p # req[t].path
      BY <2>4, Zenon DEF SizeInv
    <3>2. /\ file_to_sizes'[p] = file_to_sizes[p]
          /\ \A b \in Blocks : file_to_master'[<<p, b>>] = file_to_master[<<p, b>>]
      BY <3>1, Zenon
    <3>. QED
      BY ONLY <3>1, <3>2, Zenon DEF Mapped, SizeOf, Below
  <2>. QED
    <3>1. \A u \in Threads : pc'[u] = "idle" => req'[u].path = NULL
      BY <2>1, <2>2, Zenon DEF SizeInv
    <3>2. \A x, y \in Threads : req'[x].path \in Paths /\ req'[x].path = req'[y].path => x = y
      BY <2>2, ZenonT(30) DEF SizeInv
    <3>3. \A u \in Threads : pc'[u] # "idle" => (Mapped(req[u].path, MappedSoFar(u)) /\ RequestFits(u))'
      BY <2>1, <2>3, Zenon
    <3>4. \A p \in Paths : (\A u \in Threads : req'[u].path # p) => Mapped(p, Below(SizeOf(p)))'
      BY <2>2, <2>4, Zenon
    <3>. QED
      BY <3>1, <3>2, <3>3, <3>4, Zenon DEF SizeInv
\* A thread that returns leaves its file with the blocks below its size.
<1>SizeReturn.
    ASSUME TypeInv, SizeInv, NEW t \in Threads, Step(t), Return(t), pc[t] # "idle",
           NEW file \in Paths, file = req[t].path,
           \A p \in Paths : p # file => file_to_sizes'[p] = file_to_sizes[p],
           file_to_master' = file_to_master,
           Mapped(file, Below(SizeOf(file)))'
    PROVE  SizeInv'
  <2> USE <1>SizeReturn
  <2>1. \A u \in Threads : u # t => pc'[u] = pc[u] /\ req'[u] = req[u] /\ blk'[u] = blk[u]
    BY Parts, OthersUnchanged, Zenon DEF SameLocals
  <2>2. pc'[t] = "idle" /\ req'[t].path = NULL
    BY Parts, Zenon DEF Return, Goto, NoRequest, TypeOK
  <2>3. ASSUME NEW u \in Threads, u # t, pc[u] # "idle"
        PROVE  (Mapped(req[u].path, MappedSoFar(u)) /\ RequestFits(u))'
    <3>1. req[u].path \in Paths /\ req[u].path # req[t].path
      BY <2>3, <1>PathAtWork, Zenon DEF SizeInv
    <3>2. Mapped(req[u].path, MappedSoFar(u)) /\ RequestFits(u)
      BY <2>3, Zenon DEF SizeInv
    <3>3. /\ file_to_sizes'[req[u].path] = file_to_sizes[req[u].path]
          /\ \A b \in Blocks : file_to_master'[<<req[u].path, b>>] = file_to_master[<<req[u].path, b>>]
      BY <3>1, Zenon
    <3>. QED
      BY ONLY <2>1, <2>3, <3>2, <3>3, <1>StillMapped, Zenon
  <2>4. ASSUME NEW p \in Paths, \A u \in Threads : req'[u].path # p
        PROVE  Mapped(p, Below(SizeOf(p)))'
    <3>1. CASE p = req[t].path
      BY <3>1, Zenon
    <3>2. CASE p # req[t].path
      <4>1. Mapped(p, Below(SizeOf(p)))
        BY <2>1, <2>4, <3>2, Zenon DEF SizeInv
      <4>2. file_to_sizes'[p] = file_to_sizes[p] /\ file_to_master' = file_to_master
        BY <3>2, Zenon
      <4>. QED
        BY <4>1, <4>2, Zenon DEF Mapped, SizeOf, Below
    <3>. QED
      BY <3>1, <3>2, Zenon
  <2>5. ASSUME NEW u \in Threads, NEW v \in Threads, req'[u].path \in Paths, req'[u].path = req'[v].path
        PROVE  u = v
    <3>1. \A x, y \in Threads : req[x].path \in Paths /\ req[x].path = req[y].path => x = y
      BY Zenon DEF SizeInv
    <3>. QED
      BY <2>1, <2>2, <2>5, <3>1, NullAssumption, ZenonT(30)
  <2>. QED
    BY <2>1, <2>2, <2>3, <2>4, <2>5, ZenonT(60) DEF SizeInv
\* A step that leaves mappings and sizes alone, before or after they change.
<1>QuietSize. ASSUME TypeInv, SizeInv, NEW t \in Threads, Step(t),
           UNCHANGED <<file_to_master, file_to_sizes, req>>,
           \/ pc[t] \in QuietSteps /\ pc'[t] \in QuietSteps
           \/ pc[t] = "publish" /\ pc'[t] = "map" /\ blk'[t] = 1
           \/ pc[t] = "rmlock" /\ pc'[t] = "remove" /\ blk'[t] = 1
           \/ pc[t] = "rmunlock" /\ pc'[t] = "rmrelease"
           \/ pc[t] = "rmrelease" /\ pc'[t] = "setsize"
    PROVE  SizeInv'
  <2> USE <1>QuietSize
  <2>0. pc[t] # "idle" /\ pc'[t] # "idle" /\ req[t].start \in Nat
    BY LocalTypes, Parts, Zenon DEF QuietSteps
  <2>1. Mapped(req[t].path, MappedSoFar(t)) /\ RequestFits(t)
    BY <2>0, Zenon DEF SizeInv
  <2>2. MappedSoFar(t)' = MappedSoFar(t)
    <3>1. CASE pc[t] \in QuietSteps /\ pc'[t] \in QuietSteps
      BY <3>1, Zenon DEF MappedSoFar, QuietSteps, SizeOf, Below
    <3>2. CASE pc[t] = "publish" /\ pc'[t] = "map" /\ blk'[t] = 1
      <4>1. Done(t)' = {}
        <5>1. req'[t].start = req[t].start
          BY Zenon
        <5>. QED
          BY ONLY <2>0, <3>2, <5>1, BoundsAssumption DEF Done, Blocks
      <4>. QED
        BY <3>2, <4>1, Zenon DEF MappedSoFar, SizeOf, Below
    <3>3. CASE pc[t] = "rmlock" /\ pc'[t] = "remove" /\ blk'[t] = 1
      <4>1. Done(t)' = {}
        BY <2>0, <3>3, BoundsAssumption DEF Done, Blocks
      <4>. QED
        BY <3>3, <4>1, Zenon DEF MappedSoFar, SizeOf, Below
    <3>4. CASE \/ pc[t] = "rmunlock" /\ pc'[t] = "rmrelease"
               \/ pc[t] = "rmrelease" /\ pc'[t] = "setsize"
      BY <3>4, Zenon DEF MappedSoFar, SizeOf, Below
    <3>. QED
      BY <3>1, <3>2, <3>3, <3>4, Zenon
  <2>3. RequestFits(t)'
    BY <2>1, Zenon DEF RequestFits, QuietSteps, SizeOf, NewEnd, PlannedSteps, AllocatedSteps, RemoveSteps
  <2>4. Mapped(req[t].path, MappedSoFar(t))'
    BY <2>1, <2>2, Zenon DEF Mapped
  <2>. QED
    BY <2>0, <2>3, <2>4, <1>SizeStep, Zenon
\* A request arrives for a file that nobody changes.
<1>SizeArrive. ASSUME TypeInv, SizeInv, SerialPaths, NEW t \in Threads, Start(t), NEW r, NEW step, Arrive(t, r, step),
           r.path \in Paths, UNCHANGED <<file_to_master, file_to_sizes, blk>>,
           FitsFile(r, step)
    PROVE  SizeInv'
  <2> USE <1>SizeArrive
  <2>1. \A u \in Threads : u # t => pc'[u] = pc[u] /\ req'[u] = req[u] /\ blk'[u] = blk[u]
    BY Parts, OthersUnchanged, Zenon DEF SameLocals
  <2>2. pc'[t] = step /\ req'[t] = r /\ \A u \in Threads : req[u].path # r.path
    BY Parts, ZenonT(30) DEF Arrive, Goto, TypeOK
  <2>3. ASSUME NEW u \in Threads, u # t, pc[u] # "idle"
        PROVE  (Mapped(req[u].path, MappedSoFar(u)) /\ RequestFits(u))'
    <3>1. Mapped(req[u].path, MappedSoFar(u)) /\ RequestFits(u)
      BY <2>3, Zenon DEF SizeInv
    <3>. QED
      BY <2>1, <2>3, <3>1, <1>StillMapped, Zenon
  <2>4. Mapped(r.path, Below(SizeOf(r.path)))
    BY <2>2, Zenon DEF SizeInv
  <2>5. (Mapped(req[t].path, MappedSoFar(t)) /\ RequestFits(t))'
    <3>1. MappedSoFar(t)' = Below(SizeOf(r.path))
      BY <2>2, Zenon DEF MappedSoFar, SizeOf, Below, FitsFile
    <3>2. RequestFits(t)'
      BY <2>2, Zenon DEF RequestFits, SizeOf, NewEnd, PlannedSteps, AllocatedSteps, RemoveSteps, FitsFile
    <3>. QED
      BY <2>2, <2>4, <3>1, <3>2, Zenon DEF Mapped
  <2>6. ASSUME NEW p \in Paths, \A u \in Threads : req'[u].path # p
        PROVE  Mapped(p, Below(SizeOf(p)))'
    <3>1. \A u \in Threads : req[u].path # p
      BY <2>1, <2>2, <2>6, NullAssumption, ZenonT(60) DEF SizeInv, Arrive
    <3>. QED
      BY <3>1, Zenon DEF SizeInv, Mapped, SizeOf, Below
  <2>7. ASSUME NEW u \in Threads, NEW v \in Threads, req'[u].path \in Paths, req'[u].path = req'[v].path
        PROVE  u = v
    <3>1. \A x, y \in Threads : req[x].path \in Paths /\ req[x].path = req[y].path => x = y
      BY Zenon DEF SizeInv
    <3>. QED
      BY <2>1, <2>2, <2>7, <3>1, ZenonT(30)
  <2>8. \A u \in Threads : pc'[u] = "idle" => req'[u].path = NULL
    <3>1. step # "idle"
      BY Zenon DEF FitsFile
    <3>2. \A u \in Threads : pc[u] = "idle" => req[u].path = NULL
      BY Zenon DEF SizeInv
    <3>. QED
      BY <2>1, <2>2, <3>1, <3>2, Zenon
  <2>. QED
    BY <2>1, <2>2, <2>3, <2>5, <2>6, <2>7, <2>8, Zenon DEF SizeInv
\* Passe 3 maps one more block of its file.
<1>MapBlockSize. ASSUME TypeInv, SizeInv, NEW t \in Threads, MapBlock(t)
    PROVE  SizeInv'
  <2> USE <1>MapBlockSize
  <2>. DEFINE fb == FileBlock(t)
  <2>0. /\ pc[t] = "map" /\ NextBlock(t, "map", "p3unlock")
        /\ file_to_master' = [file_to_master EXCEPT ![fb] = plan[t][blk[t]].info]
        /\ file_to_sizes' = file_to_sizes /\ req' = req /\ Step(t)
    BY Zenon DEF MapBlock, request, Step
  <2>1. /\ req[t].start \in Nat /\ req[t].count \in Nat /\ blk[t] \in Nat /\ 0 < blk[t]
        /\ blk[t] <= req[t].count /\ req[t].start + req[t].count <= MaxBlocks /\ req[t].path \in Paths
    BY <2>0, LocalTypes, Parts, Zenon DEF RequestShape, LoopShape, LoopSteps
  <2>2. /\ fb \in Paths \X Blocks /\ plan[t][blk[t]].info # NULL
        /\ file_to_master \in [Paths \X Blocks -> InfoIds \cup {NULL}]
    BY <2>0, FileBlockType, LoopEntry, NullAssumption, Parts, ZenonT(30) DEF TypeOK
  <2>3. \/ blk[t] < req[t].count /\ blk'[t] = blk[t] + 1 /\ pc'[t] = "map"
        \/ blk[t] = req[t].count /\ blk'[t] = 1 /\ pc'[t] = "p3unlock"
    <3>1. "map" \in Steps /\ "p3unlock" \in Steps /\ TypeOK
      BY Parts, Zenon DEF Steps
    <3>2. \/ blk[t] < req[t].count /\ blk'[t] = blk[t] + 1 /\ pc'[t] = "map"
          \/ ~(blk[t] < req[t].count) /\ blk'[t] = 1 /\ pc'[t] = "p3unlock"
      BY <2>0, <3>1, LoopStep, Zenon
    <3>. QED
      BY <2>1, <3>2
  <2>4. Mapped(req[t].path, Below(SizeOf(req[t].path)) \cup Done(t)) /\ RequestFits(t)
    BY <2>0, Zenon DEF SizeInv, MappedSoFar
  <2>5. RequestFits(t)'
    BY <2>0, <2>3, <2>4, Zenon DEF RequestFits, SizeOf, NewEnd, PlannedSteps, AllocatedSteps, RemoveSteps
  <2>6. MappedSoFar(t)' = (Below(SizeOf(req[t].path)) \cup Done(t)) \cup {req[t].start + blk[t] - 1}
    <3>1. SizeOf(req[t].path)' = SizeOf(req[t].path)
      BY <2>0, Zenon DEF SizeOf
    <3>2. CASE blk[t] < req[t].count /\ blk'[t] = blk[t] + 1 /\ pc'[t] = "map"
      <4>1. Done(t)' = Done(t) \cup {req[t].start + blk[t] - 1}
        <5>1. req'[t].start = req[t].start
          BY <2>0, Zenon
        <5>. QED
          BY ONLY <2>1, <3>2, <5>1, BoundsAssumption DEF Done, Blocks
      <4>. QED
        BY <3>1, <3>2, <4>1, ZenonT(30) DEF MappedSoFar, Below
    <3>3. CASE blk[t] = req[t].count /\ blk'[t] = 1 /\ pc'[t] = "p3unlock"
      <4>1. Covered(t)' = Done(t) \cup {req[t].start + blk[t] - 1}
        BY <2>0, <2>1, <3>3, BoundsAssumption DEF Covered, Done, Blocks, NewEnd
      <4>. QED
        BY <3>1, <3>3, <4>1, ZenonT(30) DEF MappedSoFar, Below
    <3>. QED
      BY <2>3, <3>2, <3>3, Zenon
  <2>7. Mapped(req[t].path, MappedSoFar(t))'
    BY <2>0, <2>2, <2>4, <2>6, Zenon DEF Mapped, FileBlock
  <2>. QED
    BY <2>0, <2>2, <2>3, <2>5, <2>7, <1>SizeStep, Zenon DEF FileBlock
\* remove_blocks_dedup_batch unmaps one more block of its file.
<1>RmBlockSize. ASSUME TypeInv, SizeInv, NEW t \in Threads, RmBlock(t)
    PROVE  SizeInv'
  <2> USE <1>RmBlockSize
  <2>. DEFINE fb == FileBlock(t)
  <2>0. /\ pc[t] = "remove" /\ NextBlock(t, "remove", "rmunlock")
        /\ file_to_master' = [file_to_master EXCEPT ![fb] = NULL]
        /\ file_to_sizes' = file_to_sizes /\ req' = req /\ Step(t)
    BY Zenon DEF RmBlock, request, Step
  <2>1. /\ req[t].start \in Nat /\ req[t].count \in Nat /\ blk[t] \in Nat /\ 0 < blk[t]
        /\ blk[t] <= req[t].count /\ req[t].start + req[t].count <= MaxBlocks /\ req[t].path \in Paths
    BY <2>0, LocalTypes, Parts, Zenon DEF RequestShape, LoopShape, LoopSteps
  <2>2. fb \in Paths \X Blocks /\ file_to_master \in [Paths \X Blocks -> InfoIds \cup {NULL}]
    BY <2>0, FileBlockType, Parts, ZenonT(30) DEF TypeOK
  <2>3. \/ blk[t] < req[t].count /\ blk'[t] = blk[t] + 1 /\ pc'[t] = "remove"
        \/ blk[t] = req[t].count /\ blk'[t] = 1 /\ pc'[t] = "rmunlock"
    <3>1. "remove" \in Steps /\ "rmunlock" \in Steps /\ TypeOK
      BY Parts, Zenon DEF Steps
    <3>2. \/ blk[t] < req[t].count /\ blk'[t] = blk[t] + 1 /\ pc'[t] = "remove"
          \/ ~(blk[t] < req[t].count) /\ blk'[t] = 1 /\ pc'[t] = "rmunlock"
      BY <2>0, <3>1, LoopStep, Zenon
    <3>. QED
      BY <2>1, <3>2
  <2>4. /\ Mapped(req[t].path, Below(SizeOf(req[t].path)) \ Done(t))
        /\ RequestFits(t) /\ NewEnd(t) = SizeOf(req[t].path)
    <3>1. Mapped(req[t].path, MappedSoFar(t)) /\ RequestFits(t)
      BY <2>0, Zenon DEF SizeInv
    <3>. QED
      BY <2>0, <3>1, Zenon DEF MappedSoFar, RequestFits, RemoveSteps
  <2>5. RequestFits(t)'
    BY <2>0, <2>3, <2>4, Zenon DEF RequestFits, SizeOf, NewEnd, PlannedSteps, AllocatedSteps, RemoveSteps
  <2>6. MappedSoFar(t)' = (Below(SizeOf(req[t].path)) \ Done(t)) \ {req[t].start + blk[t] - 1}
    <3>1. SizeOf(req[t].path)' = SizeOf(req[t].path)
      BY <2>0, Zenon DEF SizeOf
    <3>2. CASE blk[t] < req[t].count /\ blk'[t] = blk[t] + 1 /\ pc'[t] = "remove"
      <4>1. Done(t)' = Done(t) \cup {req[t].start + blk[t] - 1}
        <5>1. req'[t].start = req[t].start
          BY <2>0, Zenon
        <5>. QED
          BY ONLY <2>1, <3>2, <5>1, BoundsAssumption DEF Done, Blocks
      <4>. QED
        BY <3>1, <3>2, <4>1, ZenonT(30) DEF MappedSoFar, Below
    <3>3. CASE blk[t] = req[t].count /\ blk'[t] = 1 /\ pc'[t] = "rmunlock"
      <4>1. Below(req[t].start) = (Below(NewEnd(t)) \ Done(t)) \ {req[t].start + blk[t] - 1}
        BY <2>0, <2>1, <3>3, BoundsAssumption DEF Below, Done, Blocks, NewEnd
      <4>. QED
        BY <2>0, <2>4, <3>3, <4>1, ZenonT(30) DEF MappedSoFar, Below
    <3>. QED
      BY <2>3, <3>2, <3>3, Zenon
  <2>7. Mapped(req[t].path, MappedSoFar(t))'
    BY <2>0, <2>2, <2>4, <2>6, Zenon DEF Mapped, FileBlock
  <2>. QED
    BY <2>0, <2>2, <2>3, <2>5, <2>7, <1>SizeStep, Zenon DEF FileBlock
\* The logical size follows the last block that was mapped.
<1>P3UnlockSize. ASSUME TypeInv, SizeInv, NEW t \in Threads, P3Unlock(t)
    PROVE  SizeInv'
  <2> USE <1>P3UnlockSize
  <2>0. /\ pc[t] = "p3unlock" /\ pc'[t] = "p3release" /\ req' = req /\ file_to_master' = file_to_master
        /\ file_to_sizes' = [file_to_sizes EXCEPT ![req[t].path] = Max({SizeOf(req[t].path), NewEnd(t)})]
        /\ Step(t)
    BY Parts, Zenon DEF P3Unlock, Goto, request, index, Step, TypeOK
  <2>1. /\ req[t].start \in Nat /\ req[t].count \in Nat /\ req[t].path \in Paths
        /\ req[t].start + req[t].count <= MaxBlocks
    BY <2>0, LocalTypes, Parts, Zenon DEF RequestShape
  <2>2. SizeOf(req[t].path) \in Nat /\ NewEnd(t) \in Nat
    <3>1. file_to_sizes[req[t].path] \in 0 .. MaxBlocks \cup {NULL}
      BY <2>1, Parts, Zenon DEF TypeOK
    <3>. QED
      BY <2>1, <3>1, BoundsAssumption DEF SizeOf, NewEnd
  <2>3. /\ Mapped(req[t].path, Below(SizeOf(req[t].path)) \cup Covered(t))
        /\ RequestFits(t) /\ req[t].start <= SizeOf(req[t].path)
    <3>1. Mapped(req[t].path, MappedSoFar(t)) /\ RequestFits(t)
      BY <2>0, Zenon DEF SizeInv
    <3>2. MappedSoFar(t) = Below(SizeOf(req[t].path)) \cup Covered(t)
      BY <2>0, Zenon DEF MappedSoFar
    <3>3. req[t].start <= SizeOf(req[t].path)
      BY <2>0, <3>1, Zenon DEF RequestFits, PlannedSteps, AllocatedSteps
    <3>. QED
      BY <3>1, <3>2, <3>3, Zenon
  <2>. DEFINE top == Max({SizeOf(req[t].path), NewEnd(t)})
  <2>m. /\ top \in {SizeOf(req[t].path), NewEnd(t)} /\ top \in Nat
        /\ SizeOf(req[t].path) <= top /\ NewEnd(t) <= top
    <3>1. SizeOf(req[t].path) \in Int /\ NewEnd(t) \in Int
      BY <2>2
    <3>2. /\ top \in {SizeOf(req[t].path), NewEnd(t)}
          /\ SizeOf(req[t].path) <= top /\ NewEnd(t) <= top
      BY <3>1, PairMinMax, Zenon
    <3>. QED
      BY ONLY <2>2, <3>2, Zenon
  <2>s. file_to_sizes' = [file_to_sizes EXCEPT ![req[t].path] = top]
    BY <2>0, Zenon
  <2>. HIDE DEF top
  <2>4. SizeOf(req[t].path)' = top
    <3>1. file_to_sizes'[req[t].path] = top
      BY <2>s, <2>1, Parts, ZenonT(30) DEF TypeOK
    <3>. QED
      BY <2>0, <2>m, <3>1, NullAssumption DEF SizeOf
  <2>5. MappedSoFar(t)' = Below(SizeOf(req[t].path)) \cup Covered(t)
    <3>1. MappedSoFar(t)' = Below(top)
      BY <2>0, <2>4, Zenon DEF MappedSoFar, Below
    <3>. QED
      BY ONLY <2>1, <2>2, <2>3, <2>m, <3>1, BoundsAssumption DEF Below, Covered, Blocks, NewEnd
  <2>6. Mapped(req[t].path, MappedSoFar(t))'
    BY <2>0, <2>3, <2>5, ZenonT(30) DEF Mapped
  <2>7. RequestFits(t)'
    <3>1. pc'[t] \notin RemoveSteps
      BY <2>0, Zenon DEF RemoveSteps
    <3>2. req[t].start <= top
      BY ONLY <2>1, <2>2, <2>3, <2>m
    <3>3. req'[t].start <= SizeOf(req[t].path)'
      BY <2>0, <2>4, <3>2, Zenon
    <3>. QED
      BY <2>0, <3>1, <3>3, Zenon DEF RequestFits
  <2>. QED
    BY <2>0, <2>s, <2>6, <2>7, <1>SizeStep, Parts, ZenonT(30) DEF TypeOK
\* The last section of unlink and truncate brings the size down to what is
\* left.
<1>SetSizeSize. ASSUME TypeInv, SizeInv, NEW t \in Threads, SetSize(t)
    PROVE  SizeInv'
  <2> USE <1>SetSizeSize
  <2>. DEFINE p == req[t].path
  <2>0. /\ pc[t] = "setsize" /\ Return(t) /\ file_to_master' = file_to_master /\ Step(t)
        /\ file_to_sizes' = [file_to_sizes EXCEPT ![p] =
                               IF req[t].op = "unlink" THEN NULL
                               ELSE IF file_to_sizes[p] # NULL /\ req[t].start < file_to_sizes[p]
                                    THEN req[t].start ELSE @]
    BY Zenon DEF SetSize, index, Step
  <2>1. p \in Paths /\ req[t].start \in Nat /\ req[t].count \in Nat /\ DOMAIN file_to_sizes = Paths
    BY <2>0, <1>PathAtWork, LocalTypes, Parts, Zenon DEF TypeOK
  <2>2. /\ Mapped(p, Below(req[t].start)) /\ req[t].start + req[t].count = SizeOf(p)
        /\ req[t].op = "unlink" => req[t].start = 0
        /\ req[t].op # "unlink" => file_to_sizes[p] # NULL /\ req[t].count > 0
    <3>1. Mapped(p, MappedSoFar(t)) /\ RequestFits(t)
      BY <2>0, ZenonT(30) DEF SizeInv
    <3>. QED
      BY <2>0, <3>1, Zenon DEF MappedSoFar, RequestFits, RemoveSteps, NewEnd
  <2>3. ASSUME NEW file \in Paths, file = p PROVE SizeOf(file)' = req[t].start
    <3>1. file_to_sizes'[file] = IF req[t].op = "unlink" THEN NULL
                                 ELSE IF file_to_sizes[p] # NULL /\ req[t].start < file_to_sizes[p]
                                      THEN req[t].start ELSE file_to_sizes[p]
      BY <2>0, <2>1, <2>3, Zenon
    <3>2. SizeOf(p) = (IF file_to_sizes[p] = NULL THEN 0 ELSE file_to_sizes[p])
      BY Zenon DEF SizeOf
    <3>n. req[t].start # NULL
      BY ONLY <2>1, NullAssumption
    <3>3. file_to_sizes'[file] = IF req[t].op = "unlink" THEN NULL ELSE req[t].start
      BY ONLY <2>1, <2>2, <3>1, <3>2
    <3>. QED
      BY <2>2, <3>n, <3>2, <3>3, Zenon DEF SizeOf
  <2>4. ASSUME NEW file \in Paths, file = p PROVE Mapped(file, Below(SizeOf(file)))'
    BY <2>0, <2>2, <2>3, <2>4, Zenon DEF Mapped, Below
  <2>. QED
    BY <2>0, <2>1, <2>4, <1>SizeReturn, Zenon
<1>StartSize. ASSUME TypeInv, SizeInv, SerialPaths, ~WithHoles, NEW t \in Threads, Start(t)
    PROVE  SizeInv'
  <2> USE <1>StartSize
  <2>0. UNCHANGED <<file_to_master, file_to_sizes, blk>>
    BY Zenon DEF Start, StartWrite, StartUnlink, StartTruncate, index
  <2>t. file_to_sizes \in [Paths -> 0 .. MaxBlocks \cup {NULL}]
    BY Parts, Zenon DEF TypeOK
  <2>1. CASE StartWrite(t)
    <3>. DEFINE r(p, s, d) == [op |-> "write", path |-> p, start |-> s, count |-> Len(d), buf |-> d]
    <3>1. PICK p \in Paths, s \in Blocks, d \in Payloads :
            s <= SizeOf(p) /\ Arrive(t, r(p, s, d), "p1lock")
      BY <2>1, Zenon DEF StartWrite
    <3>2. r(p, s, d).path = p /\ FitsFile(r(p, s, d), "p1lock")
      BY <3>1, Zenon DEF FitsFile
    <3>. HIDE DEF r
    <3>. QED
      BY <2>0, <3>1, <3>2, <1>SizeArrive, Zenon
  <2>2. CASE StartUnlink(t)
    <3>. DEFINE r(p) == [op |-> "unlink", path |-> p, start |-> 0, count |-> file_to_sizes[p], buf |-> <<>>]
                step(p) == IF file_to_sizes[p] > 0 THEN "rmlock" ELSE "setsize"
    <3>1. PICK p \in Paths : file_to_sizes[p] # NULL /\ Arrive(t, r(p), step(p))
      BY <2>2, Zenon DEF StartUnlink
    <3>2. SizeOf(p) = file_to_sizes[p] /\ SizeOf(p) \in Nat
      <4>1. file_to_sizes[p] \in 0 .. MaxBlocks
        BY <2>t, <3>1, Zenon
      <4>. QED
        BY <3>1, <4>1, BoundsAssumption DEF SizeOf
    <3>3. r(p).path = p /\ r(p).start = 0 /\ r(p).count = SizeOf(p) /\ r(p).op = "unlink"
      BY <3>2, Zenon
    <3>4. step(p) = "rmlock" \/ (step(p) = "setsize" /\ SizeOf(p) = 0)
      BY ONLY <3>2
    <3>. HIDE DEF r, step
    <3>5. r(p).start + r(p).count = SizeOf(p)
      BY <3>2, <3>3
    <3>6. FitsFile(r(p), step(p))
      BY <3>3, <3>4, <3>5, Zenon DEF FitsFile
    <3>. QED
      BY <2>0, <3>1, <3>3, <3>6, <1>SizeArrive, Zenon
  <2>3. CASE StartTruncate(t)
    <3>. DEFINE r(p, size) == [op |-> "truncate", path |-> p, start |-> size,
                               count |-> file_to_sizes[p] - size, buf |-> <<>>]
    <3>1. PICK p \in Paths, size \in Blocks :
            /\ file_to_sizes[p] # NULL /\ size < file_to_sizes[p]
            /\ Arrive(t, r(p, size), "rmlock")
      BY <2>3, Zenon DEF StartTruncate
    <3>2. SizeOf(p) = file_to_sizes[p] /\ SizeOf(p) \in Nat /\ size \in Nat
      <4>1. file_to_sizes[p] \in 0 .. MaxBlocks
        BY <2>t, <3>1, Zenon
      <4>. QED
        BY <3>1, <4>1, BoundsAssumption DEF SizeOf, Blocks
    <3>3. /\ r(p, size).path = p /\ r(p, size).start = size /\ r(p, size).count = SizeOf(p) - size
          /\ r(p, size).op = "truncate"
      BY <3>2, Zenon
    <3>. HIDE DEF r
    <3>4. r(p, size).start + r(p, size).count = SizeOf(p) /\ r(p, size).count > 0
      BY <3>1, <3>2, <3>3
    <3>5. FitsFile(r(p, size), "rmlock")
      BY <3>1, <3>3, <3>4, Zenon DEF FitsFile
    <3>. QED
      BY <2>0, <3>1, <3>3, <3>5, <1>SizeArrive, Zenon
  <2>. QED
    BY <2>1, <2>2, <2>3, Zenon DEF Start
\* Steps that do not touch the mappings or the sizes.
<1>QuietStepsSize. ASSUME TypeInv, SizeInv, NEW t \in Threads,
           \/ P1Lock(t) \/ P1Hit(t) \/ P1Take(t) \/ P1Miss(t) \/ P1Unlock(t)
           \/ Drain(t) \/ AppendSlots(t) \/ FlushRun(t) \/ FlushFail(t) \/ P3Lock(t) \/ PublishBlock(t)
           \/ RbLock(t) \/ RbHit(t) \/ RbUnlock(t) \/ RbRelease(t) \/ RmLock(t) \/ RmUnlock(t) \/ RmRelease(t)
    PROVE  SizeInv'
  <2> USE <1>QuietStepsSize
  <2>0. /\ DOMAIN pc = Threads /\ DOMAIN blk = Threads
        /\ pc[t] \in {"p3lock", "rmlock"} => blk[t] = 1
    BY Parts, Zenon DEF TypeOK, LoopShape, LoopSteps
  <2>1. UNCHANGED <<file_to_master, file_to_sizes, req>>
    BY Zenon DEF P1Lock, P1Hit, P1Take, P1Miss, P1Unlock, Drain, AppendSlots, FlushRun, FlushFail, P3Lock,
       PublishBlock, RbLock, RbHit, RbUnlock, RbRelease, RmLock, RmUnlock, RmRelease, index, request
  <2>2. Step(t)
    BY Zenon DEF Step
  <2>3. \/ pc[t] \in QuietSteps /\ pc'[t] \in QuietSteps
        \/ pc[t] = "publish" /\ pc'[t] = "map" /\ blk'[t] = 1
        \/ pc[t] = "rmlock" /\ pc'[t] = "remove" /\ blk'[t] = 1
        \/ pc[t] = "rmunlock" /\ pc'[t] = "rmrelease"
        \/ pc[t] = "rmrelease" /\ pc'[t] = "setsize"
    <3>. USE DEF Goto, QuietSteps
    <3>1. CASE P1Lock(t) \/ P1Hit(t) \/ P1Unlock(t) \/ Drain(t) \/ AppendSlots(t) \/ P3Lock(t)
      BY <2>0, <3>1, Zenon DEF P1Lock, P1Hit, P1Unlock, Drain, AppendSlots, P3Lock
    <3>2. CASE P1Take(t) \/ P1Miss(t)
      BY <2>0, <3>2, Zenon DEF P1Take, P1Miss, NextBlock
    <3>3. CASE FlushRun(t) \/ FlushFail(t)
      BY <2>0, <3>3, Zenon DEF FlushRun, FlushFail, AfterFailure
    <3>4. CASE PublishBlock(t)
      BY <2>0, <3>4, Zenon DEF PublishBlock, NextBlock
    <3>5. CASE RbLock(t) \/ RbUnlock(t) \/ RbRelease(t) \/ RmLock(t) \/ RmUnlock(t) \/ RmRelease(t)
      BY <2>0, <3>5, Zenon DEF RbLock, RbUnlock, RbRelease, RmLock, RmUnlock, RmRelease
    <3>6. CASE RbHit(t)
      BY <2>0, <3>6, Zenon DEF RbHit, NextBlock
    <3>. QED
      BY <3>1, <3>2, <3>3, <3>4, <3>5, <3>6, Zenon
  <2>. QED
    BY <2>1, <2>2, <2>3, <1>QuietSize, Zenon
<1>1. ASSUME NEW t \in Threads, Start(t) PROVE SizeInv'
  BY <1>1, <1>StartSize, Zenon
<1>2. ASSUME NEW t \in Threads, Step(t) PROVE SizeInv'
  <2>1. CASE P3Release(t) \/ RbMisses(t)
    <3>0. /\ pc[t] \in {"p3release", "rbmisses"} /\ Return(t) /\ file_to_master' = file_to_master
          /\ file_to_sizes' = file_to_sizes
      BY <2>1, Zenon DEF P3Release, RbMisses, index
    <3>1. Mapped(req[t].path, Below(SizeOf(req[t].path)))
      BY <3>0, Zenon DEF SizeInv, MappedSoFar
    <3>2. ASSUME NEW file \in Paths, file = req[t].path PROVE Mapped(file, Below(SizeOf(file)))'
      BY <3>0, <3>1, <3>2, ZenonT(30) DEF Mapped, Below, SizeOf
    <3>. QED
      BY <1>2, <3>0, <3>2, <1>SizeReturn, <1>PathAtWork, Zenon
  <2>. QED
    BY <1>2, <2>1, <1>QuietStepsSize, <1>MapBlockSize, <1>P3UnlockSize, <1>RmBlockSize, <1>SetSizeSize, Zenon DEF Step
<1>3. CASE UNCHANGED <<file_to_master, file_to_sizes, req, pc, blk>>
  <2>1. ASSUME NEW u \in Threads, pc[u] # "idle"
        PROVE  (Mapped(req[u].path, MappedSoFar(u)) /\ RequestFits(u))'
    <3>1. Mapped(req[u].path, MappedSoFar(u)) /\ RequestFits(u)
      BY <2>1, Zenon DEF SizeInv
    <3>. QED
      BY <1>3, <3>1, <1>StillMapped, Zenon
  <2>2. ASSUME NEW p \in Paths, \A u \in Threads : req[u].path # p
        PROVE  Mapped(p, Below(SizeOf(p)))'
    <3>1. Mapped(p, Below(SizeOf(p)))
      BY <2>2, Zenon DEF SizeInv
    <3>. QED
      BY <1>3, <3>1, Zenon DEF Mapped, Below, SizeOf
  <2>. QED
    BY <1>3, <2>1, <2>2, ZenonT(30) DEF SizeInv
<1>. QED
  BY <1>1, <1>2, <1>3, Zenon DEF Next, Remount, Wait, vars, index, request

-----------------------------------------------------------------------------
(* The types: the first state, and the steps together. *)

\* TypeInv holds at first, when every thread is idle.
LEMMA InitTypeInv == Init => TypeInv
<1>. SUFFICES ASSUME Init PROVE TypeInv
  OBVIOUS
<1>1. TypeOK
  BY BoundsAssumption DEF Init, TypeOK, Blocks, MasterInfo, Freed, Requests, NoRequest, Steps
<1>2. LockInv
  BY NullAssumption, SMTT(30) DEF Init, LockInv, RdSteps, WrSteps
<1>3. ASSUME NEW t \in Threads PROVE Shape(t)
  BY DEF Init, Shape, RequestShape, LoopShape, PlanShape, SlotShape, NoRequest, PlannedSteps,
         AllocatedSteps, LoopSteps, RemoveSteps, Misses
<1>. QED
  BY <1>1, <1>2, <1>3, Zenon DEF TypeInv

\* Every step of Next preserves the invariant: one case per action.
LEMMA NextTypeInv ==
  ASSUME MinMaxLaws, TypeInv, [Next]_vars
  PROVE  TypeInv'
<1>SeqUpdate.
    ASSUME NEW S, NEW s \in Seq(S), NEW i \in 1 .. Len(s), NEW e \in S
    PROVE  /\ [s EXCEPT ![i] = e] \in Seq(S)
           /\ Len([s EXCEPT ![i] = e]) = Len(s)
           /\ \A j \in 1 .. Len(s) : [s EXCEPT ![i] = e][j] = IF j = i THEN e ELSE s[j]
    BY <1>SeqUpdate
\* A thread whose locals do not change keeps their shape.
<1>OtherShape.
    ASSUME NEW u \in Threads, Shape(u), SameLocals(u)
    PROVE  Shape(u)'
    BY <1>OtherShape DEF Shape, RequestShape, LoopShape, PlanShape, SlotShape, Misses, Unflushed, SameLocals
\* A step between steps that hold the same locks keeps the lock discipline.
<1>SameLocks.
    ASSUME TypeOK, LockInv, NEW t \in Threads, rdlock' = rdlock, wrlock' = wrlock,
           \A u \in Threads \ {t} : pc'[u] = pc[u],
           pc[t] \in RdSteps <=> pc'[t] \in RdSteps, pc[t] \in WrSteps <=> pc'[t] \in WrSteps
    PROVE  LockInv'
    BY <1>SameLocks DEF LockInv
\* What the two steps have in common.
<1>StraightClasses.
    ASSUME NEW src, NEW dst, <<src, dst>> \in StraightSteps
    PROVE  /\ src \in Steps /\ dst \in Steps /\ src # "idle" /\ dst # "idle"
           /\ dst \notin {"p1lock", "p1take", "map"}
           /\ dst \in PlannedSteps => src \in PlannedSteps
           /\ dst \in PlannedSteps \cup {"p1lock", "p1", "p1take"} => src \in PlannedSteps \cup {"p1lock"}
           /\ dst \in {"rmlock", "remove"} => src = "rmlock"
           /\ dst \in LoopSteps => src \in PlannedSteps \cup {"p1lock", "rmlock"}
           /\ dst \in RemoveSteps => src \in RemoveSteps
           /\ dst = "p1" => src = "p1lock"
           /\ dst \in {"append", "flush"} => src \in {"drain", "append", "flush"}
           /\ src \notin {"p1unlock", "drain", "append"} =>
                /\ src \in AllocatedSteps <=> dst \in AllocatedSteps
                /\ dst \notin {"append", "flush"} /\ src # "append"
  <2> USE <1>StraightClasses
  <2>1. src \in Steps /\ dst \in Steps /\ src # "idle" /\ dst # "idle"
    BY DEF StraightSteps, Steps
  <2>. QED
    BY <2>1 DEF StraightSteps, PlannedSteps, AllocatedSteps, LoopSteps, RemoveSteps
<1>StraightShape.
    ASSUME TypeInv, NEW t \in Threads, <<pc[t], pc'[t]>> \in StraightSteps, blk'[t] = 1,
           req'[t] = req[t], plan'[t] = plan[t], miss_count'[t] = miss_count[t],
           pc'[t] = "drain" => miss_count[t] > 0
    PROVE  /\ RequestShape(t)' /\ LoopShape(t)' /\ PlanShape(t)'
           /\ out'[t] = out[t] /\ pc[t] \notin {"p1unlock", "drain", "append"} => Shape(t)'
  <2> USE <1>StraightShape
  <2>. DEFINE src == pc[t]
              dst == pc'[t]
  <2>1. /\ dst # "idle" /\ src # "idle" /\ dst \notin {"p1lock", "p1take", "map"}
        /\ dst \in PlannedSteps => src \in PlannedSteps
        /\ dst \in PlannedSteps \cup {"p1lock", "p1", "p1take"} => src \in PlannedSteps \cup {"p1lock"}
        /\ dst \in {"rmlock", "remove"} => src = "rmlock"
        /\ dst \in LoopSteps => src \in PlannedSteps \cup {"p1lock", "rmlock"}
        /\ dst \in RemoveSteps => src \in RemoveSteps
        /\ dst = "p1" => src = "p1lock"
        /\ dst \in {"append", "flush"} => src \in {"drain", "append", "flush"}
    BY <1>StraightClasses
  <2>2. /\ TypeOK /\ RequestShape(t) /\ PlanShape(t) /\ SlotShape(t) /\ req[t].count \in Nat
    BY Parts, LocalTypes
  <2>3. RequestShape(t)'
    BY <2>1, <2>2 DEF RequestShape
  <2>4. LoopShape(t)'
    BY <2>1, <2>2 DEF RequestShape, LoopShape
  <2>5. PlanShape(t)'
    <3>1. Misses(t)' = Misses(t)
      BY DEF Misses
    <3>. QED
      BY <2>1, <2>2, <3>1 DEF PlanShape
  <2>6. out'[t] = out[t] /\ pc[t] \notin {"p1unlock", "drain", "append"} => SlotShape(t)'
    <3>1. pc[t] \notin {"p1unlock", "drain", "append"} =>
            /\ src \in AllocatedSteps <=> dst \in AllocatedSteps
            /\ dst \notin {"append", "flush"} /\ src # "append"
      BY <1>StraightClasses
    <3>. QED
      BY <2>2, <3>1 DEF SlotShape
  <2>. QED
    BY <2>3, <2>4, <2>5, <2>6 DEF Shape
\* A step of a loop that leaves the plan its length, its MISSes and their
\* ranks keeps the shape of the locals.
<1>LoopKeepsShape.
    ASSUME TypeInv, NEW t \in Threads, NEW src, NEW after,
           <<src, after>> \in {<<"publish", "map">>, <<"map", "p3unlock">>,
                               <<"rbhits", "rbunlock">>, <<"remove", "rmunlock">>},
           pc[t] = src, NextBlock(t, src, after), req'[t] = req[t], out'[t] = out[t],
           miss_count'[t] = miss_count[t], Len(plan'[t]) = Len(plan[t]),
           plan[t] = <<>> => plan'[t] = <<>>, Misses(t)' = Misses(t),
           \A j \in Misses(t) : plan'[t][j].rank = plan[t][j].rank
    PROVE  Shape(t)'
  <2> USE <1>LoopKeepsShape
  <2>1. /\ src \in LoopSteps /\ src \in Steps /\ after \in Steps /\ after \notin {"p1", "p1take"}
        /\ src \notin {"idle", "p1", "p1take", "p1lock", "drain", "append", "flush"}
        /\ after \notin {"idle", "p1lock", "rmlock", "remove", "drain", "append", "flush"}
        /\ \/ /\ src \in AllocatedSteps \cap PlannedSteps /\ src \notin RemoveSteps
              /\ after \in AllocatedSteps \cap PlannedSteps /\ after \notin RemoveSteps
           \/ /\ src = "remove" /\ src \in RemoveSteps /\ src \notin AllocatedSteps \cup PlannedSteps
              /\ after \in RemoveSteps /\ after \notin LoopSteps \cup AllocatedSteps \cup PlannedSteps
    BY DEF LoopSteps, Steps, AllocatedSteps, PlannedSteps, RemoveSteps
  <2>2. TypeOK /\ RequestShape(t) /\ LoopShape(t) /\ PlanShape(t) /\ SlotShape(t)
    BY Parts
  <2>3. blk[t] \in Nat /\ req[t].count \in Nat /\ blk[t] > 0 /\ blk[t] <= req[t].count
    BY <2>1, <2>2, LocalTypes DEF LoopShape
  <2>4. \/ blk[t] < req[t].count /\ blk'[t] = blk[t] + 1 /\ pc'[t] = src
        \/ blk'[t] = 1 /\ pc'[t] = after
    BY <2>1, <2>2, LoopStep, ZenonT(30)
  <2>5. RequestShape(t)'
    BY <2>1, <2>2, <2>4, ZenonT(30) DEF RequestShape
  <2>6. LoopShape(t)'
    BY <2>1, <2>3, <2>4, SMTT(30) DEF LoopShape
  <2>7. PlanShape(t)'
    BY <2>1, <2>2, <2>4, SMTT(30) DEF PlanShape
  <2>8. SlotShape(t)'
    BY <2>1, <2>2, <2>4, SMTT(30) DEF SlotShape
  <2>. QED
    BY <2>5, <2>6, <2>7, <2>8 DEF Shape
\* Dropping a reference keeps the types.
<1>DropTypes.
    ASSUME TypeOK, NEW t \in Threads, NEW m \in InfoIds, DropReference(t, m)
    PROVE  /\ rel' \in [Threads -> Seq(Nat)] /\ info' \in [InfoIds -> MasterInfo]
           /\ hash_to_master' \in [Hashes -> InfoIds \cup {NULL}]
  <2> USE <1>DropTypes
  <2>1. rel \in [Threads -> Seq(Nat)] /\ info \in [InfoIds -> MasterInfo]
        /\ hash_to_master \in [Hashes -> InfoIds \cup {NULL}]
    BY SMTT(30) DEF TypeOK
  <2>2. <<info[m].masterBlockIndex>> \o rel[t] \in Seq(Nat)
    <3>1. <<info[m].masterBlockIndex>> \in Seq(Nat) /\ rel[t] \in Seq(Nat)
      <4>1. info[m].masterBlockIndex \in Nat
        BY InfoTypes, Zenon
      <4>. QED
        BY <2>1, <4>1
    <3>. QED
      BY <3>1, SeqConcat
  <2>3. CASE info[m].refcount = 1
    BY <2>1, <2>2, <2>3, InfoTypes, Zenon DEF DropReference
  <2>4. CASE info[m].refcount # 1
    BY <2>1, <2>4, InfoTypes, Zenon DEF DropReference
  <2>. QED
    BY <2>3, <2>4
\* Releasing the local list keeps the types.
<1>ReleaseTypes.
    ASSUME TypeOK, NEW t \in Threads, ReleaseSlots(t)
    PROVE  free_block_list' \in Seq(Nat) /\ rel' \in [Threads -> Seq(Nat)]
  <2> USE <1>ReleaseTypes
  <2>1. free_block_list \in Seq(Nat) /\ rel[t] \in Seq(Nat) /\ rel \in [Threads -> Seq(Nat)]
    BY DEF TypeOK
  <2>. QED
    BY <2>1, SeqConcat DEF ReleaseSlots
\* A thread that returned has no request and no plan.
<1>ReturnShape.
    ASSUME TypeInv, NEW t \in Threads, Return(t), pc[t] \notin RdSteps \cup WrSteps
    PROVE  /\ pc' \in [Threads -> Steps] /\ req' \in [Threads -> Requests] /\ blk' \in [Threads -> Nat]
           /\ plan' \in [Threads -> Seq(PlanEntry)] /\ miss_count' \in [Threads -> Nat]
           /\ out' \in [Threads -> Seq(Nat)]
           /\ Shape(t)'
           /\ rdlock' = rdlock /\ wrlock' = wrlock => LockInv'
  <2> USE <1>ReturnShape
  <2>1. /\ pc \in [Threads -> Steps] /\ req \in [Threads -> Requests] /\ blk \in [Threads -> Nat]
        /\ plan \in [Threads -> Seq(PlanEntry)] /\ miss_count \in [Threads -> Nat]
        /\ out \in [Threads -> Seq(Nat)] /\ NoRequest \in Requests
    <3>1. NoRequest \in Requests
      BY DEF NoRequest, Requests
    <3>. QED
      BY <3>1, Parts, ZenonT(30) DEF TypeOK
  <2>2. /\ pc' \in [Threads -> Steps] /\ req' \in [Threads -> Requests] /\ blk' \in [Threads -> Nat]
        /\ plan' \in [Threads -> Seq(PlanEntry)] /\ miss_count' \in [Threads -> Nat]
        /\ out' \in [Threads -> Seq(Nat)]
        /\ pc'[t] = "idle" /\ blk'[t] = 1 /\ plan'[t] = <<>> /\ miss_count'[t] = 0 /\ out'[t] = <<>>
        /\ \A u \in Threads \ {t} : pc'[u] = pc[u]
    BY <2>1, StepNames DEF Return, Goto
  <2>3. Shape(t)'
    <3>1. "idle" \notin PlannedSteps \cup AllocatedSteps \cup LoopSteps
      BY DEF PlannedSteps, AllocatedSteps, LoopSteps
    <3>2. RequestShape(t)' /\ LoopShape(t)' /\ SlotShape(t)'
      BY <2>2, <3>1 DEF RequestShape, LoopShape, SlotShape
    <3>3. PlanShape(t)'
      BY <2>2, <3>1 DEF PlanShape, Misses
    <3>. QED
      BY <3>2, <3>3 DEF Shape
  <2>4. rdlock' = rdlock /\ wrlock' = wrlock => LockInv'
    BY <2>2, Parts, <1>SameLocks, Zenon DEF RdSteps, WrSteps
  <2>. QED
    BY <2>2, <2>3, <2>4
\* The lookups of Passe 1 find a MasterInfo or nothing.
<1>ExistingType.
    ASSUME TypeInv, NEW t \in Threads, NEW h \in Hashes
    PROVE  Existing(t, h) \in InfoIds \cup {NULL}
  <2> USE <1>ExistingType
  <2>. DEFINE pending == {j \in Misses(t) : info[plan[t][j].info].hash = h}
  <2>1. hash_to_master[h] \in InfoIds \cup {NULL}
    BY Parts, Zenon DEF TypeOK
  <2>2. \A j \in pending : plan[t][j].info \in InfoIds
    BY Parts, PlanTypes, Zenon DEF Misses
  <2>3. pending # {} => (CHOOSE j \in pending : TRUE) \in pending
    BY Zenon
  <2>. QED
    BY <2>1, <2>2, <2>3, Zenon DEF Existing
\* An entry appended by the loop of Passe 1 keeps the shape of the plan.
<1>PlannedBlock.
    ASSUME TypeInv, NEW t \in Threads, pc[t] = "p1",
           \/ pc'[t] = "p1take" /\ blk'[t] = blk[t]
           \/ pc'[t] = "p1" /\ blk[t] < req[t].count /\ blk'[t] = blk[t] + 1
           \/ pc'[t] = "p1unlock" /\ ~(blk[t] < req[t].count) /\ blk'[t] = 1,
           NEW e \in PlanEntry, plan'[t] = Append(plan[t], e),
           req'[t] = req[t], out'[t] = out[t],
           \/ e.kind = "HIT" /\ miss_count'[t] = miss_count[t]
           \/ e.kind = "MISS" /\ miss_count'[t] = miss_count[t] + 1 /\ e.rank = miss_count[t] + 1
    PROVE  Shape(t)'
  <2> USE <1>PlannedBlock
  <2>1. /\ pc'[t] \in {"p1", "p1take", "p1unlock"} /\ blk'[t] \in Nat
        /\ pc'[t] = "p1" => blk[t] < req[t].count /\ blk'[t] = blk[t] + 1
        /\ pc'[t] = "p1take" => blk'[t] = blk[t]
        /\ pc'[t] = "p1unlock" => ~(blk[t] < req[t].count) /\ blk'[t] = 1
    <3>1. \/ pc'[t] = "p1take" /\ blk'[t] = blk[t]
          \/ pc'[t] = "p1" /\ blk[t] < req[t].count /\ blk'[t] = blk[t] + 1
          \/ pc'[t] = "p1unlock" /\ ~(blk[t] < req[t].count) /\ blk'[t] = 1
      BY Zenon
    <3>2. blk[t] \in Nat
      BY Parts, LocalTypes, Zenon
    <3>. QED
      BY ONLY <3>1, <3>2
  <2>2. /\ plan[t] \in Seq(PlanEntry) /\ Len(plan'[t]) = Len(plan[t]) + 1
        /\ DOMAIN plan[t] = 1 .. Len(plan[t]) /\ DOMAIN plan'[t] = 1 .. Len(plan[t]) + 1
        /\ \A j \in 1 .. Len(plan[t]) : plan'[t][j] = plan[t][j]
        /\ plan'[t][Len(plan[t]) + 1] = e
    <3>1. plan[t] \in Seq(PlanEntry) /\ e \in PlanEntry /\ plan'[t] = Append(plan[t], e)
      BY Parts, LocalTypes, Zenon
    <3>. QED
      BY ONLY <3>1
  <2>3. RequestShape(t)' /\ LoopShape(t)'
    <3>1. /\ pc[t] = "p1" /\ req'[t] = req[t] /\ RequestShape(t) /\ LoopShape(t)
          /\ blk[t] \in Nat /\ req[t].count \in Nat
      BY Parts, LocalTypes, Zenon
    <3>2. RequestShape(t)'
      BY <2>1, <3>1, ZenonT(30) DEF RequestShape, PlannedSteps, AllocatedSteps
    <3>. QED
      BY ONLY <2>1, <3>1, <3>2 DEF LoopShape, LoopSteps
  <2>4. PlanShape(t)'
    <3>1. ASSUME NEW j \in Misses(t)' PROVE plan'[t][j].rank \in 1 .. miss_count'[t]
      <4>1. miss_count[t] \in Nat /\ \A i \in Misses(t) : plan[t][i].rank \in 1 .. miss_count[t]
        BY Parts, LocalTypes, Zenon DEF PlanShape
      <4>2. \/ j \in Misses(t) /\ plan'[t][j] = plan[t][j]
            \/ plan'[t][j] = e /\ e.kind = "MISS"
        <5>1. j \in DOMAIN plan'[t] /\ plan'[t][j].kind = "MISS"
          BY <3>1, Zenon DEF Misses
        <5>2. j \in DOMAIN plan[t] \/ j = Len(plan[t]) + 1
          BY ONLY <2>2, <5>1
        <5>. QED
          BY <2>2, <5>1, <5>2, Zenon DEF Misses
      <4>3. miss_count'[t] \in {miss_count[t], miss_count[t] + 1}
        OBVIOUS
      <4>4. CASE j \in Misses(t) /\ plan'[t][j] = plan[t][j]
        BY <4>1, <4>3, <4>4
      <4>5. CASE plan'[t][j] = e /\ e.kind = "MISS"
        BY <4>1, <4>5
      <4>. QED
        BY <4>2, <4>4, <4>5, Zenon
    <3>2. miss_count'[t] > 0 => Misses(t)' # {}
      <4>1. CASE e.kind = "MISS"
        <5>1. Len(plan[t]) + 1 \in Misses(t)'
          BY <2>2, <4>1, SMTT(90) DEF Misses
        <5>. QED
          BY <5>1, Zenon
      <4>2. CASE e.kind = "HIT"
        <5>1. miss_count'[t] = miss_count[t] /\ Misses(t) \subseteq Misses(t)'
          BY <2>2, <4>2, SMTT(90) DEF Misses
        <5>. QED
          BY <5>1, Parts, Zenon DEF PlanShape
      <4>. QED
        BY <4>1, <4>2, Zenon
    <3>3. /\ Len(plan[t]) = blk[t] - 1 /\ blk[t] <= req[t].count
          /\ blk[t] \in Nat /\ req[t].count \in Nat
      BY Parts, LocalTypes, Zenon DEF PlanShape, LoopShape, LoopSteps
    <3>4. Len(plan'[t]) = blk[t]
      BY <2>2, <3>3, SMTT(90)
    <3>5. /\ pc'[t] = "p1" => blk'[t] - 1 = blk[t]
          /\ pc'[t] = "p1take" => blk'[t] = blk[t]
          /\ pc'[t] = "p1unlock" => req'[t].count = blk[t]
      BY <2>1, <3>3
    <3>6. /\ pc'[t] \notin RemoveSteps \cup {"idle", "p1lock", "drain", "append", "flush"}
          /\ pc'[t] \in PlannedSteps => pc'[t] = "p1unlock"
      BY <2>1, Zenon DEF PlannedSteps, AllocatedSteps, RemoveSteps
    <3>. QED
      BY <3>1, <3>2, <3>4, <3>5, <3>6, Zenon DEF PlanShape
  <2>5. SlotShape(t)'
    BY <2>1, Parts, Zenon DEF SlotShape, AllocatedSteps
  <2>. QED
    BY <2>3, <2>4, <2>5, Zenon DEF Shape
\* What a pwrite leaves is a sequence of blocks.
<1>PWriteType.
    ASSUME NEW file \in Seq(Contents \cup {NULL}), NEW slot \in Nat, NEW data \in Seq(Contents)
    PROVE  PWrite(file, slot, data) \in Seq(Contents \cup {NULL})
  <2> USE <1>PWriteType
  <2>. DEFINE lens == {Len(file), slot + Len(data)}
  <2>1. Len(file) \in Int /\ slot + Len(data) \in Int /\ \A y \in lens : y \in Nat
    OBVIOUS
  <2>2. Max(lens) \in Nat
    BY <2>1, PairMinMax, Zenon
  <2>3. ASSUME NEW k \in 1 .. Max(lens), k \in slot + 1 .. slot + Len(data)
        PROVE  data[k - slot] \in Contents
    <3>1. k - slot \in 1 .. Len(data)
      BY <2>2, <2>3
    <3>. QED
      BY <3>1, SeqElement, Zenon
  <2>4. ASSUME NEW k \in 1 .. Max(lens), k <= Len(file)
        PROVE  file[k] \in Contents \cup {NULL}
    <3>1. k \in 1 .. Len(file)
      BY <2>2, <2>4, SMTT(90)
    <3>. QED
      BY <3>1, SeqElement, Zenon
  <2>. DEFINE at(k) == IF k \in slot + 1 .. slot + Len(data) THEN data[k - slot]
                       ELSE IF k <= Len(file) THEN file[k] ELSE NULL
  <2>5. \A k \in 1 .. Max(lens) : at(k) \in Contents \cup {NULL}
    BY <2>3, <2>4, Zenon
  <2>6. PWrite(file, slot, data) = [k \in 1 .. Max(lens) |-> at(k)]
    BY Zenon DEF PWrite
  <2>. HIDE DEF at, lens
  <2>. QED
    BY <2>2, <2>5, <2>6, SMTT(90)
\* Taking and giving back metadata_rwlock.
<1>LockStep.
    ASSUME TypeInv, NEW t \in Threads, NEW src, NEW dst, pc[t] = src, Goto(t, dst),
           \/ <<src, dst>> = <<"p1lock", "p1">> /\ RdLock(t)
           \/ <<src, dst>> \in {<<"p3lock", "publish">>, <<"rblock", "rbhits">>, <<"rmlock", "remove">>}
              /\ WrLock(t)
           \/ <<src, dst>> \in {<<"p3unlock", "p3release">>, <<"rbunlock", "rbrelease">>,
                                <<"rmunlock", "rmrelease">>}
              /\ WrUnlock(t),
           UNCHANGED <<req, blk, plan, miss_count, out>>
    PROVE  /\ pc' \in [Threads -> Steps]
           /\ rdlock' \subseteq Threads \cup Readers /\ wrlock' \in Threads \cup {NULL}
           /\ LockInv' /\ Shape(t)'
  <2> USE <1>LockStep
  <2>1. /\ TypeOK /\ LockInv /\ LoopShape(t) /\ <<src, dst>> \in StraightSteps
        /\ src \notin LoopSteps \cup {"flush", "p1unlock", "drain", "append"} /\ dst # "drain"
        /\ \/ src \notin RdSteps \cup WrSteps /\ dst \in RdSteps /\ dst \notin WrSteps /\ RdLock(t)
           \/ src \notin RdSteps \cup WrSteps /\ dst \in WrSteps /\ dst \notin RdSteps /\ WrLock(t)
           \/ src \in WrSteps /\ src \notin RdSteps /\ dst \notin RdSteps \cup WrSteps /\ WrUnlock(t)
    BY Parts, Zenon DEF StraightSteps, LoopSteps, RdSteps, WrSteps
  <2>2. dst \in Steps
    BY <2>1, <1>StraightClasses, Zenon
  <2>3. pc' \in [Threads -> Steps] /\ pc'[t] = dst /\ \A u \in Threads \ {t} : pc'[u] = pc[u]
    BY <2>1, <2>2, Zenon DEF Goto, TypeOK
  <2>4. rdlock' \subseteq Threads \cup Readers /\ wrlock' \in Threads \cup {NULL}
    BY <2>1, Zenon DEF TypeOK, RdLock, WrLock, WrUnlock
  <2>5. LockInv'
    BY <2>1, <2>3, NullAssumption, Zenon DEF LockInv, RdLock, WrLock, WrUnlock
  <2>6. Shape(t)'
    BY <2>1, <2>3, <1>StraightShape, Zenon DEF LoopShape
  <2>. QED
    BY <2>3, <2>4, <2>5, <2>6, Zenon
\* A loop that drops references: the overwrites of Passe 3, the HITs of a
\* rollback, a removal.
<1>DropLoop.
    ASSUME TypeInv, NEW t \in Threads, NEW src, NEW after,
           <<src, after>> \in {<<"map", "p3unlock">>, <<"rbhits", "rbunlock">>, <<"remove", "rmunlock">>},
           pc[t] = src, NextBlock(t, src, after),
           (\E m \in InfoIds : DropReference(t, m)) \/ UNCHANGED <<rel, hash_to_master, info>>,
           file_to_master' \in [Paths \X Blocks -> InfoIds \cup {NULL}],
           UNCHANGED <<file_to_sizes, free_block_list, nextBlockIndex, masterFILE,
                       rdlock, wrlock, req, arrived, plan, miss_count, out>>
    PROVE  TypeOK' /\ LockInv' /\ Shape(t)'
  <2> USE <1>DropLoop
  <2>1. /\ TypeOK /\ LockInv /\ src \in Steps /\ after \in Steps
        /\ <<src, after>> \in {<<"publish", "map">>, <<"map", "p3unlock">>,
                               <<"rbhits", "rbunlock">>, <<"remove", "rmunlock">>}
        /\ src \in WrSteps /\ after \in WrSteps /\ src \notin RdSteps /\ after \notin RdSteps
    BY Parts, StepNames, Zenon DEF RdSteps, WrSteps
  <2>2. /\ pc' \in [Threads -> Steps] /\ blk' \in [Threads -> Nat] /\ pc'[t] \in {src, after}
        /\ \A u \in Threads \ {t} : pc'[u] = pc[u]
    BY <2>1, LoopStep, Zenon
  <2>3. /\ rel' \in [Threads -> Seq(Nat)] /\ info' \in [InfoIds -> MasterInfo]
        /\ hash_to_master' \in [Hashes -> InfoIds \cup {NULL}]
    <3>1. CASE \E m \in InfoIds : DropReference(t, m)
      BY <2>1, <3>1, <1>DropTypes, Zenon
    <3>2. CASE UNCHANGED <<rel, hash_to_master, info>>
      BY <2>1, <3>2, Zenon DEF TypeOK
    <3>. QED
      BY <3>1, <3>2, Zenon
  <2>4. TypeOK'
    BY <2>1, <2>2, <2>3, Zenon DEF TypeOK
  <2>5. LockInv'
    BY <2>1, <2>2, <1>SameLocks, ZenonT(30)
  <2>6. Shape(t)'
    <3>1. Misses(t)' = Misses(t)
      BY Zenon DEF Misses
    <3>. QED
      BY <2>1, <3>1, <1>LoopKeepsShape, SMTT(60)
  <2>. QED
    BY <2>4, <2>5, <2>6, Zenon
\* A request within the file finds its thread in a good shape.
<1>ArriveTypeInv.
    ASSUME TypeInv, NEW t \in Threads, NEW r \in Requests, NEW step, Arrive(t, r, step),
           r.path \in Paths, r.start + r.count <= MaxBlocks,
           \/ step = "p1lock" /\ r.count = Len(r.buf) /\ r.count > 0
           \/ step = "rmlock" /\ r.count > 0
           \/ step = "setsize",
           UNCHANGED <<index, file_to_sizes, store, lock, blk, plan, miss_count, out, rel>>
    PROVE  TypeOK' /\ LockInv' /\ Shape(t)'
  <2> USE <1>ArriveTypeInv
  <2>t. TypeOK /\ LockInv /\ RequestShape(t) /\ LoopShape(t) /\ PlanShape(t) /\ SlotShape(t)
    BY Parts, Zenon
  <2>a. /\ pc[t] = "idle" /\ pc' = [pc EXCEPT ![t] = step] /\ req' = [req EXCEPT ![t] = r]
        /\ arrived < MaxRequests /\ arrived' = arrived + 1
        /\ UNCHANGED <<hash_to_master, file_to_master, info, file_to_sizes, free_block_list,
                       nextBlockIndex, masterFILE, rdlock, wrlock, blk, plan, miss_count, out, rel>>
    BY Zenon DEF Arrive, Goto, index, store, lock
  <2>b. /\ pc' \in [Threads -> Steps] /\ pc'[t] = step /\ req' \in [Threads -> Requests] /\ req'[t] = r
        /\ \A u \in Threads \ {t} : pc'[u] = pc[u] /\ req'[u] = req[u]
    BY <2>t, <2>a, Zenon DEF TypeOK, Steps
  <2>c. arrived' \in 0 .. MaxRequests
    BY <2>t, <2>a, BoundsAssumption, SMTT(90) DEF TypeOK
  <2>1. TypeOK'
    BY <2>t, <2>a, <2>b, <2>c, Zenon DEF TypeOK
  <2>2. LockInv'
    BY <2>t, <2>a, <2>b, <1>SameLocks, Zenon DEF RdSteps, WrSteps
  <2>4. Shape(t)'
    <3>1. /\ step \notin PlannedSteps \cup AllocatedSteps
          /\ step \notin {"idle", "p1", "p1take", "drain", "append", "flush"}
          /\ step \in {"p1lock", "rmlock", "setsize"} /\ step \in RemoveSteps \cup {"idle", "p1lock"}
      BY Zenon DEF PlannedSteps, AllocatedSteps, RemoveSteps
    <3>2. /\ blk'[t] = 1 /\ plan'[t] = <<>> /\ miss_count'[t] = 0 /\ out'[t] = <<>>
      BY <2>t, <2>a, Zenon DEF LoopShape, PlanShape, SlotShape, LoopSteps, AllocatedSteps
    <3>3. RequestShape(t)'
      BY <2>b, <3>1, ZenonT(30) DEF RequestShape
    <3>4. LoopShape(t)'
      BY ONLY <2>b, <3>1, <3>2 DEF LoopShape, LoopSteps
    <3>5. PlanShape(t)'
      BY ONLY <2>b, <3>1, <3>2 DEF PlanShape, Misses
    <3>6. SlotShape(t)'
      BY ONLY <2>b, <3>1, <3>2 DEF SlotShape
    <3>. QED
      BY <3>3, <3>4, <3>5, <3>6, Zenon DEF Shape
  <2>. QED
    BY <2>1, <2>2, <2>4, Zenon
<1>P1HitTypeInv. ASSUME TypeInv, NEW t \in Threads, P1Hit(t)
    PROVE  TypeOK' /\ LockInv' /\ Shape(t)'
  <2> USE <1>P1HitTypeInv
  <2>t. TypeOK /\ LockInv /\ RequestShape(t) /\ LoopShape(t) /\ PlanShape(t) /\ SlotShape(t)
    BY Parts, Zenon
  <2>m. PICK m \in InfoIds : m = Existing(t, BlockHash(t))
    BY BlockHashType, <1>ExistingType, Zenon DEF P1Hit
  <2>a. /\ pc[t] = "p1" /\ pc' = [pc EXCEPT ![t] = "p1take"]
        /\ plan' = [plan EXCEPT ![t] = Append(@, [kind |-> "HIT", info |-> m, rank |-> 0])]
        /\ UNCHANGED <<hash_to_master, file_to_master, info, file_to_sizes, free_block_list, nextBlockIndex,
                       masterFILE, rdlock, wrlock, req, arrived, blk, miss_count, out, rel>>
    BY <2>m, Zenon DEF P1Hit, Goto, index, store, lock, request
  <2>. DEFINE e == [kind |-> "HIT", info |-> m, rank |-> 0]
  <2>b. e \in PlanEntry
    BY Zenon DEF PlanEntry
  <2>c. /\ pc' \in [Threads -> Steps] /\ plan' \in [Threads -> Seq(PlanEntry)]
        /\ \A u \in Threads \ {t} : pc'[u] = pc[u] /\ plan'[u] = plan[u]
        /\ pc'[t] = "p1take" /\ plan'[t] = Append(plan[t], e)
    <3>1. pc \in [Threads -> Steps] /\ plan \in [Threads -> Seq(PlanEntry)]
      BY <2>t, Zenon DEF TypeOK
    <3>. QED
      BY <2>a, <2>b, <3>1, StepNames
  <2>1. TypeOK'
    BY <2>t, <2>a, <2>c, Zenon DEF TypeOK
  <2>2. LockInv'
    BY <2>t, <2>a, <2>c, <1>SameLocks, Zenon DEF RdSteps, WrSteps
  <2>4. Shape(t)'
    BY <2>a, <2>b, <2>c, <1>PlannedBlock, Zenon
  <2>. QED
    BY <2>1, <2>2, <2>4, Zenon
<1>P1TakeTypeInv. ASSUME TypeInv, NEW t \in Threads, P1Take(t)
    PROVE  TypeOK' /\ LockInv' /\ Shape(t)'
  <2> USE <1>P1TakeTypeInv
  <2>t. TypeOK /\ LockInv /\ RequestShape(t) /\ LoopShape(t) /\ PlanShape(t) /\ SlotShape(t)
    BY Parts, Zenon
  <2>m. PICK m \in InfoIds : m = plan[t][blk[t]].info
    BY LoopEntry, Zenon DEF P1Take
  <2>a. /\ pc[t] = "p1take" /\ NextBlock(t, "p1", "p1unlock")
        /\ info' = [info EXCEPT ![m].refcount = @ + 1]
        /\ UNCHANGED <<hash_to_master, file_to_master, file_to_sizes, free_block_list, nextBlockIndex,
                       masterFILE, rdlock, wrlock, req, arrived, plan, miss_count, out, rel>>
    BY <2>m, Zenon DEF P1Take, store, lock, request
  <2>b. info' \in [InfoIds -> MasterInfo]
    BY <2>t, <2>a, InfoTypes, Zenon
  <2>c. /\ pc' \in [Threads -> Steps] /\ blk' \in [Threads -> Nat]
        /\ \A u \in Threads \ {t} : pc'[u] = pc[u] /\ blk'[u] = blk[u]
        /\ \/ blk[t] < req[t].count /\ blk'[t] = blk[t] + 1 /\ pc'[t] = "p1"
           \/ ~(blk[t] < req[t].count) /\ blk'[t] = 1 /\ pc'[t] = "p1unlock"
    BY <2>t, <2>a, LoopStep, StepNames, Zenon
  <2>1. TypeOK'
    BY <2>t, <2>a, <2>b, <2>c, Zenon DEF TypeOK
  <2>2. LockInv'
    BY <2>t, <2>a, <2>c, <1>SameLocks, Zenon DEF RdSteps, WrSteps
  <2>4. Shape(t)'
    <3>0. /\ blk[t] \in Nat /\ req[t].count \in Nat
          /\ req' = req /\ plan' = plan /\ miss_count' = miss_count /\ out' = out
      BY <2>t, <2>a, LocalTypes, Zenon
    <3>1. RequestShape(t)' /\ LoopShape(t)'
      BY <2>t, <2>a, <2>c, <3>0, SMTT(90) DEF RequestShape, LoopShape, PlannedSteps, AllocatedSteps, LoopSteps
    <3>2. PlanShape(t)'
      BY <2>t, <2>a, <2>c, <3>0, SMTT(90) DEF LoopShape, PlanShape, LoopSteps, PlannedSteps, AllocatedSteps,
                              RemoveSteps, Misses
    <3>3. SlotShape(t)'
      BY <2>t, <2>a, <2>c, <3>0, Zenon DEF SlotShape, AllocatedSteps
    <3>. QED
      BY <3>1, <3>2, <3>3, Zenon DEF Shape
  <2>. QED
    BY <2>1, <2>2, <2>4, Zenon
<1>P1MissTypeInv. ASSUME TypeInv, NEW t \in Threads, P1Miss(t)
    PROVE  TypeOK' /\ LockInv' /\ Shape(t)'
  <2> USE <1>P1MissTypeInv
  <2>t. TypeOK /\ LockInv /\ RequestShape(t) /\ LoopShape(t) /\ PlanShape(t) /\ SlotShape(t)
    BY Parts, Zenon
  <2>m. PICK m \in InfoIds :
          /\ info' = [info EXCEPT ![m] = [hash |-> BlockHash(t), masterBlockIndex |-> 0, refcount |-> 1]]
          /\ plan' = [plan EXCEPT ![t] =
                        Append(@, [kind |-> "MISS", info |-> m, rank |-> miss_count[t] + 1])]
    BY Zenon DEF P1Miss
  <2>a. /\ pc[t] = "p1" /\ NextBlock(t, "p1", "p1unlock")
        /\ info' = [info EXCEPT ![m] = [hash |-> BlockHash(t), masterBlockIndex |-> 0, refcount |-> 1]]
        /\ plan' = [plan EXCEPT ![t] =
                      Append(@, [kind |-> "MISS", info |-> m, rank |-> miss_count[t] + 1])]
        /\ miss_count' = [miss_count EXCEPT ![t] = @ + 1]
        /\ UNCHANGED <<hash_to_master, file_to_master, file_to_sizes, free_block_list, nextBlockIndex,
                       masterFILE, rdlock, wrlock, req, arrived, out, rel>>
    BY <2>m, Zenon DEF P1Miss, store, lock, request
  <2>. DEFINE e == [kind |-> "MISS", info |-> m, rank |-> miss_count[t] + 1]
  <2>b. e \in PlanEntry
    BY <2>t, <2>a, LocalTypes, SMTT(90) DEF PlanEntry
  <2>c. /\ pc' \in [Threads -> Steps] /\ blk' \in [Threads -> Nat]
        /\ plan' \in [Threads -> Seq(PlanEntry)] /\ miss_count' \in [Threads -> Nat]
    <3>1. pc' \in [Threads -> Steps] /\ blk' \in [Threads -> Nat]
      BY <2>t, <2>a, LoopStep, StepNames, Zenon
    <3>2. plan \in [Threads -> Seq(PlanEntry)] /\ miss_count \in [Threads -> Nat]
      BY <2>t, Zenon DEF TypeOK
    <3>. QED
      BY <2>a, <2>b, <3>1, <3>2, SMTT(90)
  <2>d. /\ \A u \in Threads \ {t} : pc'[u] = pc[u] /\ blk'[u] = blk[u]
        /\ \/ blk[t] < req[t].count /\ blk'[t] = blk[t] + 1 /\ pc'[t] = "p1"
           \/ ~(blk[t] < req[t].count) /\ blk'[t] = 1 /\ pc'[t] = "p1unlock"
    BY <2>t, <2>a, LoopStep, StepNames, Zenon
  <2>1. TypeOK'
    <3>1. info' \in [InfoIds -> MasterInfo]
      <4>1. [hash |-> BlockHash(t), masterBlockIndex |-> 0, refcount |-> 1] \in MasterInfo
        BY <2>a, BlockHashType DEF MasterInfo
      <4>2. info \in [InfoIds -> MasterInfo]
        BY <2>t, Zenon DEF TypeOK
      <4>. QED
        BY <2>a, <4>1, <4>2, Zenon
    <3>. QED
      BY <2>t, <2>a, <2>c, <3>1, Zenon DEF TypeOK
  <2>2. LockInv'
    BY <2>t, <2>a, <2>d, <1>SameLocks, Zenon DEF RdSteps, WrSteps
  <2>4. Shape(t)'
    <3>1. plan'[t] = Append(plan[t], e) /\ miss_count'[t] = miss_count[t] + 1
      BY <2>t, <2>a, Zenon DEF TypeOK
    <3>. QED
      BY <2>a, <2>b, <2>d, <3>1, <1>PlannedBlock, Zenon
  <2>. QED
    BY <2>1, <2>2, <2>4, Zenon
<1>P1UnlockTypeInv. ASSUME TypeInv, NEW t \in Threads, P1Unlock(t)
    PROVE  TypeOK' /\ LockInv' /\ Shape(t)'
  <2> USE <1>P1UnlockTypeInv
  <2>t. TypeOK /\ LockInv /\ RequestShape(t) /\ LoopShape(t) /\ PlanShape(t) /\ SlotShape(t)
    BY Parts, Zenon
  <2>a. /\ pc[t] = "p1unlock"
        /\ pc' = [pc EXCEPT ![t] = IF miss_count[t] > 0 THEN "drain" ELSE "p3lock"]
        /\ rdlock' = rdlock \ {t}
        /\ UNCHANGED <<hash_to_master, file_to_master, info, file_to_sizes, free_block_list, nextBlockIndex,
                       masterFILE, wrlock, req, arrived, blk, plan, miss_count, out, rel>>
    BY Zenon DEF P1Unlock, RdUnlock, Goto, index, store, request
  <2>b. /\ miss_count[t] > 0 => pc'[t] = "drain"
        /\ ~(miss_count[t] > 0) => pc'[t] = "p3lock"
        /\ \A u \in Threads \ {t} : pc'[u] = pc[u]
    BY <2>t, <2>a, Zenon DEF TypeOK
  <2>1. TypeOK'
    BY <2>t, <2>a, Zenon DEF TypeOK, Steps
  <2>2. LockInv'
    BY <2>t, <2>a, <2>b, NullAssumption, Zenon DEF LockInv, RdSteps, WrSteps
  <2>4. Shape(t)'
    <3>1. blk'[t] = 1 /\ <<pc[t], pc'[t]>> \in StraightSteps
      BY <2>t, <2>a, <2>b, Zenon DEF LoopShape, LoopSteps, StraightSteps
    <3>2. RequestShape(t)' /\ LoopShape(t)' /\ PlanShape(t)'
      BY <2>a, <2>b, <3>1, <1>StraightShape, Zenon
    <3>3. SlotShape(t)'
      <4>1. out[t] = <<>> /\ out'[t] = out[t] /\ miss_count'[t] = miss_count[t] /\ miss_count[t] \in Nat
        BY <2>t, <2>a, LocalTypes, Zenon DEF SlotShape, AllocatedSteps
      <4>2. pc'[t] = "drain" \/ (pc'[t] = "p3lock" /\ miss_count[t] = 0)
        BY <2>b, <4>1
      <4>. QED
        BY <2>t, <4>1, <4>2, SMTT(90) DEF SlotShape, AllocatedSteps
    <3>. QED
      BY <3>1, <3>2, <3>3, Zenon DEF Shape
  <2>. QED
    BY <2>1, <2>2, <2>4, Zenon
<1>DrainTypeInv. ASSUME TypeInv, NEW t \in Threads, Drain(t)
    PROVE  TypeOK' /\ LockInv' /\ Shape(t)'
  <2> USE <1>DrainTypeInv
  <2>t. TypeOK /\ LockInv /\ RequestShape(t) /\ LoopShape(t) /\ PlanShape(t) /\ SlotShape(t)
    BY Parts, Zenon
  <2>a. /\ pc[t] = "drain" /\ pc' = [pc EXCEPT ![t] = "append"]
        /\ out' = [out EXCEPT ![t] = SubSeq(free_block_list, 1, Taken(t))]
        /\ free_block_list' = SubSeq(free_block_list, Taken(t) + 1, Len(free_block_list))
        /\ UNCHANGED <<hash_to_master, file_to_master, info, file_to_sizes, nextBlockIndex, masterFILE,
                       rdlock, wrlock, req, arrived, blk, plan, miss_count, rel>>
    BY Zenon DEF Drain, Goto, index, lock, request
  <2>b. /\ free_block_list \in Seq(Nat)
        /\ Taken(t) \in 0 .. Len(free_block_list) /\ Taken(t) <= miss_count[t]
    <3>1. free_block_list \in Seq(Nat) /\ miss_count[t] \in Nat
      BY <2>t, Zenon DEF TypeOK
    <3>2. Len(free_block_list) \in Int /\ miss_count[t] \in Int
      BY <3>1
    <3>3. /\ Taken(t) \in {miss_count[t], Len(free_block_list)}
          /\ Taken(t) <= miss_count[t] /\ Taken(t) <= Len(free_block_list)
      BY <3>2, PairMinMax, Zenon DEF Taken
    <3>. QED
      BY <3>1, <3>3, SMTT(90)
  <2>c. /\ SubSeq(free_block_list, 1, Taken(t)) \in Seq(Nat)
        /\ Len(SubSeq(free_block_list, 1, Taken(t))) = Taken(t)
        /\ free_block_list' \in Seq(Nat)
    BY <2>a, <2>b, SeqSlice, SMTT(90)
  <2>d. /\ pc'[t] = "append" /\ out'[t] = SubSeq(free_block_list, 1, Taken(t))
        /\ \A u \in Threads \ {t} : pc'[u] = pc[u] /\ out'[u] = out[u]
    BY <2>t, <2>a, Zenon DEF TypeOK
  <2>1. TypeOK'
    BY <2>t, <2>a, <2>c, Zenon DEF TypeOK, Steps
  <2>2. LockInv'
    BY <2>t, <2>a, <2>d, <1>SameLocks, ZenonT(30) DEF RdSteps, WrSteps
  <2>4. Shape(t)'
    <3>1. blk'[t] = 1 /\ <<pc[t], pc'[t]>> \in StraightSteps
      BY <2>t, <2>a, <2>d, Zenon DEF LoopShape, LoopSteps, StraightSteps
    <3>2. RequestShape(t)' /\ LoopShape(t)' /\ PlanShape(t)'
      BY <2>a, <2>d, <3>1, <1>StraightShape, Zenon
    <3>3. SlotShape(t)'
      BY <2>t, <2>a, <2>b, <2>c, <2>d, Zenon DEF SlotShape, AllocatedSteps
    <3>. QED
      BY <3>1, <3>2, <3>3, Zenon DEF Shape
  <2>. QED
    BY <2>1, <2>2, <2>4, Zenon
<1>AppendSlotsTypeInv. ASSUME MinMaxLaws, TypeInv, NEW t \in Threads, AppendSlots(t)
    PROVE  TypeOK' /\ LockInv' /\ Shape(t)'
  <2> USE <1>AppendSlotsTypeInv
  <2>t. TypeOK /\ LockInv /\ RequestShape(t) /\ LoopShape(t) /\ PlanShape(t) /\ SlotShape(t)
    BY Parts, Zenon
  <2>. DEFINE remaining == miss_count[t] - Len(out[t])
              fresh == [k \in 1 .. remaining |-> nextBlockIndex + k - 1]
              slots == out[t] \o fresh
              own(m) == {j \in Misses(t) : plan[t][j].info = m}
              newinfo(m) == [info[m] EXCEPT !.masterBlockIndex = slots[plan[t][Max(own(m))].rank]]
  <2>a. /\ pc[t] = "append" /\ pc' = [pc EXCEPT ![t] = "flush"]
        /\ nextBlockIndex' = nextBlockIndex + remaining
        /\ out' = [out EXCEPT ![t] = slots]
        /\ info' = [m \in InfoIds |-> IF own(m) = {} THEN info[m] ELSE newinfo(m)]
        /\ UNCHANGED <<hash_to_master, file_to_master, file_to_sizes, free_block_list, masterFILE,
                       rdlock, wrlock, req, arrived, blk, plan, miss_count, rel>>
    BY Zenon DEF AppendSlots, Goto, lock, request
  <2>b. /\ nextBlockIndex \in Nat /\ out[t] \in Seq(Nat) /\ miss_count[t] \in Nat
        /\ Len(out[t]) \in Nat /\ remaining \in Nat
    <3>1. out[t] \in Seq(Nat) /\ miss_count[t] \in Nat /\ Len(out[t]) \in Nat
      BY <2>t, LocalTypes
    <3>2. Len(out[t]) <= miss_count[t]
      BY <2>t, <2>a, Zenon DEF SlotShape
    <3>. QED
      BY <2>t, <3>1, <3>2, SMTT(90) DEF TypeOK
  <2>c. slots \in Seq(Nat) /\ Len(slots) = miss_count[t]
    <3>1. fresh \in Seq(Nat) /\ Len(fresh) = remaining
      BY <2>b
    <3>. HIDE DEF fresh
    <3>2. slots \in Seq(Nat) /\ Len(slots) = Len(out[t]) + Len(fresh)
      BY <2>b, <3>1, SeqConcat, Zenon
    <3>. QED
      BY <2>b, <3>1, <3>2, SMTT(90)
  <2>d. /\ pc'[t] = "flush" /\ out'[t] = slots
        /\ \A u \in Threads \ {t} : pc'[u] = pc[u] /\ out'[u] = out[u]
    BY <2>t, <2>a, Zenon DEF TypeOK
  <2>e. info' \in [InfoIds -> MasterInfo]
    <3>1. ASSUME NEW m \in InfoIds, own(m) # {} PROVE newinfo(m) \in MasterInfo
      <4>1. own(m) \in SUBSET Nat /\ Len(plan[t]) \in Nat /\ \A j \in own(m) : j <= Len(plan[t])
        BY <2>t, LocalTypes DEF Misses
      <4>2. Max(own(m)) \in Misses(t)
        BY <3>1, <4>1, Zenon DEF MinMaxLaws
      <4>3. plan[t][Max(own(m))].rank \in 1 .. Len(slots)
        BY <2>t, <4>2, <2>c, Zenon DEF PlanShape
      <4>4. slots[plan[t][Max(own(m))].rank] \in Nat
        BY <4>3, <2>c, SeqElement, Zenon
      <4>5. info[m] \in MasterInfo
        BY <2>t, Zenon DEF TypeOK
      <4>. QED
        BY <4>4, <4>5, Zenon DEF MasterInfo
    <3>2. \A m \in InfoIds : info[m] \in MasterInfo
      BY <2>t, Zenon DEF TypeOK
    <3>. HIDE DEF own, newinfo
    <3>. QED
      BY <2>a, <3>1, <3>2, Zenon
  <2>. HIDE DEF slots, remaining, own, newinfo
  <2>f. nextBlockIndex' \in Nat
    BY <2>a, <2>b
  <2>1. TypeOK'
    BY <2>t, <2>a, <2>c, <2>e, <2>f, Zenon DEF TypeOK, Steps
  <2>2. LockInv'
    BY <2>t, <2>a, <2>d, <1>SameLocks, Zenon DEF RdSteps, WrSteps
  <2>4. Shape(t)'
    <3>1. blk'[t] = 1 /\ <<pc[t], pc'[t]>> \in StraightSteps
      BY <2>t, <2>a, <2>d, Zenon DEF LoopShape, LoopSteps, StraightSteps
    <3>2. RequestShape(t)' /\ LoopShape(t)' /\ PlanShape(t)'
      BY <2>a, <2>d, <3>1, <1>StraightShape, Zenon
    <3>3. SlotShape(t)'
      <4>1. Misses(t)' = Misses(t) /\ Misses(t) # {} /\ \A j \in Misses(t) : j >= 1
        <5>1. Misses(t)' = Misses(t) /\ Misses(t) # {}
          BY <2>t, <2>a, Zenon DEF PlanShape, Misses
        <5>2. plan[t] \in Seq(PlanEntry) /\ Misses(t) \subseteq DOMAIN plan[t]
          BY <2>t, LocalTypes, Zenon DEF Misses
        <5>3. \A j \in Misses(t) : j >= 1
          BY ONLY <5>2
        <5>. QED
          BY <5>1, <5>3, Zenon
      <4>2. blk'[t] = 1
        BY <3>1, Zenon
      <4>3. Unflushed(t)' # {}
        BY <4>1, <4>2, Zenon DEF Unflushed
      <4>. QED
        BY <2>t, <2>a, <2>c, <2>d, <4>3, ZenonT(30) DEF SlotShape, AllocatedSteps
    <3>. QED
      BY <3>1, <3>2, <3>3, Zenon DEF Shape
  <2>. QED
    BY <2>1, <2>2, <2>4, Zenon
<1>FlushRunTypeInv. ASSUME MinMaxLaws, TypeInv, NEW t \in Threads, FlushRun(t)
    PROVE  TypeOK' /\ LockInv' /\ Shape(t)'
  <2> USE <1>FlushRunTypeInv
  <2>t. TypeOK /\ LockInv /\ RequestShape(t) /\ LoopShape(t) /\ PlanShape(t) /\ SlotShape(t)
    BY Parts, Zenon
  <2>a. /\ pc[t] = "flush"
        /\ masterFILE' = PWrite(masterFILE, MasterBlk(t, RunStart(t)),
                                SubSeq(req[t].buf, RunStart(t), RunEnd(t)))
        /\ \/ /\ \E j \in Misses(t) : j > RunEnd(t)
              /\ blk' = [blk EXCEPT ![t] = RunEnd(t) + 1] /\ pc' = pc
           \/ blk' = [blk EXCEPT ![t] = 1] /\ pc' = [pc EXCEPT ![t] = "p3lock"]
        /\ UNCHANGED <<hash_to_master, file_to_master, info, file_to_sizes, free_block_list, nextBlockIndex,
                       rdlock, wrlock, req, arrived, plan, miss_count, out, rel>>
    BY Zenon DEF FlushRun, Goto, index, lock, request
  <2>b. masterFILE' \in Seq(Contents \cup {NULL})
    <3>1. SubSeq(req[t].buf, RunStart(t), RunEnd(t)) \in Seq(Contents)
      <4>1. /\ req[t].buf \in Seq(Contents) /\ RunStart(t) \in Nat /\ RunEnd(t) \in Nat
            /\ 1 <= RunStart(t) /\ RunEnd(t) <= Len(req[t].buf)
        BY <2>t, <2>a, RunFacts, LocalTypes, Zenon
      <4>. QED
        BY ONLY <4>1, SeqSlice
    <3>2. masterFILE \in Seq(Contents \cup {NULL}) /\ MasterBlk(t, RunStart(t)) \in Nat
      BY <2>t, <2>a, RunFacts, Zenon DEF TypeOK
    <3>. QED
      BY <2>a, <3>1, <3>2, <1>PWriteType, Zenon
  <2>c. /\ pc' \in [Threads -> Steps] /\ blk' \in [Threads -> Nat]
        /\ \A u \in Threads \ {t} : pc'[u] = pc[u] /\ blk'[u] = blk[u]
        /\ \/ /\ \E j \in Misses(t) : j > RunEnd(t)
              /\ blk'[t] = RunEnd(t) + 1 /\ pc'[t] = "flush"
           \/ blk'[t] = 1 /\ pc'[t] = "p3lock"
    <3>1. pc \in [Threads -> Steps] /\ blk \in [Threads -> Nat] /\ "p3lock" \in Steps
      BY <2>t, StepNames, Zenon DEF TypeOK
    <3>2. RunEnd(t) \in Nat
      BY <2>a, RunFacts, Zenon
    <3>. QED
      BY <2>a, <3>1, <3>2
  <2>1. TypeOK'
    BY <2>t, <2>a, <2>b, <2>c, Zenon DEF TypeOK
  <2>2. LockInv'
    BY <2>t, <2>a, <2>c, <1>SameLocks, Zenon DEF RdSteps, WrSteps
  <2>4. CASE pc'[t] = "p3lock"
    <3>1. blk'[t] = 1 /\ <<pc[t], pc'[t]>> \in StraightSteps
      BY <2>a, <2>c, <2>4, Zenon DEF StraightSteps
    <3>. QED
      BY <2>1, <2>2, <2>4, <2>a, <3>1, <1>StraightShape, Zenon
  <2>5. CASE pc'[t] = "flush"
    <3>1. /\ RunEnd(t) \in Nat /\ blk'[t] = RunEnd(t) + 1 /\ Misses(t)' = Misses(t)
          /\ \E j \in Misses(t) : j > RunEnd(t)
          /\ pc'[t] = pc[t] /\ req'[t] = req[t] /\ plan'[t] = plan[t] /\ miss_count'[t] = miss_count[t] /\ out'[t] = out[t]
      BY <2>a, <2>c, <2>5, RunFacts, Zenon DEF Misses
    <3>2. Unflushed(t)' # {}
      <4>1. PICK j \in Misses(t) : j > RunEnd(t)
        BY <3>1, Zenon
      <4>2. j >= RunEnd(t) + 1
        <5>1. j \in DOMAIN plan[t] /\ plan[t] \in Seq(PlanEntry)
          BY <2>t, <4>1, LocalTypes, Zenon DEF Misses
        <5>. QED
          BY ONLY <3>1, <4>1, <5>1
      <4>. QED
        BY <3>1, <4>1, <4>2, Zenon DEF Unflushed
    <3>3. RequestShape(t)'
      BY <2>t, <3>1, Zenon DEF RequestShape
    <3>5. LoopShape(t)'
      BY ONLY <2>5, <3>1 DEF LoopShape, LoopSteps
    <3>6. PlanShape(t)'
      BY <2>t, <2>5, <3>1, ZenonT(30) DEF PlanShape, RemoveSteps
    <3>4. SlotShape(t)'
      BY <2>t, <3>1, <3>2, Zenon DEF SlotShape
    <3>. QED
      BY <2>1, <2>2, <3>3, <3>4, <3>5, <3>6, Zenon DEF Shape
  <2>. QED
    BY <2>c, <2>4, <2>5, Zenon
<1>FlushFailTypeInv. ASSUME MinMaxLaws, TypeInv, NEW t \in Threads, FlushFail(t)
    PROVE  TypeOK' /\ LockInv' /\ Shape(t)'
  <2> USE <1>FlushFailTypeInv
  <2>t. TypeOK /\ LockInv /\ RequestShape(t) /\ LoopShape(t) /\ PlanShape(t) /\ SlotShape(t)
    BY Parts, Zenon
  <2>. DEFINE slot == MasterBlk(t, RunStart(t))
              data == SubSeq(req[t].buf, RunStart(t), RunEnd(t))
              file(n) == IF n = 0 THEN masterFILE ELSE PWrite(masterFILE, slot, SubSeq(data, 1, n))
  <2>a. /\ pc[t] = "flush"
        /\ blk' = [blk EXCEPT ![t] = 1] /\ pc' = [pc EXCEPT ![t] = "rblock"]
        /\ UNCHANGED <<hash_to_master, file_to_master, info, file_to_sizes, free_block_list, nextBlockIndex,
                       rdlock, wrlock, req, arrived, plan, miss_count, out, rel>>
    BY Zenon DEF FlushFail, AfterFailure, Goto, index, lock, request
  <2>b. masterFILE' \in Seq(Contents \cup {NULL})
    <3>1. data \in Seq(Contents)
      <4>1. /\ req[t].buf \in Seq(Contents) /\ RunStart(t) \in Nat /\ RunEnd(t) \in Nat
            /\ 1 <= RunStart(t) /\ RunEnd(t) <= Len(req[t].buf)
        BY <2>t, <2>a, RunFacts, LocalTypes, Zenon
      <4>. QED
        BY ONLY <4>1, SeqSlice
    <3>2. masterFILE \in Seq(Contents \cup {NULL}) /\ slot \in Nat
      BY <2>t, <2>a, RunFacts, Zenon DEF TypeOK
    <3>3. PICK n \in 0 .. Len(data) - 1, torn \in BOOLEAN :
            masterFILE' = IF torn /\ slot + n < Len(file(n))
                          THEN [file(n) EXCEPT ![slot + n + 1] = NULL] ELSE file(n)
      BY Zenon DEF FlushFail
    <3>. HIDE DEF slot, data
    <3>4. file(n) \in Seq(Contents \cup {NULL})
      <4>1. n # 0 => SubSeq(data, 1, n) \in Seq(Contents)
        BY <3>1, SeqSlice
      <4>. QED
        BY <3>2, <4>1, <1>PWriteType, Zenon
    <3>. HIDE DEF file
    <3>5. slot + n < Len(file(n)) =>
            [file(n) EXCEPT ![slot + n + 1] = NULL] \in Seq(Contents \cup {NULL})
      <4>1. n \in Nat /\ slot + n + 1 \in Nat /\ Len(file(n)) \in Nat
        BY <3>1, <3>2, <3>4
      <4>2. slot + n < Len(file(n)) => slot + n + 1 \in 1 .. Len(file(n))
        BY <3>2, <4>1
      <4>. QED
        BY <3>4, <4>2, <1>SeqUpdate, Zenon
    <3>. QED
      BY <3>3, <3>4, <3>5, Zenon
  <2>c. /\ pc' \in [Threads -> Steps] /\ blk' \in [Threads -> Nat]
        /\ \A u \in Threads \ {t} : pc'[u] = pc[u] /\ blk'[u] = blk[u]
        /\ blk'[t] = 1 /\ pc'[t] = "rblock"
    BY <2>t, <2>a, Zenon DEF TypeOK, Steps
  <2>1. TypeOK'
    BY <2>t, <2>a, <2>b, <2>c, Zenon DEF TypeOK
  <2>2. LockInv'
    BY <2>t, <2>a, <2>c, <1>SameLocks, Zenon DEF RdSteps, WrSteps
  <2>4. Shape(t)'
    <3>1. blk'[t] = 1 /\ <<pc[t], pc'[t]>> \in StraightSteps
      BY <2>t, <2>a, <2>c, Zenon DEF LoopShape, LoopSteps, StraightSteps
    <3>2. RequestShape(t)' /\ LoopShape(t)' /\ PlanShape(t)'
      BY <2>a, <2>c, <3>1, <1>StraightShape, Zenon
    <3>3. SlotShape(t)'
      BY <2>t, <2>a, <2>c, Zenon DEF SlotShape, AllocatedSteps
    <3>. QED
      BY <3>1, <3>2, <3>3, Zenon DEF Shape
  <2>. QED
    BY <2>1, <2>2, <2>4, Zenon
<1>LockStepsTypeInv. ASSUME TypeInv, NEW t \in Threads,
           P1Lock(t) \/ P3Lock(t) \/ RbLock(t) \/ RbUnlock(t) \/ RmLock(t) \/ RmUnlock(t)
    PROVE  TypeOK' /\ LockInv' /\ Shape(t)'
  <2> USE <1>LockStepsTypeInv
  <2>1. UNCHANGED <<hash_to_master, file_to_master, info, file_to_sizes, free_block_list, nextBlockIndex,
                    masterFILE, req, arrived, blk, plan, miss_count, out, rel>>
    BY Zenon DEF P1Lock, P3Lock, RbLock, RbUnlock, RmLock, RmUnlock, index, store, request
  <2>2. /\ pc' \in [Threads -> Steps]
        /\ rdlock' \subseteq Threads \cup Readers /\ wrlock' \in Threads \cup {NULL}
        /\ LockInv' /\ Shape(t)'
    <3>1. CASE P1Lock(t)
      BY <2>1, <3>1, <1>LockStep, Zenon DEF P1Lock
    <3>2. CASE P3Lock(t)
      BY <2>1, <3>2, <1>LockStep, Zenon DEF P3Lock
    <3>3. CASE RbLock(t)
      BY <2>1, <3>3, <1>LockStep, Zenon DEF RbLock
    <3>4. CASE RbUnlock(t)
      BY <2>1, <3>4, <1>LockStep, Zenon DEF RbUnlock
    <3>5. CASE RmLock(t)
      BY <2>1, <3>5, <1>LockStep, Zenon DEF RmLock
    <3>6. CASE RmUnlock(t)
      BY <2>1, <3>6, <1>LockStep, Zenon DEF RmUnlock
    <3>. QED
      BY <3>1, <3>2, <3>3, <3>4, <3>5, <3>6, Zenon
  <2>. QED
    BY <2>1, <2>2, Parts, Zenon DEF TypeOK
<1>PublishBlockTypeInv. ASSUME TypeInv, NEW t \in Threads, PublishBlock(t)
    PROVE  TypeOK' /\ LockInv' /\ Shape(t)'
  <2> USE <1>PublishBlockTypeInv
  <2>t. TypeOK /\ LockInv /\ RequestShape(t) /\ LoopShape(t) /\ PlanShape(t) /\ SlotShape(t)
    BY Parts, Zenon
  <2>. DEFINE entry == plan[t][blk[t]]
              h == info[entry.info].hash
              winner == Winner(h)
  <2>a. /\ pc[t] = "publish" /\ NextBlock(t, "publish", "map")
        /\ UNCHANGED <<file_to_master, file_to_sizes, free_block_list, nextBlockIndex, masterFILE,
                       rdlock, wrlock, req, arrived, miss_count, out>>
    BY Zenon DEF PublishBlock, store, lock, request
  <2>b. \/ UNCHANGED <<hash_to_master, info, plan, rel>>
        \/ /\ winner # NULL
           /\ rel' = [rel EXCEPT ![t] = <<MasterBlk(t, blk[t])>> \o @]
           /\ info' = [info EXCEPT ![winner].refcount = @ + 1, ![entry.info] = Freed]
           /\ plan' = [plan EXCEPT ![t][blk[t]].info = winner]
           /\ hash_to_master' = hash_to_master /\ blk[t] \in Misses(t)
        \/ /\ hash_to_master' = [hash_to_master EXCEPT ![h] = entry.info]
           /\ UNCHANGED <<info, plan, rel>>
    <3>1. blk[t] \in DOMAIN plan[t]
      <4>1. /\ blk[t] \in Nat /\ blk[t] > 0 /\ blk[t] <= req[t].count
            /\ plan[t] \in Seq(PlanEntry) /\ Len(plan[t]) = req[t].count
        BY <2>t, <2>a, LocalTypes, Zenon DEF LoopShape, PlanShape, LoopSteps, PlannedSteps, AllocatedSteps
      <4>. QED
        BY ONLY <4>1
    <3>. QED
      BY <3>1, Zenon DEF PublishBlock, Misses
  <2>c. /\ blk[t] \in DOMAIN plan[t] /\ entry.info \in InfoIds /\ entry \in PlanEntry
        /\ winner \in InfoIds \cup {NULL}
    <3>1. blk[t] \in DOMAIN plan[t]
      BY <2>t, <2>a, LocalTypes DEF LoopShape, PlanShape, LoopSteps, PlannedSteps, AllocatedSteps
    <3>2. winner \in InfoIds \cup {NULL}
      BY <2>t, Zenon DEF TypeOK, Winner
    <3>. QED
      BY <2>t, <3>1, <3>2, PlanTypes, Zenon
  <2>. HIDE DEF winner, h
  <2>d. /\ pc' \in [Threads -> Steps] /\ blk' \in [Threads -> Nat]
        /\ \A u \in Threads \ {t} : pc'[u] = pc[u] /\ blk'[u] = blk[u]
        /\ pc'[t] \in {"publish", "map"}
    BY <2>t, <2>a, LoopStep, StepNames, Zenon
  <2>e. /\ info' \in [InfoIds -> MasterInfo] /\ hash_to_master' \in [Hashes -> InfoIds \cup {NULL}]
    <3>1. info \in [InfoIds -> MasterInfo] /\ hash_to_master \in [Hashes -> InfoIds \cup {NULL}]
      BY <2>t, Zenon DEF TypeOK
    <3>2. winner # NULL => [info EXCEPT ![winner].refcount = @ + 1, ![entry.info] = Freed]
                           \in [InfoIds -> MasterInfo]
      <4>. DEFINE held == [info EXCEPT ![winner].refcount = @ + 1]
      <4>1. winner # NULL => held \in [InfoIds -> MasterInfo]
        BY <2>t, <2>c, InfoTypes, Zenon
      <4>2. Freed \in MasterInfo
        BY DEF Freed, MasterInfo
      <4>. HIDE DEF held
      <4>3. winner # NULL => [held EXCEPT ![entry.info] = Freed] \in [InfoIds -> MasterInfo]
        BY <2>c, <4>1, <4>2, Zenon
      <4>. QED
        BY <4>3, Zenon DEF held
    <3>. QED
      BY <2>b, <2>c, <3>1, <3>2, Zenon
  <2>f. /\ rel' \in [Threads -> Seq(Nat)]
    <3>1. rel \in [Threads -> Seq(Nat)]
      BY <2>t, Zenon DEF TypeOK
    <3>2. blk[t] \in Misses(t) => MasterBlk(t, blk[t]) \in Nat
      <4>1. blk[t] \in Misses(t) => plan[t][blk[t]].rank \in 1 .. Len(out[t])
        BY <2>t, <2>a, Zenon DEF PlanShape, SlotShape, AllocatedSteps
      <4>. QED
        BY <2>t, <4>1, LocalTypes, SeqElement, Zenon DEF MasterBlk
    <3>3. blk[t] \in Misses(t) => <<MasterBlk(t, blk[t])>> \o rel[t] \in Seq(Nat)
      BY <3>1, <3>2, SeqConcat
    <3>. QED
      BY <2>b, <3>1, <3>3, Zenon
  <2>g. \/ plan' = plan
        \/ /\ winner \in InfoIds
           /\ plan' = [plan EXCEPT ![t] = [@ EXCEPT ![blk[t]] = [entry EXCEPT !.info = winner]]]
    BY <2>b, <2>c, Zenon
  <2>h. /\ plan' \in [Threads -> Seq(PlanEntry)] /\ \A u \in Threads \ {t} : plan'[u] = plan[u]
        /\ Len(plan'[t]) = Len(plan[t]) /\ DOMAIN plan'[t] = DOMAIN plan[t]
        /\ \A j \in DOMAIN plan[t] : plan'[t][j].kind = plan[t][j].kind
                                     /\ plan'[t][j].rank = plan[t][j].rank
    <3>1. plan \in [Threads -> Seq(PlanEntry)] /\ plan[t] \in Seq(PlanEntry)
      BY <2>t, Zenon DEF TypeOK
    <3>2. CASE plan' = plan
      BY <3>1, <3>2, Zenon
    <3>3. CASE /\ winner \in InfoIds
               /\ plan' = [plan EXCEPT ![t] = [@ EXCEPT ![blk[t]] = [entry EXCEPT !.info = winner]]]
      <4>. DEFINE new == [entry EXCEPT !.info = winner]
      <4>1. new \in PlanEntry /\ new.kind = entry.kind /\ new.rank = entry.rank
        BY <2>c, <3>3, Zenon DEF PlanEntry
      <4>. HIDE DEF new
      <4>2. plan' = [plan EXCEPT ![t] = [plan[t] EXCEPT ![blk[t]] = new]]
        BY <3>3, Zenon DEF new
      <4>3. [plan[t] EXCEPT ![blk[t]] = new] \in Seq(PlanEntry)
            /\ Len([plan[t] EXCEPT ![blk[t]] = new]) = Len(plan[t])
        BY <2>c, <3>1, <4>1, <1>SeqUpdate
      <4>. QED
        BY <2>c, <3>1, <4>1, <4>2, <4>3, Zenon
    <3>. QED
      BY <2>g, <3>2, <3>3, Zenon
  <2>1. TypeOK'
    BY <2>t, <2>a, <2>d, <2>e, <2>f, <2>h, Zenon DEF TypeOK
  <2>2. LockInv'
    BY <2>t, <2>a, <2>d, <1>SameLocks, Zenon DEF RdSteps, WrSteps
  <2>4. Shape(t)'
    <3>1. Misses(t)' = Misses(t) /\ \A j \in Misses(t) : plan'[t][j].rank = plan[t][j].rank
      BY <2>h, Zenon DEF Misses
    <3>2. plan[t] = <<>> => plan'[t] = <<>>
      BY <2>c
    <3>3. /\ <<"publish", "map">> \in {<<"publish", "map">>, <<"map", "p3unlock">>,
                                      <<"rbhits", "rbunlock">>, <<"remove", "rmunlock">>}
          /\ pc[t] = "publish" /\ NextBlock(t, "publish", "map")
          /\ req'[t] = req[t] /\ out'[t] = out[t] /\ miss_count'[t] = miss_count[t]
          /\ Len(plan'[t]) = Len(plan[t])
      BY <2>a, <2>h, Zenon
    <3>. QED
      BY <2>t, <3>1, <3>2, <3>3, <1>LoopKeepsShape, SMTT(90)
  <2>. QED
    BY <2>1, <2>2, <2>4, Zenon
<1>MapBlockTypeInv. ASSUME TypeInv, NEW t \in Threads, MapBlock(t)
    PROVE  TypeOK' /\ LockInv' /\ Shape(t)'
  <2> USE <1>MapBlockTypeInv
  <2>1. /\ pc[t] = "map" /\ FileBlock(t) \in Paths \X Blocks /\ plan[t][blk[t]].info \in InfoIds /\ TypeOK
    BY FileBlockType, LoopEntry, Parts, Zenon DEF MapBlock
  <2>2. file_to_master \in [Paths \X Blocks -> InfoIds \cup {NULL}]
    BY <2>1, Zenon DEF TypeOK
  <2>3. file_to_master' \in [Paths \X Blocks -> InfoIds \cup {NULL}]
    BY <2>1, <2>2, Zenon DEF MapBlock
  <2>4. (\E m \in InfoIds : DropReference(t, m)) \/ UNCHANGED <<rel, hash_to_master, info>>
    BY <2>1, <2>2, Zenon DEF MapBlock, Overwritten
  <2>5. /\ NextBlock(t, "map", "p3unlock")
        /\ UNCHANGED <<file_to_sizes, free_block_list, nextBlockIndex, masterFILE,
                       rdlock, wrlock, req, arrived, plan, miss_count, out>>
    BY ZenonT(30) DEF MapBlock, store, lock, request
  <2>. QED
    BY <2>1, <2>3, <2>4, <2>5, <1>DropLoop
<1>RbHitTypeInv. ASSUME TypeInv, NEW t \in Threads, RbHit(t)
    PROVE  TypeOK' /\ LockInv' /\ Shape(t)'
  <2> USE <1>RbHitTypeInv
  <2>1. pc[t] = "rbhits" /\ plan[t][blk[t]].info \in InfoIds /\ TypeOK
    BY LoopEntry, Parts, Zenon DEF RbHit
  <2>2. file_to_master' \in [Paths \X Blocks -> InfoIds \cup {NULL}]
    BY <2>1, Zenon DEF RbHit, TypeOK
  <2>3. (\E m \in InfoIds : DropReference(t, m)) \/ UNCHANGED <<rel, hash_to_master, info>>
    BY <2>1, Zenon DEF RbHit
  <2>4. /\ NextBlock(t, "rbhits", "rbunlock")
        /\ UNCHANGED <<file_to_sizes, free_block_list, nextBlockIndex, masterFILE,
                       rdlock, wrlock, req, arrived, plan, miss_count, out>>
    BY Zenon DEF RbHit, store, lock, request
  <2>. QED
    BY <2>1, <2>2, <2>3, <2>4, <1>DropLoop
<1>RmBlockTypeInv. ASSUME TypeInv, NEW t \in Threads, RmBlock(t)
    PROVE  TypeOK' /\ LockInv' /\ Shape(t)'
  <2> USE <1>RmBlockTypeInv
  <2>1. pc[t] = "remove" /\ FileBlock(t) \in Paths \X Blocks /\ TypeOK
    BY FileBlockType, Parts, Zenon DEF RmBlock
  <2>2. file_to_master \in [Paths \X Blocks -> InfoIds \cup {NULL}]
    BY <2>1, Zenon DEF TypeOK
  <2>3. file_to_master' \in [Paths \X Blocks -> InfoIds \cup {NULL}]
    BY <2>1, <2>2, Zenon DEF RmBlock
  <2>4. (\E m \in InfoIds : DropReference(t, m)) \/ UNCHANGED <<rel, hash_to_master, info>>
    BY <2>1, <2>2, Zenon DEF RmBlock
  <2>5. /\ NextBlock(t, "remove", "rmunlock")
        /\ UNCHANGED <<file_to_sizes, free_block_list, nextBlockIndex, masterFILE,
                       rdlock, wrlock, req, arrived, plan, miss_count, out>>
    BY Zenon DEF RmBlock, store, lock, request
  <2>. QED
    BY <2>1, <2>3, <2>4, <2>5, <1>DropLoop
<1>P3UnlockTypeInv. ASSUME TypeInv, NEW t \in Threads, P3Unlock(t)
    PROVE  TypeOK' /\ LockInv' /\ Shape(t)'
  <2> USE <1>P3UnlockTypeInv
  <2>t. TypeOK /\ LockInv /\ RequestShape(t) /\ LoopShape(t) /\ PlanShape(t) /\ SlotShape(t)
    BY Parts, Zenon
  <2>. DEFINE p == req[t].path
              sizes == {SizeOf(p), NewEnd(t)}
  <2>a. /\ pc[t] = "p3unlock" /\ WrUnlock(t) /\ Goto(t, "p3release")
        /\ file_to_sizes' = [file_to_sizes EXCEPT ![p] = Max(sizes)]
        /\ UNCHANGED <<hash_to_master, file_to_master, info, free_block_list, nextBlockIndex, masterFILE,
                       req, arrived, blk, plan, miss_count, out, rel>>
    BY Zenon DEF P3Unlock, index, store, request
  <2>b. file_to_sizes' \in [Paths -> 0 .. MaxBlocks \cup {NULL}]
    <3>1. p \in Paths /\ NewEnd(t) \in Nat /\ NewEnd(t) <= MaxBlocks
      BY <2>t, <2>a, LocalTypes, SMTT(90) DEF RequestShape, NewEnd
    <3>2. SizeOf(p) \in Nat /\ SizeOf(p) <= MaxBlocks
      BY <2>t, <3>1, BoundsAssumption, SMTT(90) DEF TypeOK, SizeOf
    <3>3. SizeOf(p) \in Int /\ NewEnd(t) \in Int /\ \A y \in sizes : y \in 0 .. MaxBlocks
      BY <3>1, <3>2, BoundsAssumption
    <3>4. Max(sizes) \in sizes
      BY <3>3, PairMinMax, Zenon
    <3>5. Max(sizes) \in 0 .. MaxBlocks
      BY <3>3, <3>4, Zenon
    <3>. HIDE DEF sizes
    <3>. QED
      BY <2>t, <2>a, <3>5, Zenon DEF TypeOK
  <2>1. /\ pc' \in [Threads -> Steps]
        /\ rdlock' \subseteq Threads \cup Readers /\ wrlock' \in Threads \cup {NULL}
        /\ LockInv' /\ Shape(t)'
    BY <2>a, <1>LockStep, Zenon
  <2>2. TypeOK'
    BY <2>t, <2>a, <2>b, <2>1, Zenon DEF TypeOK
  <2>. QED
    BY <2>1, <2>2, Zenon
<1>P3ReleaseTypeInv. ASSUME TypeInv, NEW t \in Threads, P3Release(t)
    PROVE  TypeOK' /\ LockInv' /\ Shape(t)'
  <2> USE <1>P3ReleaseTypeInv
  <2>t. TypeOK /\ LockInv /\ RequestShape(t) /\ LoopShape(t) /\ PlanShape(t) /\ SlotShape(t)
    BY Parts, Zenon
  <2>a. /\ pc[t] \notin RdSteps \cup WrSteps /\ ReleaseSlots(t) /\ Return(t)
        /\ UNCHANGED <<hash_to_master, file_to_master, info, file_to_sizes, nextBlockIndex, masterFILE,
                       rdlock, wrlock, arrived>>
    BY Zenon DEF P3Release, index, lock, RdSteps, WrSteps
  <2>1. TypeOK'
    BY <2>t, <2>a, <1>ReleaseTypes, <1>ReturnShape, Zenon DEF TypeOK
  <2>. QED
    BY <2>a, <2>1, <1>ReturnShape, Zenon
<1>RbMissesTypeInv. ASSUME TypeInv, NEW t \in Threads, RbMisses(t)
    PROVE  TypeOK' /\ LockInv' /\ Shape(t)'
  <2> USE <1>RbMissesTypeInv
  <2>t. TypeOK /\ LockInv /\ RequestShape(t) /\ LoopShape(t) /\ PlanShape(t) /\ SlotShape(t)
    BY Parts, Zenon
  <2>a. /\ pc[t] \notin RdSteps \cup WrSteps /\ Return(t)
        /\ free_block_list' = Returned(t) \o free_block_list
        /\ info' = [m \in InfoIds |->
                      IF \E j \in Misses(t) : plan[t][j].info = m THEN Freed ELSE info[m]]
        /\ UNCHANGED <<hash_to_master, file_to_master, file_to_sizes, nextBlockIndex, masterFILE,
                       rdlock, wrlock, arrived, rel>>
    BY Zenon DEF RbMisses, lock, RdSteps, WrSteps
  <2>b. free_block_list' \in Seq(Nat)
    <3>1. out[t] \in Seq(Nat) /\ free_block_list \in Seq(Nat)
      BY <2>t, Zenon DEF TypeOK
    <3>2. \A k \in 1 .. Len(out[t]) : out[t][Len(out[t]) + 1 - k] \in Nat
      BY <3>1, SMTT(90)
    <3>3. Returned(t) \in Seq(Nat)
      BY <3>1, <3>2 DEF Returned
    <3>. QED
      BY <2>a, <3>1, <3>3, SeqConcat, Zenon
  <2>c. info' \in [InfoIds -> MasterInfo]
    <3>1. Freed \in MasterInfo /\ info \in [InfoIds -> MasterInfo]
      BY <2>t, SMTT(90) DEF Freed, MasterInfo, TypeOK
    <3>. QED
      BY <2>a, <3>1, Zenon
  <2>1. TypeOK'
    BY <2>t, <2>a, <2>b, <2>c, <1>ReturnShape, ZenonT(30) DEF TypeOK
  <2>. QED
    BY <2>a, <2>1, <1>ReturnShape, Zenon
<1>RbReleaseTypeInv. ASSUME TypeInv, NEW t \in Threads, RbRelease(t)
    PROVE  TypeOK' /\ LockInv' /\ Shape(t)'
  <2> USE <1>RbReleaseTypeInv
  <2>t. TypeOK /\ LockInv /\ RequestShape(t) /\ LoopShape(t) /\ PlanShape(t) /\ SlotShape(t)
    BY Parts, Zenon
  <2>a. /\ pc[t] = "rbrelease" /\ pc' = [pc EXCEPT ![t] = "rbmisses"] /\ ReleaseSlots(t)
        /\ UNCHANGED <<hash_to_master, file_to_master, info, file_to_sizes, nextBlockIndex, masterFILE,
                       rdlock, wrlock, req, arrived, blk, plan, miss_count, out>>
    BY Zenon DEF RbRelease, Goto, index, lock, request
  <2>b. /\ pc' \in [Threads -> Steps] /\ pc'[t] = "rbmisses"
        /\ \A u \in Threads \ {t} : pc'[u] = pc[u]
    BY <2>t, <2>a, StepNames, Zenon DEF TypeOK
  <2>1. TypeOK'
    BY <2>t, <2>a, <2>b, <1>ReleaseTypes, Zenon DEF TypeOK
  <2>2. LockInv'
    BY <2>t, <2>a, <2>b, <1>SameLocks, Zenon DEF RdSteps, WrSteps
  <2>4. Shape(t)'
    <3>1. blk'[t] = 1 /\ <<pc[t], pc'[t]>> \in StraightSteps
      BY <2>t, <2>a, <2>b, Zenon DEF LoopShape, LoopSteps, StraightSteps
    <3>. QED
      BY <2>a, <2>b, <3>1, <1>StraightShape, Zenon
  <2>. QED
    BY <2>1, <2>2, <2>4, Zenon
<1>SetSizeTypeInv. ASSUME TypeInv, NEW t \in Threads, SetSize(t)
    PROVE  TypeOK' /\ LockInv' /\ Shape(t)'
  <2> USE <1>SetSizeTypeInv
  <2>t. TypeOK /\ LockInv /\ RequestShape(t) /\ LoopShape(t) /\ PlanShape(t) /\ SlotShape(t)
    BY Parts, Zenon
  <2>a. /\ pc[t] = "setsize" /\ pc[t] \notin RdSteps \cup WrSteps /\ Return(t)
        /\ UNCHANGED <<hash_to_master, file_to_master, info, free_block_list, nextBlockIndex, masterFILE,
                       rdlock, wrlock, arrived, rel>>
    BY Zenon DEF SetSize, index, store, lock, RdSteps, WrSteps
  <2>b. file_to_sizes' \in [Paths -> 0 .. MaxBlocks \cup {NULL}]
    <3>1. file_to_sizes \in [Paths -> 0 .. MaxBlocks \cup {NULL}] /\ MaxBlocks \in Nat
      BY <2>t, BoundsAssumption, ZenonT(30) DEF TypeOK
    <3>2. req[t].path \in Paths /\ req[t].start \in 0 .. MaxBlocks
      <4>1. /\ req[t].path \in Paths /\ req[t].start + req[t].count <= MaxBlocks
            /\ req[t].start \in Nat /\ req[t].count \in Nat
        BY <2>t, <2>a, LocalTypes, Zenon DEF RequestShape
      <4>. QED
        BY ONLY <3>1, <4>1
    <3>. QED
      BY <3>1, <3>2, Zenon DEF SetSize
  <2>1. TypeOK'
    BY <2>t, <2>a, <2>b, <1>ReturnShape, ZenonT(30) DEF TypeOK
  <2>. QED
    BY <2>a, <2>1, <1>ReturnShape, Zenon
<1>RmReleaseTypeInv. ASSUME TypeInv, NEW t \in Threads, RmRelease(t)
    PROVE  TypeOK' /\ LockInv' /\ Shape(t)'
  <2> USE <1>RmReleaseTypeInv
  <2>t. TypeOK /\ LockInv /\ RequestShape(t) /\ LoopShape(t) /\ PlanShape(t) /\ SlotShape(t)
    BY Parts, Zenon
  <2>a. /\ pc[t] = "rmrelease" /\ pc' = [pc EXCEPT ![t] = "setsize"] /\ ReleaseSlots(t)
        /\ UNCHANGED <<hash_to_master, file_to_master, info, file_to_sizes, nextBlockIndex, masterFILE,
                       rdlock, wrlock, req, arrived, blk, plan, miss_count, out>>
    BY Zenon DEF RmRelease, Goto, index, lock, request
  <2>b. /\ pc' \in [Threads -> Steps] /\ pc'[t] = "setsize"
        /\ \A u \in Threads \ {t} : pc'[u] = pc[u]
    BY <2>t, <2>a, StepNames, Zenon DEF TypeOK
  <2>1. TypeOK'
    BY <2>t, <2>a, <2>b, <1>ReleaseTypes, Zenon DEF TypeOK
  <2>2. LockInv'
    BY <2>t, <2>a, <2>b, <1>SameLocks, Zenon DEF RdSteps, WrSteps
  <2>4. Shape(t)'
    <3>1. blk'[t] = 1 /\ <<pc[t], pc'[t]>> \in StraightSteps
      BY <2>t, <2>a, <2>b, Zenon DEF LoopShape, LoopSteps, StraightSteps
    <3>. QED
      BY <2>a, <2>b, <3>1, <1>StraightShape, Zenon
  <2>. QED
    BY <2>1, <2>2, <2>4, Zenon
<1>StartWriteTypeInv. ASSUME TypeInv, NEW t \in Threads, StartWrite(t)
    PROVE  TypeOK' /\ LockInv' /\ Shape(t)'
  <2> USE <1>StartWriteTypeInv
  <2>. DEFINE r(p, s, d) == [op |-> "write", path |-> p, start |-> s, count |-> Len(d), buf |-> d]
  <2>1. PICK p \in Paths, s \in Blocks, d \in Payloads :
          s + Len(d) <= MaxBlocks /\ Arrive(t, r(p, s, d), "p1lock")
    BY Zenon DEF StartWrite
  <2>2. d \in Seq(Contents) /\ d # <<>> /\ s \in Nat
    BY PayloadsAssumption, BoundsAssumption DEF Blocks
  <2>3. Len(d) \in Nat /\ Len(d) > 0
    BY <2>2, SMTT(90)
  <2>4. /\ r(p, s, d) \in Requests /\ r(p, s, d).path = p /\ r(p, s, d).start = s
        /\ r(p, s, d).count = Len(d) /\ r(p, s, d).buf = d
    BY <2>2, <2>3, Zenon DEF Requests
  <2>. HIDE DEF r
  <2>. QED
    BY <2>1, <2>3, <2>4, <1>ArriveTypeInv, Zenon DEF StartWrite
<1>StartUnlinkTypeInv. ASSUME TypeInv, NEW t \in Threads, StartUnlink(t)
    PROVE  TypeOK' /\ LockInv' /\ Shape(t)'
  <2> USE <1>StartUnlinkTypeInv
  <2>. DEFINE r(p) == [op |-> "unlink", path |-> p, start |-> 0, count |-> file_to_sizes[p], buf |-> <<>>]
  <2>1. PICK p \in Paths :
          /\ file_to_sizes[p] # NULL
          /\ Arrive(t, r(p), IF file_to_sizes[p] > 0 THEN "rmlock" ELSE "setsize")
    BY Zenon DEF StartUnlink
  <2>2. file_to_sizes[p] \in 0 .. MaxBlocks
    BY <2>1, Parts, Zenon DEF TypeOK
  <2>3. /\ r(p) \in Requests /\ r(p).path = p /\ r(p).start = 0 /\ r(p).count = file_to_sizes[p]
    BY <2>2, BoundsAssumption, SMTT(90) DEF Requests
  <2>. HIDE DEF r
  <2>4. r(p).start + r(p).count <= MaxBlocks
    BY <2>2, <2>3, BoundsAssumption, SMTT(90)
  <2>5. UNCHANGED <<index, file_to_sizes, store, lock, blk, plan, miss_count, out, rel>>
    BY Zenon DEF StartUnlink
  <2>6. CASE file_to_sizes[p] > 0
    BY <2>1, <2>3, <2>4, <2>5, <2>6, <1>ArriveTypeInv, Zenon
  <2>7. CASE ~(file_to_sizes[p] > 0)
    BY <2>1, <2>3, <2>4, <2>5, <2>7, <1>ArriveTypeInv, Zenon
  <2>. QED
    BY <2>6, <2>7, Zenon
<1>StartTruncateTypeInv. ASSUME TypeInv, NEW t \in Threads, StartTruncate(t)
    PROVE  TypeOK' /\ LockInv' /\ Shape(t)'
  <2> USE <1>StartTruncateTypeInv
  <2>. DEFINE r(p, size) == [op |-> "truncate", path |-> p, start |-> size,
                             count |-> file_to_sizes[p] - size, buf |-> <<>>]
  <2>1. PICK p \in Paths, size \in Blocks :
          /\ file_to_sizes[p] # NULL /\ size < file_to_sizes[p]
          /\ Arrive(t, r(p, size), "rmlock")
    BY Zenon DEF StartTruncate
  <2>2. file_to_sizes[p] \in 0 .. MaxBlocks /\ size \in Nat
    <3>1. /\ p \in Paths /\ size \in Blocks /\ file_to_sizes[p] # NULL
          /\ file_to_sizes[p] \in 0 .. MaxBlocks \cup {NULL}
      BY <2>1, Parts, Zenon DEF TypeOK
    <3>. QED
      BY ONLY <3>1, BoundsAssumption DEF Blocks
  <2>3. /\ r(p, size) \in Requests /\ r(p, size).path = p /\ r(p, size).start = size
        /\ r(p, size).count = file_to_sizes[p] - size
    BY <2>1, <2>2, BoundsAssumption, SMTT(90) DEF Requests
  <2>. HIDE DEF r
  <2>4. r(p, size).start + r(p, size).count <= MaxBlocks /\ r(p, size).count > 0
    BY <2>1, <2>2, <2>3, BoundsAssumption, SMTT(90)
  <2>. QED
    BY <2>1, <2>3, <2>4, <1>ArriveTypeInv, Zenon DEF StartTruncate
\* A remount, and a step that changes nothing.
<1>RestTypeInv. ASSUME TypeInv, Remount \/ UNCHANGED vars
    PROVE  TypeInv'
  <2> USE <1>RestTypeInv
  <2>1. /\ nextBlockIndex' \in {nextBlockIndex, Len(masterFILE)}
        /\ UNCHANGED <<hash_to_master, file_to_master, info, file_to_sizes, free_block_list, masterFILE,
                       rdlock, wrlock, req, arrived, pc, blk, plan, miss_count, out, rel>>
    BY Zenon DEF Remount, AppendPoint, vars, index, store, lock, request
  <2>2. TypeOK'
    <3>1. nextBlockIndex' \in Nat
      BY <2>1 DEF TypeInv, TypeOK
    <3>. QED
      BY <2>1, <3>1, Zenon DEF TypeInv, TypeOK
  <2>3. LockInv'
    BY <2>1, Zenon DEF TypeInv, LockInv
  <2>4. ASSUME NEW u \in Threads PROVE Shape(u)'
    BY <2>1, <1>OtherShape, Zenon DEF TypeInv, SameLocals
  <2>. QED
    BY <2>2, <2>3, <2>4, Zenon DEF TypeInv
<1>1. ASSUME NEW t \in Threads, Start(t) \/ Step(t) PROVE TypeInv'
  <2>1. Start(t) => TypeOK' /\ LockInv' /\ Shape(t)'
    BY <1>StartWriteTypeInv, <1>StartUnlinkTypeInv, <1>StartTruncateTypeInv, Zenon DEF Start
  <2>2. Step(t) => TypeOK' /\ LockInv' /\ Shape(t)'
    BY <1>LockStepsTypeInv, <1>P1HitTypeInv, <1>P1TakeTypeInv, <1>P1MissTypeInv,
       <1>P1UnlockTypeInv, <1>DrainTypeInv, <1>AppendSlotsTypeInv, <1>FlushRunTypeInv, <1>FlushFailTypeInv,
       <1>PublishBlockTypeInv, <1>MapBlockTypeInv, <1>P3UnlockTypeInv, <1>P3ReleaseTypeInv, <1>RbHitTypeInv,
       <1>RbReleaseTypeInv, <1>RbMissesTypeInv, <1>RmBlockTypeInv, <1>RmReleaseTypeInv, <1>SetSizeTypeInv,
       ZenonT(30) DEF Step
  <2>3. ASSUME NEW u \in Threads, u # t PROVE Shape(u)'
    BY <1>1, <2>3, OthersUnchanged, <1>OtherShape, Zenon DEF TypeInv
  <2>4. TypeOK' /\ LockInv' /\ Shape(t)'
    BY <1>1, <2>1, <2>2
  <2>. QED
    BY <2>3, <2>4, Zenon DEF TypeInv
<1>. QED
  BY <1>1, <1>RestTypeInv, Zenon DEF Next, Wait

-----------------------------------------------------------------------------
(* References: the invariant that makes RefcountExact and OneInfoPerHash      *)
(* inductive.                                                                 *)

DistinctBlocks(d) == \A i, j \in DOMAIN d : i # j => HashOf[d[i]] # HashOf[d[j]]
DistinctPayloads == \A d \in Payloads : DistinctBlocks(d)

Published(m) == \E h \in Hashes : hash_to_master[h] = m

\* The MISSes of thread t whose MasterInfo is not in the index yet.
Pending(t) ==
  CASE pc[t] = "publish" -> {j \in Misses(t) : j >= blk[t]}
    [] pc[t] \in {"map", "p3unlock", "p3release"} -> {}
    [] OTHER -> Misses(t)

\* The entries of the plan whose pointer is in use: those that hold a
\* reference, and the HIT that is about to take its own.
Points(t) == Held(t) \cup (IF pc[t] = "p1take" THEN {blk[t]} ELSE {})

\* The pointers of thread t: to a published MasterInfo, or to a pending one
\* that nobody else knows of.
PointersRight(t) ==
  /\ \A j \in Points(t) \ Pending(t) : Published(plan[t][j].info)
  /\ \A j \in Pending(t) :
       /\ info[plan[t][j].info].hash = HashOf[req[t].buf[j]]
       /\ info[plan[t][j].info].refcount = 1
       /\ ~Published(plan[t][j].info)
  /\ pc[t] = "p1take" => plan[t][blk[t]].kind = "HIT"
  /\ DistinctBlocks(req[t].buf)

RefInv == RefcountExact /\ OneInfoPerHash /\ \A t \in Threads : PointersRight(t)

-----------------------------------------------------------------------------
(* What the invariant says of one thread, and of its entries. *)

\* What RefInv says of one thread.
LEMMA RefParts ==
  ASSUME RefInv, NEW t \in Threads
  PROVE  RefcountExact /\ OneInfoPerHash /\ PointersRight(t)
BY Zenon DEF RefInv

\* The entries of a plan are numbered within the request.
LEMMA PlanRange ==
  ASSUME TypeInv, NEW t \in Threads
  PROVE  DOMAIN plan[t] = 1 .. Len(plan[t]) /\ DOMAIN plan[t] \subseteq 1 .. MaxBlocks
<1>1. TypeOK /\ RequestShape(t) /\ LoopShape(t) /\ PlanShape(t) /\ pc[t] \in Steps
  BY Parts, LocalTypes, Zenon
<1>2. /\ pc[t] \in PlannedSteps \cup {"p1", "p1take"} \/ plan[t] = <<>>
      /\ pc[t] \in PlannedSteps \cup {"p1", "p1take"} => pc[t] # "idle"
      /\ pc[t] \in {"p1", "p1take"} => pc[t] \in LoopSteps
  BY <1>1, Zenon DEF PlanShape, Steps, RemoveSteps, PlannedSteps, AllocatedSteps, LoopSteps
<1>3. DOMAIN plan[t] = 1 .. Len(plan[t]) /\ Len(plan[t]) \in Nat
  <2>1. plan[t] \in Seq(PlanEntry)
    BY <1>1, LocalTypes, Zenon
  <2>. QED
    BY ONLY <2>1
<1>4. Len(plan[t]) <= MaxBlocks
  <2>1. CASE plan[t] = <<>>
    BY ONLY <2>1, BoundsAssumption
  <2>2. CASE pc[t] \in PlannedSteps \cup {"p1", "p1take"}
    <3>1. /\ req[t].start \in Nat /\ req[t].count \in Nat /\ req[t].start + req[t].count <= MaxBlocks
          /\ blk[t] \in Nat
      BY <1>1, <1>2, <2>2, LocalTypes, Zenon DEF RequestShape
    <3>2. \/ Len(plan[t]) = req[t].count
          \/ (Len(plan[t]) = blk[t] \/ Len(plan[t]) = blk[t] - 1) /\ blk[t] <= req[t].count
      BY <1>1, <1>2, <2>2, Zenon DEF LoopShape, PlanShape
    <3>. QED
      BY ONLY <3>1, <3>2, BoundsAssumption, SMTT(30)
  <2>. QED
    BY <1>2, <2>1, <2>2, Zenon
<1>. QED
  BY ONLY <1>3, <1>4, BoundsAssumption

\* A pending entry holds its reference, and what is held is in the plan.
LEMMA EntryRange ==
  ASSUME TypeInv, NEW t \in Threads
  PROVE  /\ Held(t) \subseteq DOMAIN plan[t] /\ Points(t) \subseteq DOMAIN plan[t]
         /\ Misses(t) \subseteq DOMAIN plan[t] /\ Pending(t) \subseteq Misses(t)
         /\ PointersRight(t) => Pending(t) \subseteq Held(t)
<1>1. Held(t) \subseteq DOMAIN plan[t] /\ Misses(t) \subseteq DOMAIN plan[t] /\ Pending(t) \subseteq Misses(t)
  BY Zenon DEF Held, Misses, Pending
<1>2. Points(t) \subseteq DOMAIN plan[t]
  BY <1>1, LoopEntry, Zenon DEF Points
<1>3. ASSUME PointersRight(t), NEW j \in Pending(t)
      PROVE  j \in Held(t)
  <2>1. CASE pc[t] = "p1take"
    <3>1. j \in DOMAIN plan[t] /\ j # blk[t]
      BY <1>1, <1>3, <2>1, Zenon DEF Misses, PointersRight
    <3>2. j < blk[t]
      <4>1. Len(plan[t]) = blk[t] /\ DOMAIN plan[t] = 1 .. Len(plan[t]) /\ blk[t] \in Nat
        BY <2>1, Parts, LocalTypes, PlanRange, Zenon DEF PlanShape
      <4>. QED
        BY ONLY <3>1, <4>1
    <3>. QED
      BY <2>1, <3>1, <3>2, Zenon DEF Held
  <2>2. CASE pc[t] # "p1take"
    BY <1>1, <1>3, <2>2, Zenon DEF Held, Pending
  <2>. QED
    BY <2>1, <2>2, Zenon
<1>. QED
  BY <1>1, <1>2, <1>3, Zenon

\* A thread whose locals stay the same holds what it held.
LEMMA OtherEntries ==
  ASSUME NEW u \in Threads, SameLocals(u)
  PROVE  Held(u)' = Held(u) /\ Points(u)' = Points(u) /\ Pending(u)' = Pending(u)
<1>1. Misses(u)' = Misses(u)
  BY Zenon DEF SameLocals, Misses
<1>2. Held(u)' = Held(u) /\ Pending(u)' = Pending(u)
  BY <1>1, Zenon DEF SameLocals, Held, Pending
<1>. QED
  BY <1>2, Zenon DEF SameLocals, Points

-----------------------------------------------------------------------------
(* Counting the holders of a MasterInfo. *)

\* The holders of a MasterInfo are finitely many, so they can be counted.
LEMMA HolderSets ==
  ASSUME CountingLaws, NEW m
  PROVE  /\ IsFiniteSet(MappedTo(m)) /\ IsFiniteSet(HeldBy(m))
         /\ Cardinality(MappedTo(m)) \in Nat /\ Cardinality(HeldBy(m)) \in Nat
         /\ MappedTo(m) # {} => Cardinality(MappedTo(m)) > 0
         /\ HeldBy(m) # {} => Cardinality(HeldBy(m)) > 0
         /\ \A u \in Threads, i \in 1 .. MaxBlocks :
              <<u, i>> \in HeldBy(m) <=> i \in Held(u) /\ plan[u][i].info = m
<1>1. IsFiniteSet(MappedTo(m)) /\ IsFiniteSet(HeldBy(m))
  <2>1. MappedTo(m) \in SUBSET (Paths \X Blocks) /\ HeldBy(m) \in SUBSET (Threads \X (1 .. MaxBlocks))
    BY Zenon DEF MappedTo, HeldBy
  <2>. QED
    BY <2>1, Zenon DEF CountingLaws
<1>2. /\ Cardinality(MappedTo(m)) \in Nat /\ Cardinality(HeldBy(m)) \in Nat
      /\ MappedTo(m) # {} => Cardinality(MappedTo(m)) # 0
      /\ HeldBy(m) # {} => Cardinality(HeldBy(m)) # 0
  BY <1>1, Zenon DEF CountingLaws
<1>3. \A u \in Threads, i \in 1 .. MaxBlocks :
              <<u, i>> \in HeldBy(m) <=> i \in Held(u) /\ plan[u][i].info = m
  BY DEF HeldBy
<1>. QED
  BY <1>1, <1>2, <1>3

\* Nobody else holds a pending MasterInfo.
LEMMA PendingAlone ==
  ASSUME CountingLaws, TypeInv, RefInv, NEW t \in Threads, NEW j \in Pending(t)
  PROVE  /\ j \in 1 .. MaxBlocks /\ j \in Held(t) /\ plan[t][j].info \in InfoIds
         /\ MappedTo(plan[t][j].info) = {} /\ HeldBy(plan[t][j].info) = {<<t, j>>}
         /\ \A u \in Threads : \A i \in Held(u) :
              plan[u][i].info = plan[t][j].info => u = t /\ i = j
<1>. DEFINE m == plan[t][j].info
<1>1. /\ j \in Held(t) /\ j \in DOMAIN plan[t] /\ j \in 1 .. MaxBlocks /\ info[m].refcount = 1 /\ m \in InfoIds
  <2>1. j \in DOMAIN plan[t] /\ j \in Held(t) /\ info[m].refcount = 1
    BY RefParts, EntryRange, Zenon DEF PointersRight
  <2>2. m \in InfoIds
    BY <2>1, Parts, PlanTypes, Zenon
  <2>. QED
    BY <2>1, <2>2, PlanRange, Zenon
<1>. HIDE DEF m
<1>2. <<t, j>> \in HeldBy(m)
  BY <1>1, HolderSets, Zenon DEF m
<1>3. Cardinality(MappedTo(m)) + Cardinality(HeldBy(m)) = 1
  BY <1>1, RefParts, Zenon DEF RefcountExact
<1>4. Cardinality(MappedTo(m)) = 0 /\ Cardinality(HeldBy(m)) = 1
  BY <1>2, <1>3, HolderSets
<1>5. MappedTo(m) = {} /\ \E x : HeldBy(m) = {x}
  BY <1>4, HolderSets, Zenon DEF CountingLaws
<1>6. HeldBy(m) = {<<t, j>>}
  BY <1>2, <1>5, Zenon
<1>7. ASSUME NEW u \in Threads, NEW i \in Held(u), plan[u][i].info = m
      PROVE  u = t /\ i = j
  <2>1. i \in 1 .. MaxBlocks
    BY EntryRange, PlanRange, Zenon
  <2>2. <<u, i>> \in HeldBy(m)
    BY <1>7, <2>1, HolderSets, Zenon
  <2>. QED
    BY <1>6, <2>2
<1>. QED
  BY <1>1, <1>5, <1>6, <1>7, Zenon DEF m

-----------------------------------------------------------------------------
(* The MasterInfos that the entries of a plan point to. *)

\* The pointers of all threads are to MasterInfos, and the pending ones of one
\* thread to none that is published.
LEMMA PointerTypes ==
  ASSUME TypeInv, RefInv, NEW t \in Threads
  PROVE  /\ \A j \in Points(t) : plan[t][j].info \in InfoIds
         /\ \A j \in Pending(t) : /\ plan[t][j].info \in InfoIds /\ ~Published(plan[t][j].info)
                                  /\ info[plan[t][j].info].hash # NULL
<1>1. \A j \in Points(t) \cup Pending(t) : plan[t][j].info \in InfoIds
  BY EntryRange, Parts, PlanTypes, Zenon
<1>2. \A j \in Pending(t) : ~Published(plan[t][j].info) /\ info[plan[t][j].info].refcount = 1
  BY RefParts, Zenon DEF PointersRight
<1>3. \A m \in InfoIds : info[m].refcount = 1 => info[m].hash # NULL
  BY RefParts DEF RefcountExact, Live
<1>. QED
  BY <1>1, <1>2, <1>3, Zenon

-----------------------------------------------------------------------------
(* Dropping a reference. *)

\* A published MasterInfo is live, under one digest.
LEMMA PublishedLive ==
  ASSUME TypeInv, RefInv, NEW m \in InfoIds, Published(m)
  PROVE  /\ info[m].hash \in Hashes /\ info[m].refcount \in Int /\ info[m].refcount > 0
         /\ \A h \in Hashes : hash_to_master[h] = m <=> h = info[m].hash
<1>1. TypeOK /\ RefcountExact /\ OneInfoPerHash /\ m # NULL
  BY NullAssumption, Zenon DEF TypeInv, RefInv
<1>2. info[m].hash \in Hashes /\ \A h \in Hashes : hash_to_master[h] = m <=> h = info[m].hash
  BY <1>1, Zenon DEF Published, OneInfoPerHash
<1>3. info[m].refcount > 0
  BY <1>1, <1>2, NullAssumption, Zenon DEF RefcountExact, Live
<1>. QED
  BY <1>1, <1>2, <1>3, InfoTypes, Zenon

\* What DropReference does to the counts and to the index.
LEMMA DropEffect ==
  ASSUME TypeInv, RefInv, NEW t \in Threads, NEW m \in InfoIds, Published(m), DropReference(t, m)
  PROVE  /\ \A n \in InfoIds \ {m} : info'[n] = info[n]
         /\ info'[m].refcount = info[m].refcount - 1
         /\ info[m].refcount = 1 => info'[m].hash = NULL
         /\ info[m].refcount # 1 => info'[m].hash = info[m].hash
         /\ \A h \in Hashes : hash_to_master'[h] =
              IF info[m].refcount = 1 /\ h = info[m].hash THEN NULL ELSE hash_to_master[h]
<1>1. /\ info \in [InfoIds -> MasterInfo] /\ info[m] \in MasterInfo
      /\ hash_to_master \in [Hashes -> InfoIds \cup {NULL}] /\ info[m].hash \in Hashes
  BY PublishedLive, Zenon DEF TypeInv, TypeOK
<1>2. CASE info[m].refcount = 1
  <2>1. /\ info' = [info EXCEPT ![m] = Freed]
        /\ hash_to_master' = [hash_to_master EXCEPT ![info[m].hash] = NULL]
    BY <1>2, Zenon DEF DropReference
  <2>2. Freed.hash = NULL /\ Freed.refcount = info[m].refcount - 1
    BY <1>2 DEF Freed
  <2>. QED
    BY <1>1, <1>2, <2>1, <2>2, Zenon
<1>3. CASE info[m].refcount # 1
  <2>1. info' = [info EXCEPT ![m].refcount = @ - 1] /\ hash_to_master' = hash_to_master
    BY <1>3, Zenon DEF DropReference
  <2>. QED
    BY <1>1, <1>3, <2>1, Zenon DEF MasterInfo
<1>. QED
  BY <1>2, <1>3, Zenon

-----------------------------------------------------------------------------
(* The entries of a plan from one step of a loop to the next. *)

\* The plan grows by one entry.
LEMMA PlanGrows ==
  ASSUME TypeInv, NEW t \in Threads, pc[t] = "p1", NEW e, plan' = [plan EXCEPT ![t] = Append(@, e)]
  PROVE  /\ DOMAIN plan[t] = 1 .. blk[t] - 1 /\ DOMAIN plan'[t] = 1 .. blk[t] /\ blk[t] \in 1 .. MaxBlocks
         /\ plan'[t][blk[t]] = e /\ \A j \in DOMAIN plan[t] : plan'[t][j] = plan[t][j]
         /\ Held(t) = DOMAIN plan[t] /\ Points(t) = DOMAIN plan[t] /\ Pending(t) = Misses(t)
         /\ Misses(t)' = IF e.kind = "MISS" THEN Misses(t) \cup {blk[t]} ELSE Misses(t)
<1>1. /\ TypeOK /\ Len(plan[t]) = blk[t] - 1 /\ blk[t] \in Nat /\ plan[t] \in Seq(PlanEntry)
      /\ blk[t] > 0 /\ blk[t] <= req[t].count
      /\ req[t].start \in Nat /\ req[t].count \in Nat /\ req[t].start + req[t].count <= MaxBlocks
  BY Parts, LocalTypes, Zenon DEF PlanShape, LoopShape, RequestShape, LoopSteps
<1>2. plan'[t] = Append(plan[t], e)
  BY <1>1, Zenon DEF TypeOK
<1>3. /\ DOMAIN plan[t] = 1 .. blk[t] - 1 /\ DOMAIN plan'[t] = 1 .. blk[t] /\ blk[t] \in 1 .. MaxBlocks
      /\ plan'[t][blk[t]] = e /\ \A j \in DOMAIN plan[t] : plan'[t][j] = plan[t][j]
  BY ONLY <1>1, <1>2, BoundsAssumption, SMTT(30)
<1>4. Held(t) = DOMAIN plan[t] /\ Points(t) = DOMAIN plan[t] /\ Pending(t) = Misses(t)
  BY DEF Held, Points, Pending
<1>5. Misses(t)' = IF e.kind = "MISS" THEN Misses(t) \cup {blk[t]} ELSE Misses(t)
  <2>1. DOMAIN plan'[t] = DOMAIN plan[t] \cup {blk[t]}
    BY ONLY <1>1, <1>3
  <2>. QED
    BY <1>3, <2>1, Zenon DEF Misses
<1>. QED
  BY <1>3, <1>4, <1>5, Zenon

\* What a turn of the loop of publish_plan does to the references of its plan.
LEMMA PublishEntries ==
  ASSUME TypeInv, NEW t \in Threads, pc[t] = "publish", NextBlock(t, "publish", "map"),
         Misses(t)' = Misses(t), DOMAIN plan'[t] = DOMAIN plan[t]
  PROVE  /\ pc'[t] # "p1take" /\ Held(t) = DOMAIN plan[t] /\ Held(t)' = Held(t)
         /\ Points(t) = Held(t) /\ Points(t)' = Held(t)
         /\ blk[t] \in Held(t) /\ blk[t] \in 1 .. MaxBlocks /\ plan[t][blk[t]].info \in InfoIds
         /\ blk[t] \in Misses(t) <=> blk[t] \in Pending(t)
         /\ Pending(t)' = Pending(t) \ {blk[t]}
<1>1. /\ TypeOK /\ blk[t] \in DOMAIN plan[t] /\ DOMAIN plan[t] = 1 .. Len(plan[t])
      /\ blk[t] \in 1 .. MaxBlocks /\ plan[t][blk[t]].info \in InfoIds
      /\ Len(plan[t]) = req[t].count /\ blk[t] \in Nat /\ req[t].count \in Nat
  BY Parts, LocalTypes, LoopEntry, PlanRange, Zenon DEF PlanShape, PlannedSteps, AllocatedSteps
<1>2. \/ blk[t] < req[t].count /\ blk'[t] = blk[t] + 1 /\ pc'[t] = "publish"
      \/ ~(blk[t] < req[t].count) /\ blk'[t] = 1 /\ pc'[t] = "map"
  BY <1>1, LoopStep, StepNames, Zenon
<1>3. /\ Held(t) = DOMAIN plan[t]
      /\ pc'[t] = "publish" => Held(t)' = DOMAIN plan[t]
      /\ pc'[t] = "map" => Held(t)' = {j \in DOMAIN plan[t] : j >= blk'[t]}
  BY ZenonT(30) DEF Held
<1>4. Held(t)' = Held(t)
  <2>1. \A j \in DOMAIN plan[t] : j >= 1
    BY ONLY <1>1
  <2>. QED
    BY <1>2, <1>3, <2>1, Zenon
<1>5. /\ Pending(t) = {j \in Misses(t) : j >= blk[t]} /\ Misses(t) \subseteq DOMAIN plan[t]
      /\ pc'[t] = "publish" => Pending(t)' = {j \in Misses(t) : j >= blk'[t]}
      /\ pc'[t] = "map" => Pending(t)' = {}
  BY EntryRange, ZenonT(30) DEF Pending
<1>6. Pending(t)' = Pending(t) \ {blk[t]} /\ (blk[t] \in Misses(t) <=> blk[t] \in Pending(t))
  <2>1. /\ blk[t] >= blk[t] /\ \A j \in DOMAIN plan[t] : j >= blk[t] + 1 <=> j >= blk[t] /\ j # blk[t]
        /\ ~(blk[t] < req[t].count) => \A j \in DOMAIN plan[t] : j >= blk[t] <=> j = blk[t]
    BY ONLY <1>1, RestOfRange, Zenon
  <2>2. CASE blk[t] < req[t].count
    BY <1>1, <1>2, <1>5, <2>1, <2>2, ZenonT(30)
  <2>3. CASE ~(blk[t] < req[t].count)
    BY <1>1, <1>2, <1>5, <2>1, <2>3, ZenonT(30)
  <2>. QED
    BY <2>2, <2>3, Zenon
<1>7. Points(t) = Held(t) /\ Points(t)' = Held(t)'
  BY <1>2, Zenon DEF Points
<1>. QED
  BY <1>1, <1>2, <1>3, <1>4, <1>6, <1>7, Zenon

=============================================================================
