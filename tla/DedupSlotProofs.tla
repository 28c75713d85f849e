-------------------------- MODULE DedupSlotProofs --------------------------
(***************************************************************************)
(* The slots of masterFILE: the invariant that makes OneOwnerPerSlot,      *)
(* NoDoubleAllocation and PublishedOnDisk inductive, and the steps that    *)
(* keep it.  A failed write before a remount breaks them (the append point *)
(* falls behind the free list), so it is one or the other.                 *)
(***************************************************************************)
EXTENDS DedupTypeProofs

-----------------------------------------------------------------------------
(* The invariant. *)

NoRepeats(q) == \A i, j \in DOMAIN q : q[i] = q[j] => i = j

InIndex == {h \in Hashes : hash_to_master[h] # NULL}
IndexSlot(h) == info[hash_to_master[h]].masterBlockIndex

\* The slots that the free list, the index, a write or a release holds.
Kinds == {"free", "index", "write", "release"}
Holders == Threads \cup {NULL}
Slots(kind, u) ==
  CASE kind = "free" /\ u = NULL -> Range(free_block_list)
    [] kind = "index" /\ u = NULL -> {IndexSlot(h) : h \in InIndex}
    [] kind = "write" /\ u \in Threads -> {out[u][i] : i \in Reserved(u)}
    [] kind = "release" /\ u \in Threads -> Range(rel[u])
    [] OTHER -> {}

\* Nothing is held twice, neither by two holders nor by one, and the slots
\* held are those below the append point.
Unshared ==
  \A kind, other \in Kinds, u, v \in Holders :
    \A s \in Slots(kind, u) : s \in Slots(other, v) => kind = other /\ u = v
OneSlotEach == \A g, h \in InIndex : IndexSlot(g) = IndexSlot(h) => g = h
Unrepeated ==
  /\ NoRepeats(free_block_list)
  /\ \A t \in Threads : NoRepeats(out[t]) /\ NoRepeats(rel[t])
  /\ OneSlotEach
Complete ==
  /\ \A kind \in Kinds, u \in Holders : Slots(kind, u) \subseteq 0 .. nextBlockIndex - 1
  /\ \A s \in 0 .. nextBlockIndex - 1 : \E kind \in Kinds, u \in Holders : s \in Slots(kind, u)

\* The MISSes of thread t and the positions of master_blks[] correspond, and
\* a pending MasterInfo has the slot of its block.
SlotsPlaced(t) ==
  /\ \A i, j \in Misses(t) : plan[t][i].rank = plan[t][j].rank => i = j
  /\ \A k \in 1 .. miss_count[t] : \E j \in Misses(t) : plan[t][j].rank = k
  /\ pc[t] \in AllocatedSteps =>
       \A j \in Pending(t) : info[plan[t][j].info].masterBlockIndex = MasterBlk(t, j)

\* A slot that holds a content of digest h, and the blocks that a write has
\* flushed and not published yet.
OnDisk(s, h) ==
  s < Len(masterFILE) /\ masterFILE[s + 1] # NULL /\ HashOf[masterFILE[s + 1]] = h
Flushed(t) ==
  CASE pc[t] = "flush" -> Misses(t) \ Unflushed(t)
    [] pc[t] \in {"p3lock", "publish"} -> Pending(t)
    [] OTHER -> {}

\* masterFILE ends at the append point but for what is being flushed.
WrittenBelow ==
  /\ Len(masterFILE) <= nextBlockIndex
  /\ ~WithIOError =>
       \A s \in Len(masterFILE) .. nextBlockIndex - 1 :
         \E t \in Threads : pc[t] = "flush" /\ \E j \in Unflushed(t) : MasterBlk(t, j) = s

Placed == \A t \in Threads : SlotsPlaced(t)
Owned == Unshared /\ Unrepeated /\ Complete
Stored ==
  /\ PublishedOnDisk
  /\ \A t \in Threads : \A j \in Flushed(t) : OnDisk(MasterBlk(t, j), HashOf[req[t].buf[j]])
  /\ WrittenBelow

SlotInv == Placed /\ Owned /\ Stored

-----------------------------------------------------------------------------
(* The slots that the MasterInfos name. *)

\* A step writes the slot of a MasterInfo only if it is free, or a pending
\* one of its own, or one that leaves the index.
MayMove(t, m) ==
  \/ ~Live(m)
  \/ \E j \in Pending(t) : plan[t][j].info = m
  \/ Published(m) /\ \A h \in Hashes : hash_to_master'[h] # m

\* The MasterInfos that a thread other than t or the index has keep theirs.
OthersKept(t) ==
  \A u \in Threads \ {t} : \A j \in Pending(u) :
    info'[plan[u][j].info].masterBlockIndex = info[plan[u][j].info].masterBlockIndex
IndexKept ==
  \A h \in Hashes : hash_to_master[h] # NULL /\ hash_to_master'[h] = hash_to_master[h] =>
    info'[hash_to_master[h]].masterBlockIndex = info[hash_to_master[h]].masterBlockIndex

\* release_block moves no slot but that of the MasterInfo it frees.
LEMMA DropMoves ==
  ASSUME TypeInv, RefInv, NEW t \in Threads, NEW m \in InfoIds, Published(m), DropReference(t, m), NEW n \in InfoIds
  PROVE  info'[n].masterBlockIndex = info[n].masterBlockIndex \/ MayMove(t, n)
<1>1. info \in [InfoIds -> MasterInfo] /\ hash_to_master \in [Hashes -> InfoIds \cup {NULL}]
  BY Zenon DEF TypeInv, TypeOK
<1>2. CASE n # m
  <2>1. info'[n] = info[n]
    BY <1>2, DropEffect, ZenonT(30)
  <2>. QED
    BY <2>1, Zenon
<1>3. CASE n = m /\ info[m].refcount # 1
  <2>1. info' = [info EXCEPT ![m].refcount = @ - 1]
    BY <1>3, Zenon DEF DropReference
  <2>. QED
    BY <1>1, <1>3, <2>1 DEF MasterInfo
<1>4. CASE n = m /\ info[m].refcount = 1
  <2>1. /\ \A h \in Hashes : hash_to_master[h] = m <=> h = info[m].hash
        /\ \A h \in Hashes : h = info[m].hash => hash_to_master'[h] = NULL
        /\ \A h \in Hashes : h # info[m].hash => hash_to_master'[h] = hash_to_master[h]
    <3>1. \A h \in Hashes : hash_to_master'[h] =
            IF info[m].refcount = 1 /\ h = info[m].hash THEN NULL ELSE hash_to_master[h]
      BY DropEffect, Zenon
    <3>2. \A h \in Hashes : hash_to_master[h] = m <=> h = info[m].hash
      BY PublishedLive, Zenon
    <3>. QED
      BY <1>4, <3>1, <3>2, Zenon
  <2>2. m # NULL
    BY NullAssumption, Zenon
  <2>. QED
    BY <1>4, <2>1, <2>2, Zenon DEF MayMove
<1>. QED
  BY <1>2, <1>3, <1>4, Zenon

\* What the three loops drop is in the index.
LEMMA DropsPublished ==
  ASSUME TypeInv, RefInv, NEW t \in Threads
  PROVE  /\ pc[t] \in {"map", "remove"} /\ file_to_master[FileBlock(t)] # NULL =>
              file_to_master[FileBlock(t)] \in InfoIds /\ Published(file_to_master[FileBlock(t)])
         /\ pc[t] = "rbhits" /\ Reverts(t) =>
              plan[t][blk[t]].info \in InfoIds /\ Published(plan[t][blk[t]].info)
<1>1. TypeOK /\ OneInfoPerHash /\ PointersRight(t)
  BY Parts, RefParts, Zenon
<1>2. ASSUME pc[t] \in {"map", "remove"}, file_to_master[FileBlock(t)] # NULL
      PROVE  file_to_master[FileBlock(t)] \in InfoIds /\ Published(file_to_master[FileBlock(t)])
  <2>1. FileBlock(t) \in Paths \X Blocks /\ file_to_master[FileBlock(t)] \in InfoIds \cup {NULL}
    BY <1>1, <1>2, FileBlockType, Zenon DEF TypeOK
  <2>. QED
    BY <1>1, <1>2, <2>1, Zenon DEF OneInfoPerHash, Published
<1>3. ASSUME pc[t] = "rbhits", Reverts(t)
      PROVE  plan[t][blk[t]].info \in InfoIds /\ Published(plan[t][blk[t]].info)
  <2>1. /\ blk[t] \in DOMAIN plan[t] /\ plan[t][blk[t]].info \in InfoIds /\ blk[t] \in Nat
        /\ plan[t][blk[t]].kind = "HIT"
    BY <1>1, <1>3, LoopEntry, LocalTypes, Zenon DEF Reverts
  <2>2. blk[t] \in Held(t)
    <3>1. blk[t] >= blk[t]
      BY <2>1
    <3>. QED
      BY <1>3, <2>1, <3>1, Zenon DEF Held
  <2>3. blk[t] \in Points(t) /\ blk[t] \notin Pending(t)
    <3>1. "HIT" # "MISS"
      OBVIOUS
    <3>2. blk[t] \notin Misses(t)
      BY <2>1, <3>1, Zenon DEF Misses
    <3>. QED
      BY <2>2, <3>2, EntryRange, Zenon DEF Points
  <2>. QED
    BY <1>1, <2>1, <2>3, Zenon DEF PointersRight
<1>. QED
  BY <1>2, <1>3, Zenon

\* publish_plan moves no slot but that of a pending MasterInfo it gives up.
LEMMA PublishMoves ==
  ASSUME CountingLaws, TypeInv, RefInv, NEW t \in Threads, PublishBlock(t), NEW n \in InfoIds
  PROVE  info'[n].masterBlockIndex = info[n].masterBlockIndex \/ MayMove(t, n)
<1>. DEFINE m == plan[t][blk[t]].info
            w == Winner(info[m].hash)
<1>1. /\ info \in [InfoIds -> MasterInfo] /\ hash_to_master \in [Hashes -> InfoIds \cup {NULL}]
      /\ pc[t] = "publish" /\ blk[t] \in DOMAIN plan[t] /\ m \in InfoIds /\ blk[t] \in Nat
  <2>1. TypeOK /\ pc[t] = "publish"
    BY Zenon DEF PublishBlock, TypeInv
  <2>. QED
    BY <2>1, LoopEntry, LocalTypes, Zenon DEF TypeOK
<1>2. CASE info' = info
  BY <1>2, Zenon
<1>3. CASE /\ plan[t][blk[t]].kind = "MISS" /\ w # NULL
           /\ info' = [info EXCEPT ![w].refcount = @ + 1, ![m] = Freed]
  <2>1. w \in InfoIds
    BY <1>1, <1>3, Zenon DEF Winner
  <2>2. CASE n # m
    <3>1. info'[n] = info[n] \/ (n = w /\ info'[n] = [info[n] EXCEPT !.refcount = @ + 1])
      BY <1>1, <1>3, <2>1, <2>2, Zenon
    <3>2. info[n] \in MasterInfo
      BY <1>1, Zenon
    <3>. QED
      BY <3>1, <3>2 DEF MasterInfo
  <2>3. CASE n = m
    <3>1. blk[t] >= blk[t]
      BY <1>1
    <3>2. blk[t] \in Pending(t)
      BY <1>1, <1>3, <3>1, Zenon DEF Pending, Misses
    <3>. QED
      BY <2>3, <3>2, Zenon DEF MayMove
  <2>. QED
    BY <2>2, <2>3, Zenon
<1>. QED
  BY <1>2, <1>3, Zenon DEF PublishBlock

\* Taking a reference moves no slot.
LEMMA TakeMoves ==
  ASSUME TypeInv, NEW t \in Threads, P1Take(t), NEW n \in InfoIds
  PROVE  info'[n].masterBlockIndex = info[n].masterBlockIndex
<1>1. PICK m \in InfoIds : m = plan[t][blk[t]].info
  BY LoopEntry, Zenon DEF P1Take
<1>2. info' = [info EXCEPT ![m].refcount = @ + 1] /\ info \in [InfoIds -> MasterInfo]
  BY <1>1, Zenon DEF P1Take, TypeInv, TypeOK
<1>3. info'[n] = info[n] \/ info'[n] = [info[n] EXCEPT !.refcount = @ + 1]
  BY <1>2, Zenon
<1>4. info[n] \in MasterInfo
  BY <1>2, Zenon
<1>. QED
  BY <1>3, <1>4 DEF MasterInfo

\* The slot of a MasterInfo changes only in the hands of the thread that owns it.
LEMMA StepMoves ==
  ASSUME CountingLaws, TypeInv, RefInv, NEW t \in Threads, Start(t) \/ Step(t), NEW n \in InfoIds
  PROVE  info'[n].masterBlockIndex = info[n].masterBlockIndex \/ MayMove(t, n)
<1>1. info \in [InfoIds -> MasterInfo] /\ TypeOK
  BY Zenon DEF TypeInv, TypeOK
<1>2. CASE info' = info
  BY <1>2, Zenon
<1>3. CASE P1Take(t)
  BY <1>3, TakeMoves, Zenon
<1>4. CASE P1Miss(t)
  <2>1. \E m \in InfoIds : ~Live(m) /\ info' = [info EXCEPT ![m] = [hash |-> BlockHash(t), masterBlockIndex |-> 0, refcount |-> 1]]
    BY <1>4, Zenon DEF P1Miss
  <2>. QED
    BY <1>1, <2>1, Zenon DEF MayMove
<1>5. CASE AppendSlots(t)
  <2>1. \E own : /\ own = {j \in Misses(t) : plan[t][j].info = n} /\ (own = {} => info'[n] = info[n])
    BY <1>5, Zenon DEF AppendSlots
  <2>2. Pending(t) = Misses(t)
    <3>1. pc[t] = "append"
      BY <1>5, Zenon DEF AppendSlots
    <3>. QED
      BY <3>1 DEF Pending
  <2>. QED
    BY <2>1, <2>2, Zenon DEF MayMove
<1>6. CASE RbMisses(t)
  <2>1. (\E j \in Misses(t) : plan[t][j].info = n) \/ info'[n] = info[n]
    BY <1>6, Zenon DEF RbMisses
  <2>2. Pending(t) = Misses(t)
    BY <1>6 DEF RbMisses, Pending
  <2>. QED
    BY <2>1, <2>2, Zenon DEF MayMove
<1>7. CASE PublishBlock(t)
  BY <1>7, PublishMoves, Zenon
<1>8. CASE MapBlock(t)
  <2>1. info' = info \/ (file_to_master[FileBlock(t)] # NULL /\ DropReference(t, file_to_master[FileBlock(t)]))
    BY <1>8, Zenon DEF MapBlock, Overwritten
  <2>2. pc[t] = "map"
    BY <1>8, Zenon DEF MapBlock
  <2>. QED
    BY <1>2, <2>1, <2>2, DropsPublished, DropMoves, Zenon
<1>9. CASE RbHit(t)
  <2>1. info' = info \/ (Reverts(t) /\ DropReference(t, plan[t][blk[t]].info))
    BY <1>9, Zenon DEF RbHit
  <2>2. pc[t] = "rbhits"
    BY <1>9, Zenon DEF RbHit
  <2>. QED
    BY <1>2, <2>1, <2>2, DropsPublished, DropMoves, Zenon
<1>10. CASE RmBlock(t)
  <2>1. info' = info \/ (file_to_master[FileBlock(t)] # NULL /\ DropReference(t, file_to_master[FileBlock(t)]))
    BY <1>10, Zenon DEF RmBlock
  <2>2. pc[t] = "remove"
    BY <1>10, Zenon DEF RmBlock
  <2>. QED
    BY <1>2, <2>1, <2>2, DropsPublished, DropMoves, Zenon
<1>11. \/ info' = info \/ P1Take(t) \/ P1Miss(t) \/ AppendSlots(t) \/ RbMisses(t) \/ PublishBlock(t)
       \/ MapBlock(t) \/ RbHit(t) \/ RmBlock(t)
  BY Zenon DEF Start, StartWrite, StartUnlink, StartTruncate, Step, P1Lock, P1Hit, P1Unlock, Drain, FlushRun,
     FlushFail, P3Lock, P3Unlock, P3Release, RbLock, RbUnlock, RbRelease, RmLock, RmUnlock, RmRelease, SetSize, index
<1>. QED
  BY <1>2, <1>3, <1>4, <1>5, <1>6, <1>7, <1>8, <1>9, <1>10, <1>11, ZenonT(30)

\* A step leaves the slots of the other threads and of the index in place.
LEMMA SlotsKept ==
  ASSUME CountingLaws, TypeInv, RefInv, NEW t \in Threads, Start(t) \/ Step(t)
  PROVE  OthersKept(t) /\ IndexKept
<1>1. \A n \in InfoIds : info'[n].masterBlockIndex = info[n].masterBlockIndex \/ MayMove(t, n)
  BY StepMoves, Zenon
<1>2. ASSUME NEW u \in Threads \ {t}, NEW j \in Pending(u)
      PROVE  info'[plan[u][j].info].masterBlockIndex = info[plan[u][j].info].masterBlockIndex
  <2>1. /\ plan[u][j].info \in InfoIds /\ ~Published(plan[u][j].info)
        /\ info[plan[u][j].info].hash # NULL
    BY PointerTypes, Zenon
  <2>2. \A i \in Pending(t) : plan[t][i].info # plan[u][j].info
    <3>1. \A i \in Pending(t) : i \in Held(t)
      BY EntryRange, RefParts, Zenon
    <3>. QED
      BY <3>1, PendingAlone, Zenon
  <2>3. ~MayMove(t, plan[u][j].info)
    BY <2>1, <2>2, Zenon DEF MayMove, Live
  <2>. QED
    BY <1>1, <2>1, <2>3, Zenon
<1>3. ASSUME NEW h \in Hashes, hash_to_master[h] # NULL, hash_to_master'[h] = hash_to_master[h]
      PROVE  info'[hash_to_master[h]].masterBlockIndex = info[hash_to_master[h]].masterBlockIndex
  <2>1. hash_to_master[h] \in InfoIds
    BY <1>3, Zenon DEF TypeInv, TypeOK
  <2>2. Published(hash_to_master[h])
    BY Zenon DEF Published
  <2>3. info[hash_to_master[h]].hash \in Hashes
    BY <2>1, <2>2, PublishedLive, Zenon
  <2>4. \A i \in Pending(t) : plan[t][i].info # hash_to_master[h]
    BY <2>2, PointerTypes, Zenon
  <2>5. ~MayMove(t, hash_to_master[h])
    BY <1>3, <2>3, <2>4, NullAssumption, ZenonT(30) DEF MayMove, Live
  <2>. QED
    BY <1>1, <2>1, <2>5, Zenon
<1>. QED
  BY <1>2, <1>3, Zenon DEF OthersKept, IndexKept

-----------------------------------------------------------------------------
(* The positions of the slots in master_blks[]. *)

\* The steps that neither plan, nor allocate, nor publish, nor return.
Calm(t) ==
  \/ Start(t) \/ P1Lock(t) \/ P1Take(t) \/ P1Unlock(t) \/ FlushRun(t) \/ FlushFail(t) \/ P3Lock(t)
  \/ MapBlock(t) \/ P3Unlock(t) \/ RbLock(t) \/ RbHit(t) \/ RbUnlock(t) \/ RbRelease(t)
  \/ RmLock(t) \/ RmBlock(t) \/ RmUnlock(t) \/ RmRelease(t)

CalmSteps ==
  {<<"idle", "p1lock">>, <<"idle", "rmlock">>, <<"idle", "setsize">>, <<"p1lock", "p1">>,
   <<"p1take", "p1">>, <<"p1take", "p1unlock">>, <<"p1unlock", "drain">>, <<"p1unlock", "p3lock">>,
   <<"flush", "flush">>, <<"flush", "p3lock">>, <<"flush", "rblock">>, <<"p3lock", "publish">>,
   <<"map", "map">>, <<"map", "p3unlock">>, <<"p3unlock", "p3release">>, <<"rblock", "rbhits">>,
   <<"rbhits", "rbhits">>, <<"rbhits", "rbunlock">>, <<"rbunlock", "rbrelease">>,
   <<"rbrelease", "rbmisses">>, <<"rmlock", "remove">>, <<"remove", "remove">>,
   <<"remove", "rmunlock">>, <<"rmunlock", "rmrelease">>, <<"rmrelease", "setsize">>}

PlacedSteps == {"map", "p3unlock", "p3release"}

\* What the two ends of a calm step have in common.
LEMMA CalmClasses ==
  ASSUME NEW src, NEW dst, <<src, dst>> \in CalmSteps
  PROVE  /\ src # "publish" /\ (src \in PlacedSteps <=> dst \in PlacedSteps)
         /\ dst = "publish" => src = "p3lock"
         /\ dst = "flush" => src = "flush"
         /\ dst = "p3lock" => src \in {"flush", "p1unlock"}
         /\ src = "flush" => dst \in {"flush", "p3lock", "rblock"}
         /\ dst \in AllocatedSteps => src \in AllocatedSteps \/ (src = "p1unlock" /\ dst = "p3lock")
BY DEF CalmSteps, PlacedSteps, AllocatedSteps

\* A calm step changes neither plans nor slots handed out.
LEMMA CalmStep ==
  ASSUME TypeInv, NEW t \in Threads, Calm(t)
  PROVE  /\ plan' = plan /\ miss_count' = miss_count /\ out' = out /\ nextBlockIndex' = nextBlockIndex
         /\ <<pc[t], pc'[t]>> \in CalmSteps
         /\ pc[t] = "p1unlock" /\ pc'[t] = "p3lock" => Misses(t) = {}
<1>1. /\ plan' = plan /\ miss_count' = miss_count /\ out' = out /\ nextBlockIndex' = nextBlockIndex
  BY Zenon DEF Calm, Start, StartWrite, StartUnlink, StartTruncate, P1Lock, P1Take, P1Unlock, FlushRun, FlushFail,
     P3Lock, MapBlock, P3Unlock, RbLock, RbHit, RbUnlock, RbRelease, RmLock, RmBlock, RmUnlock, RmRelease, store
<1>2. TypeOK /\ DOMAIN pc = Threads /\ PlanShape(t)
  BY Parts, Zenon DEF TypeOK
<1>3. <<pc[t], pc'[t]>> \in CalmSteps
  <2>1. CASE P1Lock(t) \/ P3Lock(t) \/ RbLock(t) \/ RmLock(t)
    BY <1>2, <2>1, Zenon DEF P1Lock, P3Lock, RbLock, RmLock, Goto, CalmSteps
  <2>2. CASE P1Unlock(t) \/ P3Unlock(t) \/ RbUnlock(t) \/ RmUnlock(t)
    BY <1>2, <2>2, Zenon DEF P1Unlock, P3Unlock, RbUnlock, RmUnlock, Goto, CalmSteps
  <2>3. CASE RbRelease(t) \/ RmRelease(t)
    BY <1>2, <2>3, Zenon DEF RbRelease, RmRelease, Goto, CalmSteps
  <2>4. CASE FlushRun(t) \/ FlushFail(t)
    BY <1>2, <2>4, Zenon DEF FlushRun, FlushFail, AfterFailure, Goto, CalmSteps
  <2>5. CASE Start(t)
    BY <1>2, <2>5, Zenon DEF Start, StartWrite, StartUnlink, StartTruncate, Arrive, Goto, CalmSteps
  <2>6. CASE P1Take(t)
    BY <1>2, <2>6, Zenon DEF P1Take, NextBlock, Goto, CalmSteps
  <2>7. CASE MapBlock(t)
    BY <1>2, <2>7, Zenon DEF MapBlock, NextBlock, Goto, CalmSteps
  <2>8. CASE RbHit(t)
    BY <1>2, <2>8, Zenon DEF RbHit, NextBlock, Goto, CalmSteps
  <2>9. CASE RmBlock(t)
    BY <1>2, <2>9, Zenon DEF RmBlock, NextBlock, Goto, CalmSteps
  <2>. QED
    BY <2>1, <2>2, <2>3, <2>4, <2>5, <2>6, <2>7, <2>8, <2>9, ZenonT(30) DEF Calm
<1>4. ASSUME pc[t] = "p1unlock", pc'[t] = "p3lock" PROVE Misses(t) = {}
  <2>1. P1Unlock(t)
    BY <1>4, Zenon DEF Calm, Start, StartWrite, StartUnlink, StartTruncate, Arrive, P1Lock, P1Take, FlushRun, FlushFail,
       P3Lock, MapBlock, P3Unlock, RbLock, RbHit, RbUnlock, RbRelease, RmLock, RmBlock, RmUnlock, RmRelease
  <2>2. ~(miss_count[t] > 0)
    <3>1. "drain" # "p3lock"
      OBVIOUS
    <3>. QED
      BY <1>2, <1>4, <2>1, <3>1, Zenon DEF P1Unlock, Goto
  <2>3. 1 .. miss_count[t] = {}
    BY <1>2, <2>2, LocalTypes
  <2>. QED
    BY <1>2, <2>3, Zenon DEF PlanShape
<1>. QED
  BY <1>1, <1>3, <1>4, Zenon

\* The first loop of Passe 3: what a step does to the plan, and its cases.
LEMMA PublishPlan ==
  ASSUME TypeInv, NEW t \in Threads, PublishBlock(t)
  PROVE  /\ pc[t] = "publish" /\ pc'[t] \in {"publish", "map"} /\ blk[t] \in DOMAIN plan[t]
         /\ Misses(t)' = Misses(t) /\ \A j \in Misses(t) : plan'[t][j].rank = plan[t][j].rank
         /\ \A j \in DOMAIN plan[t] \ {blk[t]} : plan'[t][j] = plan[t][j]
         /\ Pending(t)' = Pending(t) \ {blk[t]} /\ (blk[t] \in Misses(t) <=> blk[t] \in Pending(t))
         /\ UNCHANGED <<free_block_list, nextBlockIndex, masterFILE, miss_count, out, req>>
<1>1. /\ TypeOK /\ pc[t] = "publish" /\ NextBlock(t, "publish", "map")
      /\ UNCHANGED <<free_block_list, nextBlockIndex, masterFILE, miss_count, out, req>>
  BY Parts, Zenon DEF PublishBlock, request, store
<1>2. blk[t] \in DOMAIN plan[t]
  BY <1>1, LoopEntry, Zenon
<1>3. /\ DOMAIN plan'[t] = DOMAIN plan[t]
      /\ \A j \in DOMAIN plan[t] \ {blk[t]} : plan'[t][j] = plan[t][j]
      /\ plan'[t][blk[t]].rank = plan[t][blk[t]].rank /\ plan'[t][blk[t]].kind = plan[t][blk[t]].kind
  <2>1. CASE plan' = plan
    BY <2>1, Zenon
  <2>2. CASE \E w : plan' = [plan EXCEPT ![t][blk[t]].info = w]
    <3>1. plan \in [Threads -> Seq(PlanEntry)] /\ plan[t][blk[t]] \in PlanEntry
      BY <1>1, <1>2, PlanTypes, Zenon DEF TypeOK
    <3>2. PICK w : plan' = [plan EXCEPT ![t][blk[t]].info = w]
      BY <2>2, Zenon
    <3>3. plan'[t] = [plan[t] EXCEPT ![blk[t]] = [plan[t][blk[t]] EXCEPT !.info = w]]
      BY <3>1, <3>2, Zenon
    <3>. QED
      BY <1>2, <3>1, <3>3, Zenon DEF PlanEntry
  <2>. QED
    BY <2>1, <2>2, Zenon DEF PublishBlock
<1>4. Misses(t)' = Misses(t)
  BY <1>3, Zenon DEF Misses
<1>5. Pending(t)' = Pending(t) \ {blk[t]} /\ (blk[t] \in Misses(t) <=> blk[t] \in Pending(t))
  BY <1>1, <1>3, <1>4, PublishEntries, Zenon
<1>6. pc'[t] \in {"publish", "map"}
  <2>1. DOMAIN pc = Threads
    BY <1>1, Zenon DEF TypeOK
  <2>. QED
    BY <1>1, <2>1, Zenon DEF NextBlock, Goto
<1>7. \A j \in Misses(t) : plan'[t][j].rank = plan[t][j].rank
  BY <1>3, Zenon DEF Misses
<1>. QED
  BY <1>1, <1>2, <1>3, <1>4, <1>5, <1>6, <1>7, ZenonT(30)

Skipped(t) == blk[t] \notin Pending(t) /\ UNCHANGED <<hash_to_master, info, rel>>
GivesWay(t) ==
  /\ blk[t] \in Pending(t)
  /\ rel' = [rel EXCEPT ![t] = <<MasterBlk(t, blk[t])>> \o @]
  /\ UNCHANGED hash_to_master
Inserted(t) ==
  LET m == plan[t][blk[t]].info IN
  /\ blk[t] \in Pending(t)
  /\ m \in InfoIds /\ info[m].hash \in Hashes /\ hash_to_master[info[m].hash] = NULL
  /\ hash_to_master' = [hash_to_master EXCEPT ![info[m].hash] = m]
  /\ UNCHANGED <<info, rel>>

\* A turn of publish_plan skips a HIT, gives way to another writer or inserts.
LEMMA PublishCases ==
  ASSUME TypeInv, RefInv, NEW t \in Threads, PublishBlock(t)
  PROVE  Skipped(t) \/ GivesWay(t) \/ Inserted(t)
<1>. DEFINE m == plan[t][blk[t]].info
<1>1. /\ pc[t] = "publish" /\ blk[t] \in DOMAIN plan[t] /\ (blk[t] \in Misses(t) <=> blk[t] \in Pending(t))
      /\ TypeOK
  BY Parts, PublishPlan, Zenon
<1>2. CASE plan[t][blk[t]].kind = "HIT"
  <2>1. "HIT" # "MISS"
    OBVIOUS
  <2>. QED
    BY <1>1, <1>2, <2>1, Zenon DEF PublishBlock, Skipped, Misses
<1>3. CASE plan[t][blk[t]].kind = "MISS"
  <2>1. blk[t] \in Pending(t) /\ "HIT" # "MISS"
    BY <1>1, <1>3, Zenon DEF Misses
  <2>2. m \in InfoIds /\ info[m].hash # NULL
    BY <2>1, PointerTypes, Zenon
  <2>3. info[m].hash \in Hashes
    BY <1>1, <2>2, InfoTypes, Zenon
  <2>4. CASE Winner(info[m].hash) # NULL
    BY <1>3, <2>1, <2>4, Zenon DEF PublishBlock, GivesWay
  <2>5. CASE Winner(info[m].hash) = NULL
    <3>1. hash_to_master[info[m].hash] = NULL
      BY <2>3, <2>5, Zenon DEF Winner
    <3>2. hash_to_master' = [hash_to_master EXCEPT ![info[m].hash] = m] /\ info' = info /\ rel' = rel
      BY <1>3, <2>1, <2>5, Zenon DEF PublishBlock
    <3>. QED
      BY <2>1, <2>2, <2>3, <3>1, <3>2, Zenon DEF Inserted
  <2>. QED
    BY <2>4, <2>5, Zenon
<1>. QED
  BY <1>2, <1>3, Zenon DEF PublishBlock

\* Every step keeps Placed: ranks and positions of master_blks[] correspond.
LEMMA NextPlaced ==
  ASSUME MinMaxLaws, CountingLaws, TypeInv, RefInv, Placed
  PROVE  \A t \in Threads : Start(t) \/ Step(t) => Placed'
\* A thread whose plan keeps its MISSes, and that allocates nothing.
<1>KeepsPlaces.
    ASSUME NEW u \in Threads, SlotsPlaced(u), Misses(u)' = Misses(u), miss_count'[u] = miss_count[u],
           \A j \in Misses(u) : plan'[u][j].rank = plan[u][j].rank,
           Pending(u)' \subseteq Pending(u), Pending(u) \subseteq Misses(u),
           pc'[u] \in AllocatedSteps /\ Pending(u)' # {} =>
             /\ pc[u] \in AllocatedSteps /\ out'[u] = out[u]
             /\ \A j \in Pending(u)' : /\ plan'[u][j].info = plan[u][j].info
                                       /\ info'[plan[u][j].info].masterBlockIndex = info[plan[u][j].info].masterBlockIndex
    PROVE  SlotsPlaced(u)'
  <2> USE <1>KeepsPlaces
  <2>0. /\ \A i, j \in Misses(u) : plan[u][i].rank = plan[u][j].rank => i = j
        /\ \A k \in 1 .. miss_count[u] : \E j \in Misses(u) : plan[u][j].rank = k
    BY Zenon DEF SlotsPlaced
  <2>1. \A i, j \in Misses(u)' : plan'[u][i].rank = plan'[u][j].rank => i = j
    BY <2>0
  <2>3. \A k \in 1 .. miss_count'[u] : \E j \in Misses(u)' : plan'[u][j].rank = k
    BY <2>0
  <2>2. ASSUME pc'[u] \in AllocatedSteps, NEW j \in Pending(u)'
        PROVE  info'[plan'[u][j].info].masterBlockIndex = out'[u][plan'[u][j].rank]
    <3>1. /\ j \in Pending(u) /\ j \in Misses(u) /\ pc[u] \in AllocatedSteps
          /\ plan'[u][j].info = plan[u][j].info /\ plan'[u][j].rank = plan[u][j].rank /\ out'[u] = out[u]
          /\ info'[plan[u][j].info].masterBlockIndex = info[plan[u][j].info].masterBlockIndex
      BY <2>2, Zenon
    <3>2. info[plan[u][j].info].masterBlockIndex = out[u][plan[u][j].rank]
      BY <3>1, Zenon DEF SlotsPlaced, MasterBlk
    <3>. QED
      BY <3>1, <3>2, Zenon
  <2>. QED
    BY <2>1, <2>2, <2>3 DEF SlotsPlaced, MasterBlk
<1>OthersPlaced. ASSUME TypeInv, Placed, NEW t \in Threads, \A u \in Threads \ {t} : SameLocals(u), OthersKept(t), SlotsPlaced(t)'
    PROVE  Placed'
  <2> USE <1>OthersPlaced
  <2>1. ASSUME NEW u \in Threads \ {t} PROVE SlotsPlaced(u)'
    <3>1. /\ pc'[u] = pc[u] /\ plan'[u] = plan[u] /\ miss_count'[u] = miss_count[u] /\ out'[u] = out[u]
          /\ Pending(u)' = Pending(u) /\ SlotsPlaced(u)
      BY OtherEntries, Zenon DEF SameLocals, Placed
    <3>2. Misses(u)' = Misses(u)
      BY <3>1, Zenon DEF Misses
    <3>3. Pending(u) \subseteq Misses(u)
      BY EntryRange, Zenon
    <3>4. \A j \in Pending(u) : info'[plan[u][j].info].masterBlockIndex = info[plan[u][j].info].masterBlockIndex
      BY Zenon DEF OthersKept
    <3>. QED
      BY <3>1, <3>2, <3>3, <3>4, <1>KeepsPlaces, Zenon
  <2>. QED
    BY <2>1, Zenon DEF Placed
\* Steps that change neither the plan, nor its slots, nor any MasterInfo.
<1>StillPlaced. ASSUME TypeInv, NEW t \in Threads, SlotsPlaced(t), plan'[t] = plan[t], miss_count'[t] = miss_count[t],
           out'[t] = out[t], Pending(t)' \subseteq Pending(t),
           pc'[t] \in AllocatedSteps => pc[t] \in AllocatedSteps \/ Misses(t) = {},
           \A j \in Pending(t)' : info'[plan[t][j].info].masterBlockIndex = info[plan[t][j].info].masterBlockIndex
    PROVE  SlotsPlaced(t)'
  <2> USE <1>StillPlaced
  <2>1. Misses(t)' = Misses(t) /\ Pending(t) \subseteq Misses(t)
    BY EntryRange, Zenon DEF Misses
  <2>2. Misses(t) = {} => Pending(t)' = {}
    BY <2>1, Zenon
  <2>. QED
    BY <2>1, <2>2, <1>KeepsPlaces, Zenon
<1>CalmPlaced. ASSUME TypeInv, RefInv, NEW t \in Threads, SlotsPlaced(t), Calm(t)
    PROVE  SlotsPlaced(t)'
  <2> USE <1>CalmPlaced
  <2>1. /\ plan' = plan /\ miss_count' = miss_count /\ out' = out /\ <<pc[t], pc'[t]>> \in CalmSteps
        /\ pc[t] = "p1unlock" /\ pc'[t] = "p3lock" => Misses(t) = {}
    BY CalmStep, Zenon
  <2>2. /\ pc[t] # "publish" /\ (pc[t] \in PlacedSteps <=> pc'[t] \in PlacedSteps)
        /\ pc'[t] \in AllocatedSteps => pc[t] \in AllocatedSteps \/ (pc[t] = "p1unlock" /\ pc'[t] = "p3lock")
    BY <2>1, CalmClasses, Zenon
  <2>3. Pending(t)' \subseteq Pending(t)
    <3>1. Misses(t)' = Misses(t)
      BY <2>1, Zenon DEF Misses
    <3>2. CASE pc'[t] \in PlacedSteps
      BY <3>2, Zenon DEF Pending, PlacedSteps
    <3>3. CASE pc'[t] \notin PlacedSteps
      <4>1. Pending(t) = Misses(t)
        BY <2>2, <3>3 DEF Pending, PlacedSteps
      <4>2. Pending(t)' \subseteq Misses(t)'
        BY <3>3, Zenon DEF Pending, PlacedSteps
      <4>. QED
        BY <3>1, <4>1, <4>2, Zenon
    <3>. QED
      BY <3>2, <3>3, Zenon
  <2>4. ASSUME NEW j \in Pending(t)
        PROVE  info'[plan[t][j].info].masterBlockIndex = info[plan[t][j].info].masterBlockIndex
    <3>1. plan[t][j].info \in InfoIds /\ ~Published(plan[t][j].info)
      BY PointerTypes, Zenon
    <3>2. ASSUME NEW m \in InfoIds, Published(m), DropReference(t, m)
          PROVE  info'[plan[t][j].info] = info[plan[t][j].info]
      <4>1. plan[t][j].info # m
        BY <3>1, <3>2, Zenon
      <4>2. \A n \in InfoIds \ {m} : info'[n] = info[n]
        BY <3>2, DropEffect, Zenon
      <4>. QED
        BY <3>1, <4>1, <4>2, Zenon
    <3>3. CASE P1Take(t)
      BY <3>1, <3>3, TakeMoves, Zenon
    <3>4. CASE MapBlock(t) \/ RmBlock(t)
      <4>1. info' = info \/ (file_to_master[FileBlock(t)] # NULL /\ DropReference(t, file_to_master[FileBlock(t)]))
        BY <3>4, Zenon DEF MapBlock, RmBlock, Overwritten
      <4>2. pc[t] \in {"map", "remove"}
        BY <3>4, Zenon DEF MapBlock, RmBlock
      <4>. QED
        BY <3>2, <4>1, <4>2, DropsPublished, Zenon
    <3>5. CASE RbHit(t)
      <4>1. info' = info \/ (Reverts(t) /\ DropReference(t, plan[t][blk[t]].info))
        BY <3>5, Zenon DEF RbHit
      <4>2. pc[t] = "rbhits"
        BY <3>5, Zenon DEF RbHit
      <4>. QED
        BY <3>2, <4>1, <4>2, DropsPublished, Zenon
    <3>6. CASE ~(P1Take(t) \/ MapBlock(t) \/ RmBlock(t) \/ RbHit(t))
      <4>1. info' = info
        BY <3>6, Zenon DEF Calm, Start, StartWrite, StartUnlink, StartTruncate, P1Lock, P1Unlock, FlushRun, FlushFail,
           P3Lock, P3Unlock, RbLock, RbUnlock, RbRelease, RmLock, RmUnlock, RmRelease, index
      <4>. QED
        BY <4>1, Zenon
    <3>. QED
      BY <3>3, <3>4, <3>5, <3>6, Zenon
  <2>. QED
    BY <2>1, <2>2, <2>3, <2>4, <1>StillPlaced, Zenon
<1>ReturnPlaced. ASSUME NEW t \in Threads, plan'[t] = <<>>, miss_count'[t] = 0
    PROVE  SlotsPlaced(t)'
  <2> USE <1>ReturnPlaced
  <2>1. DOMAIN plan'[t] = {} /\ 1 .. miss_count'[t] = {}
    OBVIOUS
  <2>2. Misses(t)' = {}
    BY <2>1, Zenon DEF Misses
  <2>3. Pending(t)' = {}
    BY <2>2, Zenon DEF Pending
  <2>. QED
    BY <2>1, <2>2, <2>3, Zenon DEF SlotsPlaced
<1>P1HitPlaced. ASSUME TypeInv, NEW t \in Threads, SlotsPlaced(t), P1Hit(t)
    PROVE  SlotsPlaced(t)'
  <2> USE <1>P1HitPlaced
  <2>. DEFINE e == [kind |-> "HIT", info |-> Existing(t, BlockHash(t)), rank |-> 0]
  <2>1. plan' = [plan EXCEPT ![t] = Append(@, e)] /\ e.kind = "HIT"
    BY Zenon DEF P1Hit
  <2>. HIDE DEF e
  <2>2. pc[t] = "p1" /\ miss_count' = miss_count /\ pc'[t] = "p1take"
    <3>1. DOMAIN pc = Threads
      BY Zenon DEF TypeInv, TypeOK
    <3>. QED
      BY <3>1, Zenon DEF P1Hit, Goto
  <2>3. /\ \A j \in DOMAIN plan[t] : plan'[t][j] = plan[t][j]
        /\ Misses(t)' = Misses(t) /\ Pending(t) = Misses(t)
    <3>1. "HIT" # "MISS"
      OBVIOUS
    <3>. QED
      BY <2>1, <2>2, <3>1, PlanGrows, Zenon
  <2>4. Pending(t)' = Misses(t)'
    BY <2>2 DEF Pending
  <2>5. pc'[t] \notin AllocatedSteps
    BY <2>2 DEF AllocatedSteps
  <2>6. \A j \in Misses(t) : plan'[t][j].rank = plan[t][j].rank
    BY <2>3, Zenon DEF Misses
  <2>. QED
    BY <2>2, <2>3, <2>4, <2>5, <2>6, <1>KeepsPlaces, Zenon
\* The counter m of a MISS is its rank.
<1>P1MissPlaced. ASSUME TypeInv, NEW t \in Threads, SlotsPlaced(t), P1Miss(t)
    PROVE  SlotsPlaced(t)'
  <2> USE <1>P1MissPlaced
  <2>0. PICK m : plan' = [plan EXCEPT ![t] = Append(@, [kind |-> "MISS", info |-> m, rank |-> miss_count[t] + 1])]
    BY Zenon DEF P1Miss
  <2>. DEFINE e == [kind |-> "MISS", info |-> m, rank |-> miss_count[t] + 1]
  <2>1. plan' = [plan EXCEPT ![t] = Append(@, e)] /\ e.kind = "MISS" /\ e.rank = miss_count[t] + 1
    BY <2>0, Zenon
  <2>. HIDE DEF e
  <2>2. /\ pc[t] = "p1" /\ miss_count'[t] = miss_count[t] + 1 /\ pc'[t] \in {"p1", "p1unlock"}
        /\ miss_count[t] \in Nat /\ PlanShape(t)
    <3>1. TypeOK /\ DOMAIN miss_count = Threads /\ PlanShape(t) /\ miss_count[t] \in Nat
      BY Parts, LocalTypes, Zenon DEF TypeOK
    <3>2. DOMAIN pc = Threads
      BY <3>1, Zenon DEF TypeOK
    <3>3. pc'[t] \in {"p1", "p1unlock"}
      BY <3>2, Zenon DEF P1Miss, NextBlock, Goto
    <3>. QED
      BY <3>1, <3>3, Zenon DEF P1Miss
  <2>3. /\ \A j \in DOMAIN plan[t] : plan'[t][j] = plan[t][j]
        /\ Misses(t)' = Misses(t) \cup {blk[t]} /\ plan'[t][blk[t]] = e
    BY <2>1, <2>2, PlanGrows, Zenon
  <2>4. /\ \A j \in Misses(t) : plan'[t][j].rank = plan[t][j].rank
        /\ plan'[t][blk[t]].rank = miss_count[t] + 1
    BY <2>1, <2>3, Zenon DEF Misses
  <2>5. \A j \in Misses(t) : plan[t][j].rank \in 1 .. miss_count[t]
    BY <2>2, Zenon DEF PlanShape
  <2>6. /\ \A i, j \in Misses(t) : plan[t][i].rank = plan[t][j].rank => i = j
        /\ \A k \in 1 .. miss_count[t] : \E j \in Misses(t) : plan[t][j].rank = k
    BY Zenon DEF SlotsPlaced
  <2>7. miss_count[t] + 1 \notin 1 .. miss_count[t] /\ 1 .. miss_count[t] + 1 = 1 .. miss_count[t] \cup {miss_count[t] + 1}
    BY <2>2
  <2>8. ASSUME NEW i \in Misses(t)', NEW j \in Misses(t)', plan'[t][i].rank = plan'[t][j].rank PROVE i = j
    <3>1. CASE i \in Misses(t) /\ j \in Misses(t)
      BY <2>4, <2>6, <2>8, <3>1, Zenon
    <3>2. \A k \in Misses(t) : plan'[t][k].rank # plan'[t][blk[t]].rank
      BY <2>4, <2>5, <2>7, ZenonT(30)
    <3>. QED
      BY <2>3, <2>8, <3>1, <3>2, Zenon
  <2>9. ASSUME NEW k \in 1 .. miss_count'[t] PROVE \E j \in Misses(t)' : plan'[t][j].rank = k
    <3>1. k \in 1 .. miss_count[t] \/ k = miss_count[t] + 1
      BY <2>2, <2>7
    <3>. QED
      BY <2>3, <2>4, <2>6, <3>1, ZenonT(30)
  <2>10. pc'[t] \notin AllocatedSteps
    BY <2>2 DEF AllocatedSteps
  <2>. QED
    BY <2>8, <2>9, <2>10 DEF SlotsPlaced
<1>DrainPlaced. ASSUME TypeInv, NEW t \in Threads, SlotsPlaced(t), Drain(t)
    PROVE  SlotsPlaced(t)'
  <2> USE <1>DrainPlaced
  <2>1. plan' = plan /\ miss_count' = miss_count /\ pc[t] = "drain" /\ pc'[t] = "append"
    <3>1. DOMAIN pc = Threads
      BY Zenon DEF TypeInv, TypeOK
    <3>. QED
      BY <3>1, Zenon DEF Drain, Goto
  <2>2. Misses(t)' = Misses(t)
    BY <2>1, Zenon DEF Misses
  <2>3. Pending(t)' = Misses(t)' /\ Pending(t) = Misses(t) /\ pc'[t] \notin AllocatedSteps
    BY <2>1 DEF Pending, AllocatedSteps
  <2>. QED
    BY <2>1, <2>2, <2>3, <1>KeepsPlaces, Zenon
\* Every MISS has a MasterInfo of its own, so its slot is in it.
<1>AppendPlaced. ASSUME MinMaxLaws, CountingLaws, TypeInv, RefInv, NEW t \in Threads, SlotsPlaced(t), AppendSlots(t)
    PROVE  SlotsPlaced(t)'
  <2> USE <1>AppendPlaced
  <2>1. plan' = plan /\ miss_count' = miss_count /\ pc[t] = "append" /\ pc'[t] = "flush"
    <3>1. DOMAIN pc = Threads
      BY Zenon DEF TypeInv, TypeOK
    <3>. QED
      BY <3>1, Zenon DEF AppendSlots, Goto
  <2>2. Misses(t)' = Misses(t)
    BY <2>1, Zenon DEF Misses
  <2>3. Pending(t)' = Misses(t)' /\ Pending(t) = Misses(t)
    BY <2>1 DEF Pending
  <2>0. /\ \A i, j \in Misses(t) : plan[t][i].rank = plan[t][j].rank => i = j
        /\ \A k \in 1 .. miss_count[t] : \E j \in Misses(t) : plan[t][j].rank = k
    BY Zenon DEF SlotsPlaced
  <2>4. /\ \A i, j \in Misses(t)' : plan'[t][i].rank = plan'[t][j].rank => i = j
        /\ \A k \in 1 .. miss_count'[t] : \E j \in Misses(t)' : plan'[t][j].rank = k
    BY <2>0, <2>1, <2>2, SMTT(30)
  <2>5. ASSUME NEW j \in Misses(t)
        PROVE  info'[plan[t][j].info].masterBlockIndex = out'[t][plan[t][j].rank]
    <3>1. PICK own : own = {i \in Misses(t) : plan[t][i].info = plan[t][j].info}
      BY Zenon
    <3>2. plan[t][j].info \in InfoIds /\ \A i \in Held(t) : plan[t][i].info = plan[t][j].info => i = j
      <4>1. j \in Pending(t)
        BY <2>3, Zenon
      <4>2. /\ plan[t][j].info \in InfoIds
            /\ \A u \in Threads : \A i \in Held(u) : plan[u][i].info = plan[t][j].info => u = t /\ i = j
        BY <4>1, PendingAlone, Zenon
      <4>. QED
        BY <4>2, Zenon
    <3>3. \A i \in Misses(t) : i \in Held(t)
      BY <2>3, EntryRange, RefParts, Zenon
    <3>4. own = {j} /\ j \in Nat
      <4>1. j \in 1 .. MaxBlocks
        BY <2>3, PendingAlone, ZenonT(30)
      <4>2. j \in Nat
        BY <4>1, BoundsAssumption
      <4>. QED
        BY <3>1, <3>2, <3>3, <4>2, ZenonT(30)
    <3>5. Max(own) = j
      <4>1. own \in SUBSET Nat /\ own # {} /\ \A y \in own : y <= j
        BY <3>4
      <4>2. Max(own) \in own
        BY <3>4, <4>1, Zenon DEF MinMaxLaws
      <4>. QED
        BY <3>4, <4>2, Zenon
    <3>6. info'[plan[t][j].info] = [info[plan[t][j].info] EXCEPT !.masterBlockIndex = out'[t][plan[t][Max(own)].rank]]
      <4>1. DOMAIN out = Threads
        BY Zenon DEF TypeInv, TypeOK
      <4>2. own # {}
        BY <3>4, Zenon
      <4>. QED
        BY <3>1, <3>2, <4>1, <4>2, ZenonT(30) DEF AppendSlots
    <3>7. info[plan[t][j].info] \in MasterInfo
      BY <3>2, Zenon DEF TypeInv, TypeOK
    <3>. QED
      BY <3>5, <3>6, <3>7 DEF MasterInfo
  <2>6. \A j \in Pending(t)' : info'[plan'[t][j].info].masterBlockIndex = MasterBlk(t, j)'
    BY <2>1, <2>2, <2>3, <2>5, Zenon DEF MasterBlk
  <2>. QED
    BY <2>4, <2>6, Zenon DEF SlotsPlaced
<1>PublishPlaced. ASSUME CountingLaws, TypeInv, RefInv, NEW t \in Threads, SlotsPlaced(t), PublishBlock(t)
    PROVE  SlotsPlaced(t)'
  <2> USE <1>PublishPlaced
  <2>1. /\ pc[t] = "publish" /\ Misses(t)' = Misses(t) /\ \A j \in Misses(t) : plan'[t][j].rank = plan[t][j].rank
        /\ \A j \in DOMAIN plan[t] \ {blk[t]} : plan'[t][j] = plan[t][j]
        /\ Pending(t)' = Pending(t) \ {blk[t]} /\ miss_count' = miss_count /\ out' = out
        /\ blk[t] \in DOMAIN plan[t]
    BY PublishPlan, Zenon
  <2>2. Pending(t) \subseteq Misses(t) /\ Pending(t) \subseteq DOMAIN plan[t]
    BY EntryRange, Zenon
  <2>3. pc[t] \in AllocatedSteps
    BY <2>1 DEF AllocatedSteps
  <2>4. ASSUME NEW j \in Pending(t)'
        PROVE  info'[plan[t][j].info].masterBlockIndex = info[plan[t][j].info].masterBlockIndex
    <3>1. j \in Pending(t) /\ j # blk[t]
      BY <2>1, <2>4, Zenon
    <3>2. plan[t][j].info \in InfoIds /\ ~Published(plan[t][j].info)
      BY <3>1, PointerTypes, Zenon
    <3>3. CASE info' = info
      BY <3>3, Zenon
    <3>4. CASE Winner(info[plan[t][blk[t]].info].hash) # NULL /\ info' = [info EXCEPT
                 ![Winner(info[plan[t][blk[t]].info].hash)].refcount = @ + 1, ![plan[t][blk[t]].info] = Freed]
      <4>1. plan[t][j].info # plan[t][blk[t]].info
        <5>1. blk[t] \in Held(t)
          BY <2>1 DEF Held
        <5>2. \A u \in Threads : \A i \in Held(u) : plan[u][i].info = plan[t][j].info => u = t /\ i = j
          BY <3>1, PendingAlone, Zenon
        <5>. QED
          BY <3>1, <5>1, <5>2, ZenonT(30)
      <4>2. plan[t][j].info # Winner(info[plan[t][blk[t]].info].hash)
        BY <3>2, <3>4, ZenonT(30) DEF Winner, Published
      <4>3. info \in [InfoIds -> MasterInfo]
        BY Zenon DEF TypeInv, TypeOK
      <4>4. info'[plan[t][j].info] = info[plan[t][j].info]
        BY <3>2, <3>4, <4>1, <4>2, <4>3, Zenon
      <4>. QED
        BY <4>4, Zenon
    <3>. QED
      BY <3>3, <3>4, Zenon DEF PublishBlock
  <2>5. \A j \in Pending(t)' : plan'[t][j].info = plan[t][j].info
    BY <2>1, <2>2, Zenon
  <2>. QED
    BY <2>1, <2>2, <2>3, <2>4, <2>5, <1>KeepsPlaces, ZenonT(30)
<1>. SUFFICES ASSUME NEW t \in Threads, Start(t) \/ Step(t) PROVE Placed'
  BY Zenon
<1>1. OthersKept(t) /\ SlotsPlaced(t) /\ TypeOK
  BY SlotsKept, Parts, Zenon DEF Placed
<1>2. \A u \in Threads \ {t} : SameLocals(u)
  BY <1>1, OthersUnchanged, Zenon
<1>3. CASE P3Release(t) \/ RbMisses(t) \/ SetSize(t)
  <2>1. plan'[t] = <<>> /\ miss_count'[t] = 0
    BY <1>1, <1>3, Zenon DEF P3Release, RbMisses, SetSize, Return, TypeOK
  <2>. QED
    BY <1>1, <1>2, <2>1, <1>ReturnPlaced, <1>OthersPlaced, ZenonT(30)
<1>4. CASE P1Hit(t) \/ P1Miss(t) \/ Drain(t) \/ AppendSlots(t) \/ PublishBlock(t) \/ Calm(t)
  <2>1. SlotsPlaced(t)'
    BY <1>1, <1>4, <1>P1HitPlaced, <1>P1MissPlaced, <1>DrainPlaced, <1>AppendPlaced, <1>PublishPlaced, <1>CalmPlaced, ZenonT(30)
  <2>. QED
    BY <1>1, <1>2, <2>1, <1>OthersPlaced, Zenon
<1>. QED
  BY <1>3, <1>4, Zenon DEF Step, Calm

-----------------------------------------------------------------------------
(* Slots from one holder to another. *)

\* The holders whose slots a step of thread t can change.
Holder(kind, t) == IF kind \in {"free", "index"} THEN NULL ELSE t

\* The slots that each holder has, before and after a step.
LEMMA SlotSets ==
  /\ Slots("free", NULL) = Range(free_block_list) /\ Slots("free", NULL)' = Range(free_block_list')
  /\ Slots("index", NULL) = {IndexSlot(h) : h \in InIndex}
  /\ Slots("index", NULL)' = {IndexSlot(h)' : h \in InIndex'}
  /\ \A u \in Threads :
       /\ Slots("write", u) = {out[u][i] : i \in Reserved(u)}
       /\ Slots("write", u)' = {out'[u][i] : i \in Reserved(u)'}
       /\ Slots("release", u) = Range(rel[u]) /\ Slots("release", u)' = Range(rel'[u])
       /\ Slots("free", u) = {} /\ Slots("free", u)' = {} /\ Slots("index", u) = {} /\ Slots("index", u)' = {}
  /\ Slots("write", NULL) = {} /\ Slots("write", NULL)' = {}
  /\ Slots("release", NULL) = {} /\ Slots("release", NULL)' = {}
<1>1. NULL \notin Threads
  BY NullAssumption, Zenon
<1>2. Slots("free", NULL) = Range(free_block_list) /\ Slots("free", NULL)' = Range(free_block_list')
  BY <1>1 DEF Slots
<1>3. /\ Slots("index", NULL) = {IndexSlot(h) : h \in InIndex}
      /\ Slots("index", NULL)' = {IndexSlot(h)' : h \in InIndex'}
  BY <1>1 DEF Slots
<1>4. /\ Slots("write", NULL) = {} /\ Slots("write", NULL)' = {}
      /\ Slots("release", NULL) = {} /\ Slots("release", NULL)' = {}
  BY <1>1 DEF Slots
<1>5. ASSUME NEW u \in Threads
      PROVE  /\ Slots("write", u) = {out[u][i] : i \in Reserved(u)}
             /\ Slots("write", u)' = {out'[u][i] : i \in Reserved(u)'}
             /\ Slots("release", u) = Range(rel[u]) /\ Slots("release", u)' = Range(rel'[u])
             /\ Slots("free", u) = {} /\ Slots("free", u)' = {} /\ Slots("index", u) = {} /\ Slots("index", u)' = {}
  <2>1. u # NULL
    BY <1>1, Zenon
  <2>2. /\ Slots("write", u) = {out[u][i] : i \in Reserved(u)}
        /\ Slots("write", u)' = {out'[u][i] : i \in Reserved(u)'}
    BY <2>1 DEF Slots
  <2>3. Slots("release", u) = Range(rel[u]) /\ Slots("release", u)' = Range(rel'[u])
    BY <2>1 DEF Slots
  <2>4. Slots("free", u) = {} /\ Slots("free", u)' = {} /\ Slots("index", u) = {} /\ Slots("index", u)' = {}
    BY <2>1 DEF Slots
  <2>. QED
    BY <2>2, <2>3, <2>4, ZenonT(30)
<1>. QED
  BY <1>2, <1>3, <1>4, <1>5, Zenon

\* The kinds of holders, and who holds what on behalf of thread t.
LEMMA KindNames ==
  ASSUME NEW t
  PROVE  /\ "free" \in Kinds /\ "index" \in Kinds /\ "write" \in Kinds /\ "release" \in Kinds
         /\ Holder("free", t) = NULL /\ Holder("index", t) = NULL
         /\ Holder("write", t) = t /\ Holder("release", t) = t
         /\ \A kind \in Kinds : kind \in {"free", "index", "write", "release"}
         /\ "free" # "index" /\ "free" # "write" /\ "free" # "release"
         /\ "index" # "write" /\ "index" # "release" /\ "write" # "release"
BY DEF Kinds, Holder

\* What different holders have is disjoint.
LEMMA Apart ==
  ASSUME Unshared, NEW t \in Threads
  PROVE  /\ \A s \in Slots("index", NULL) : s \notin Slots("release", t) /\ s \notin Slots("write", t)
         /\ \A s \in Slots("free", NULL) : s \notin Slots("release", t) /\ s \notin Slots("write", t)
         /\ \A s \in Slots("write", t) : s \notin Slots("release", t)
         /\ \A u \in Threads \ {t} : \A s \in Slots("write", t) : s \notin Slots("write", u)
<1>1. NULL \in Holders /\ t \in Holders /\ \A u \in Threads : u \in Holders
  BY Zenon DEF Holders
<1>2. /\ "free" \in Kinds /\ "index" \in Kinds /\ "write" \in Kinds /\ "release" \in Kinds
      /\ "free" # "index" /\ "free" # "write" /\ "free" # "release"
      /\ "index" # "write" /\ "index" # "release" /\ "write" # "release"
  BY KindNames, Zenon
<1>3. \A s \in Slots("index", NULL) : s \notin Slots("release", t) /\ s \notin Slots("write", t)
  BY <1>1, <1>2, Zenon DEF Unshared
<1>4. \A s \in Slots("free", NULL) : s \notin Slots("release", t) /\ s \notin Slots("write", t)
  BY <1>1, <1>2, Zenon DEF Unshared
<1>5. \A s \in Slots("write", t) : s \notin Slots("release", t)
  BY <1>1, <1>2, Zenon DEF Unshared
<1>6. \A u \in Threads \ {t} : \A s \in Slots("write", t) : s \notin Slots("write", u)
  BY <1>1, <1>2, Zenon DEF Unshared
<1>. QED
  BY <1>3, <1>4, <1>5, <1>6, Zenon

\* What a write holds before and after Passe 3, and while it publishes.
LEMMA WriteSlots ==
  ASSUME TypeInv, NEW t \in Threads
  PROVE  /\ pc[t] \notin PlacedSteps \cup {"publish"} => Slots("write", t) = Range(out[t])
         /\ pc'[t] \notin PlacedSteps \cup {"publish"} => Slots("write", t)' = Range(out'[t])
         /\ pc[t] \in PlacedSteps => Slots("write", t) = {}
         /\ pc'[t] \in PlacedSteps => Slots("write", t)' = {}
<1>1. /\ Slots("write", t) = {out[t][i] : i \in Reserved(t)}
      /\ Slots("write", t)' = {out'[t][i] : i \in Reserved(t)'}
  BY SlotSets, Zenon
<1>2. /\ pc[t] \notin PlacedSteps \cup {"publish"} => Reserved(t) = DOMAIN out[t]
      /\ pc[t] \in PlacedSteps => Reserved(t) = {}
  BY DEF PlacedSteps, Reserved
<1>3. /\ pc'[t] \notin PlacedSteps \cup {"publish"} => Reserved(t)' = DOMAIN out'[t]
      /\ pc'[t] \in PlacedSteps => Reserved(t)' = {}
  BY DEF PlacedSteps, Reserved
<1>. QED
  BY <1>1, <1>2, <1>3, Zenon DEF Range

\* One MISS, one position of master_blks[], one slot.
LEMMA OwnSlots ==
  ASSUME TypeInv, NEW t \in Threads, SlotsPlaced(t), NoRepeats(out[t]), pc[t] \in AllocatedSteps
  PROVE  /\ \A j \in Misses(t) : plan[t][j].rank \in DOMAIN out[t] /\ MasterBlk(t, j) \in Nat
         /\ \A i, j \in Misses(t) : MasterBlk(t, i) = MasterBlk(t, j) => i = j
         /\ DOMAIN out[t] = {plan[t][j].rank : j \in Misses(t)}
<1>1. /\ out[t] \in Seq(Nat) /\ DOMAIN out[t] = 1 .. miss_count[t] /\ PlanShape(t)
      /\ DOMAIN out[t] = 1 .. Len(out[t])
  <2>1. out[t] \in Seq(Nat) /\ Len(out[t]) = miss_count[t] /\ PlanShape(t)
    BY Parts, LocalTypes, Zenon DEF SlotShape
  <2>. QED
    BY <2>1
<1>2. \A j \in Misses(t) : plan[t][j].rank \in DOMAIN out[t]
  BY <1>1, Zenon DEF PlanShape
<1>3. \A i \in DOMAIN out[t] : out[t][i] \in Nat
  BY <1>1, SeqElement, Zenon
<1>4. \A j \in Misses(t) : MasterBlk(t, j) \in Nat
  BY <1>2, <1>3, Zenon DEF MasterBlk
<1>5. \A i, j \in Misses(t) : plan[t][i].rank = plan[t][j].rank => i = j
  BY Zenon DEF SlotsPlaced
<1>6. \A i, j \in Misses(t) : MasterBlk(t, i) = MasterBlk(t, j) => i = j
  BY <1>2, <1>5, Zenon DEF MasterBlk, NoRepeats
<1>7. \A k \in DOMAIN out[t] : \E j \in Misses(t) : plan[t][j].rank = k
  BY <1>1, Zenon DEF SlotsPlaced
<1>. QED
  BY <1>2, <1>4, <1>6, <1>7, ZenonT(30)

\* A calm step moves no slot, releases one with the last reference, or puts its
\* released slots into the free list.
LEMMA CalmCases ==
  ASSUME TypeInv, RefInv, NEW t \in Threads, Calm(t)
  PROVE  \/ UNCHANGED <<free_block_list, hash_to_master, rel>>
         \/ /\ \E m \in InfoIds : Published(m) /\ info[m].refcount = 1 /\ DropReference(t, m)
            /\ UNCHANGED free_block_list
         \/ ReleaseSlots(t) /\ UNCHANGED hash_to_master
<1>1. CASE RbRelease(t) \/ RmRelease(t)
  BY <1>1, Zenon DEF RbRelease, RmRelease, index
<1>2. CASE \E m \in InfoIds : Published(m) /\ DropReference(t, m) /\ free_block_list' = free_block_list
  BY <1>2, Zenon DEF DropReference
<1>3. CASE MapBlock(t) \/ RmBlock(t)
  <2>1. /\ \/ rel' = rel /\ hash_to_master' = hash_to_master
           \/ (file_to_master[FileBlock(t)] # NULL /\ DropReference(t, file_to_master[FileBlock(t)]))
        /\ free_block_list' = free_block_list /\ pc[t] \in {"map", "remove"}
    BY <1>3, Zenon DEF MapBlock, RmBlock, Overwritten, store
  <2>. QED
    BY <1>2, <2>1, DropsPublished, Zenon
<1>4. CASE RbHit(t)
  <2>1. /\ \/ rel' = rel /\ hash_to_master' = hash_to_master
           \/ (Reverts(t) /\ DropReference(t, plan[t][blk[t]].info))
        /\ free_block_list' = free_block_list /\ pc[t] = "rbhits"
    BY <1>4, Zenon DEF RbHit, store
  <2>. QED
    BY <1>2, <2>1, DropsPublished, ZenonT(30)
<1>5. CASE ~(RbRelease(t) \/ RmRelease(t) \/ MapBlock(t) \/ RmBlock(t) \/ RbHit(t))
  <2>1. UNCHANGED <<free_block_list, hash_to_master, rel>>
    BY <1>5, Zenon DEF Calm, Start, StartWrite, StartUnlink, StartTruncate, P1Lock, P1Take, P1Unlock, FlushRun, FlushFail,
       P3Lock, P3Unlock, RbLock, RbUnlock, RmLock, RmUnlock, index, store
  <2>. QED
    BY <2>1, Zenon
<1>. QED
  BY <1>1, <1>3, <1>4, <1>5, ZenonT(30)

\* Every step keeps Owned: slots go from one holder to one other.
LEMMA NextOwned ==
  ASSUME CountingLaws, TypeInv, RefInv, Placed, Owned
  PROVE  \A t \in Threads : Start(t) \/ Step(t) => Owned'
\* Two lists with nothing in common, one after the other.
<1>JoinLists.
    ASSUME NEW a \in Seq(Nat), NEW b \in Seq(Nat)
    PROVE  /\ Range(a \o b) = Range(a) \cup Range(b)
           /\ NoRepeats(a) /\ NoRepeats(b) /\ Range(a) \cap Range(b) = {} => NoRepeats(a \o b)
  <2> USE <1>JoinLists
  <2>1. /\ a \o b \in Seq(Nat) /\ DOMAIN a = 1 .. Len(a) /\ DOMAIN b = 1 .. Len(b)
        /\ DOMAIN (a \o b) = 1 .. Len(a) + Len(b) /\ Len(a) \in Nat /\ Len(b) \in Nat
    BY SeqConcat
  <2>2. /\ \A i \in 1 .. Len(a) : i \in DOMAIN (a \o b) /\ (a \o b)[i] = a[i]
        /\ \A i \in 1 .. Len(b) : i + Len(a) \in DOMAIN (a \o b) /\ (a \o b)[i + Len(a)] = b[i]
        /\ \A i \in DOMAIN (a \o b) : i \in 1 .. Len(a) \/ (i - Len(a) \in 1 .. Len(b) /\ i = i - Len(a) + Len(a))
    BY <2>1, SeqConcat
  <2>. DEFINE c == a \o b
  <2>. HIDE DEF c
  <2>3. \A i \in DOMAIN c : \/ i \in DOMAIN a /\ c[i] = a[i]
                            \/ \E k \in DOMAIN b : i = k + Len(a) /\ c[i] = b[k]
    BY <2>1, <2>2, Zenon DEF c
  <2>4. Range(c) = Range(a) \cup Range(b)
    <3>1. \A i \in DOMAIN a : i \in DOMAIN c /\ c[i] = a[i]
      BY <2>1, <2>2, Zenon DEF c
    <3>2. \A i \in DOMAIN b : i + Len(a) \in DOMAIN c /\ c[i + Len(a)] = b[i]
      BY <2>1, <2>2, Zenon DEF c
    <3>3. ASSUME NEW x \in Range(c) PROVE x \in Range(a) \/ x \in Range(b)
      <4>1. PICK i \in DOMAIN c : x = c[i]
        BY Zenon DEF Range
      <4>2. (\E k \in DOMAIN a : x = a[k]) \/ (\E k \in DOMAIN b : x = b[k])
        BY <2>3, <4>1, Zenon
      <4>. QED
        BY <4>2, Zenon DEF Range
    <3>4. \A x \in Range(a) : x \in Range(c)
      BY <3>1, Zenon DEF Range
    <3>5. \A x \in Range(b) : x \in Range(c)
      BY <3>2, Zenon DEF Range
    <3>. QED
      BY <3>3, <3>4, <3>5, Zenon
  <2>5. ASSUME NoRepeats(a), NoRepeats(b), Range(a) \cap Range(b) = {} PROVE NoRepeats(c)
    <3>1. \A i \in DOMAIN a, k \in DOMAIN b : a[i] # b[k]
      BY <2>5, Zenon DEF Range
    <3>. QED
      BY <2>3, <2>5, <3>1, Zenon DEF NoRepeats
  <2>. QED
    BY <2>4, <2>5, Zenon DEF c
\* The head and the rest of a list.
<1>SplitList.
    ASSUME NEW q \in Seq(Nat), NoRepeats(q), NEW k \in Nat, k <= Len(q)
    PROVE  LET head == SubSeq(q, 1, k)
               rest == SubSeq(q, k + 1, Len(q))
           IN  /\ NoRepeats(head) /\ NoRepeats(rest)
               /\ Range(head) \subseteq Range(q) /\ Range(rest) = Range(q) \ Range(head)
  <2> USE <1>SplitList
  <2>. DEFINE head == SubSeq(q, 1, k)
              rest == SubSeq(q, k + 1, Len(q))
  <2>1. /\ Len(q) \in Nat /\ DOMAIN q = 1 .. Len(q)
        /\ DOMAIN head = 1 .. k /\ \A i \in 1 .. k : head[i] = q[i]
        /\ DOMAIN rest = 1 .. Len(q) - k /\ \A i \in 1 .. Len(q) - k : rest[i] = q[k + i]
    OBVIOUS
  <2>. HIDE DEF head, rest
  <2>2. \A i \in DOMAIN head : i \in DOMAIN q /\ head[i] = q[i]
    BY <2>1
  <2>3. /\ \A i \in DOMAIN rest : k + i \in DOMAIN q /\ rest[i] = q[k + i] /\ k + i \notin DOMAIN head
        /\ \A i, j \in DOMAIN rest : k + i = k + j => i = j
        /\ \A i \in DOMAIN q : i \in DOMAIN head \/ (i - k \in DOMAIN rest /\ q[i] = rest[i - k])
    <3>1. \A i \in 1 .. Len(q) - k : k + i \in 1 .. Len(q) /\ k + i \notin 1 .. k
      BY <2>1
    <3>2. \A i, j \in 1 .. Len(q) - k : k + i = k + j => i = j
      BY <2>1
    <3>3. \A i \in 1 .. Len(q) : i \in 1 .. k \/ (i - k \in 1 .. Len(q) - k /\ k + (i - k) = i)
      BY <2>1
    <3>. QED
      BY <2>1, <3>1, <3>2, <3>3, ZenonT(30)
  <2>4. NoRepeats(head) /\ NoRepeats(rest)
    <3>1. NoRepeats(head)
      BY <2>2, Zenon DEF NoRepeats
    <3>2. NoRepeats(rest)
      BY <2>3, ZenonT(30) DEF NoRepeats
    <3>. QED
      BY <3>1, <3>2, Zenon
  <2>5. Range(head) \subseteq Range(q)
    BY <2>2, Zenon DEF Range
  <2>6. Range(rest) = Range(q) \ Range(head)
    <3>0. \A i \in DOMAIN rest : \E j \in DOMAIN q : rest[i] = q[j]
      BY <2>3, Zenon
    <3>1. Range(rest) \subseteq Range(q)
      BY <3>0, Zenon DEF Range
    <3>2. ASSUME NEW i \in DOMAIN rest, NEW j \in DOMAIN head PROVE rest[i] # head[j]
      BY <2>2, <2>3, ZenonT(30) DEF NoRepeats
    <3>3. Range(rest) \cap Range(head) = {}
      BY <3>2, Zenon DEF Range
    <3>4. \A i \in DOMAIN q : q[i] \in Range(head) \/ q[i] \in Range(rest)
      BY <2>2, <2>3, Zenon DEF Range
    <3>5. Range(q) \subseteq Range(head) \cup Range(rest)
      BY <3>4, Zenon DEF Range
    <3>. QED
      BY <3>1, <3>3, <3>5, Zenon
  <2>. QED
    BY <2>4, <2>5, <2>6, Zenon DEF head, rest
\* One slot more.
<1>ConsList.
    ASSUME NEW q \in Seq(Nat), NEW s \in Nat
    PROVE  /\ Range(<<s>> \o q) = Range(q) \cup {s}
           /\ NoRepeats(q) /\ s \notin Range(q) => NoRepeats(<<s>> \o q)
  <2> USE <1>ConsList
  <2>1. <<s>> \in Seq(Nat) /\ DOMAIN <<s>> = {1} /\ <<s>>[1] = s
    OBVIOUS
  <2>2. Range(<<s>>) = {s} /\ NoRepeats(<<s>>)
    BY <2>1, Zenon DEF Range, NoRepeats
  <2>3. Range(<<s>> \o q) = Range(<<s>>) \cup Range(q)
    BY <2>1, <1>JoinLists, Zenon
  <2>4. NoRepeats(q) /\ s \notin Range(q) => NoRepeats(<<s>> \o q)
    <3>1. s \notin Range(q) => Range(<<s>>) \cap Range(q) = {}
      BY <2>2, Zenon
    <3>. QED
      BY <2>1, <2>2, <3>1, <1>JoinLists, Zenon
  <2>. QED
    BY <2>2, <2>3, <2>4, Zenon
\* A list backwards, as rollback_allocations returns master_blks[].
<1>ReturnedList.
    ASSUME TypeOK, NEW t \in Threads
    PROVE  /\ Returned(t) \in Seq(Nat) /\ Range(Returned(t)) = Range(out[t])
           /\ NoRepeats(out[t]) => NoRepeats(Returned(t))
  <2> USE <1>ReturnedList
  <2>. DEFINE q == out[t]
              r == Returned(t)
              n == Len(q)
  <2>1. q \in Seq(Nat) /\ n \in Nat /\ DOMAIN q = 1 .. n
    BY LocalTypes
  <2>2. /\ r \in Seq(Nat) /\ DOMAIN r = 1 .. n
        /\ \A i \in 1 .. n : n + 1 - i \in 1 .. n /\ r[i] = q[n + 1 - i] /\ n + 1 - (n + 1 - i) = i
    BY <2>1 DEF Returned
  <2>3. \A i, j \in 1 .. n : n + 1 - i = n + 1 - j => i = j
    BY <2>1
  <2>. HIDE DEF r, q, n
  <2>4. Range(r) = Range(q)
    <3>1. \A i \in DOMAIN r : \E k \in DOMAIN q : r[i] = q[k]
      BY <2>1, <2>2, Zenon
    <3>2. ASSUME NEW i \in DOMAIN q PROVE \E k \in DOMAIN r : r[k] = q[i]
      <4>1. n + 1 - i \in DOMAIN r /\ r[n + 1 - i] = q[n + 1 - (n + 1 - i)] /\ n + 1 - (n + 1 - i) = i
        BY <2>1, <2>2, Zenon
      <4>. QED
        BY <4>1, Zenon
    <3>3. \A x \in Range(r) : x \in Range(q)
      BY <3>1, Zenon DEF Range
    <3>4. \A x \in Range(q) : x \in Range(r)
      BY <3>2, Zenon DEF Range
    <3>. QED
      BY <3>3, <3>4, Zenon
  <2>5. NoRepeats(q) => NoRepeats(r)
    <3>1. ASSUME NoRepeats(q), NEW i \in DOMAIN r, NEW j \in DOMAIN r, r[i] = r[j] PROVE i = j
      <4>1. /\ n + 1 - i \in DOMAIN q /\ n + 1 - j \in DOMAIN q
            /\ q[n + 1 - i] = q[n + 1 - j]
        BY <2>1, <2>2, <3>1, Zenon
      <4>2. n + 1 - i = n + 1 - j
        BY <3>1, <4>1, Zenon DEF NoRepeats
      <4>. QED
        BY <2>2, <2>3, <4>2, Zenon
    <3>. QED
      BY <3>1, Zenon DEF NoRepeats
  <2>. QED
    BY <2>2, <2>4, <2>5, Zenon DEF r, q
<1>OtherReserved.
    ASSUME NEW u \in Threads, SameLocals(u)
    PROVE  Reserved(u)' = Reserved(u)
  <2> USE <1>OtherReserved
  <2>1. pc'[u] = pc[u] /\ blk'[u] = blk[u] /\ plan'[u] = plan[u] /\ out'[u] = out[u]
    BY Zenon DEF SameLocals
  <2>2. Misses(u)' = Misses(u)
    BY <2>1, Zenon DEF Misses
  <2>. QED
    BY <2>1, <2>2, Zenon DEF Reserved
<1>OtherSlots.
    ASSUME NEW t \in Threads, \A u \in Threads \ {t} : SameLocals(u), NEW kind \in Kinds, NEW u \in Holders,
           u # Holder(kind, t)
    PROVE  Slots(kind, u)' = Slots(kind, u)
  <2> USE <1>OtherSlots
  <2>1. CASE kind \in {"free", "index"}
    <3>1. u \in Threads
      BY <2>1, Zenon DEF Holder, Holders
    <3>. QED
      BY <2>1, <3>1, SlotSets, Zenon
  <2>2. CASE kind \notin {"free", "index"} /\ u = NULL
    <3>1. kind \in {"write", "release"}
      BY <2>2, Zenon DEF Kinds
    <3>. QED
      BY <2>2, <3>1, SlotSets, Zenon
  <2>3. CASE kind \notin {"free", "index"} /\ u # NULL
    <3>1. kind \in {"write", "release"} /\ u \in Threads \ {t}
      BY <2>3, Zenon DEF Kinds, Holder, Holders
    <3>2. Reserved(u)' = Reserved(u) /\ out'[u] = out[u] /\ rel'[u] = rel[u]
      BY <3>1, <1>OtherReserved, Zenon DEF SameLocals
    <3>3. /\ Slots("write", u) = {out[u][i] : i \in Reserved(u)}
          /\ Slots("write", u)' = {out'[u][i] : i \in Reserved(u)'}
          /\ Slots("release", u) = Range(rel[u]) /\ Slots("release", u)' = Range(rel'[u])
      BY <3>1, SlotSets, Zenon
    <3>. QED
      BY <3>1, <3>2, <3>3, ZenonT(30)
  <2>. QED
    BY <2>1, <2>2, <2>3, Zenon
\* Slots M go from one holder to another.
<1>Transfer.
    ASSUME Unshared, Complete, NEW t \in Threads, \A u \in Threads \ {t} : SameLocals(u),
           NEW from \in Kinds, NEW to \in Kinds, from # to, NEW M, M \subseteq Slots(from, Holder(from, t)),
           Slots(from, Holder(from, t))' = Slots(from, Holder(from, t)) \ M,
           Slots(to, Holder(to, t))' = Slots(to, Holder(to, t)) \cup M,
           \A kind \in Kinds \ {from, to} : Slots(kind, Holder(kind, t))' = Slots(kind, Holder(kind, t)),
           nextBlockIndex' = nextBlockIndex
    PROVE  Unshared' /\ Complete'
  <2> USE <1>Transfer
  <2>1. Holder(from, t) \in Holders /\ Holder(to, t) \in Holders
    BY Zenon DEF Holder, Holders
  <2>2. ASSUME NEW kind \in Kinds, NEW u \in Holders
        PROVE  /\ \A s \in Slots(kind, u)' : s \in M => kind = to /\ u = Holder(to, t)
               /\ \A s \in Slots(kind, u)' : s \notin M => s \in Slots(kind, u)
               /\ \A s \in Slots(kind, u) : s \notin M => s \in Slots(kind, u)'
    <3>1. CASE kind = to /\ u = Holder(to, t)
      BY <3>1, Zenon
    <3>2. CASE kind = from /\ u = Holder(from, t)
      BY <3>2, Zenon
    <3>3. CASE ~(kind = to /\ u = Holder(to, t)) /\ ~(kind = from /\ u = Holder(from, t))
      <4>1. Slots(kind, u)' = Slots(kind, u)
        BY <3>3, <1>OtherSlots, ZenonT(30)
      <4>2. \A s \in Slots(kind, u) : s \notin M
        BY <2>1, <3>3, Zenon DEF Unshared
      <4>. QED
        BY <4>1, <4>2, Zenon
    <3>. QED
      BY <3>1, <3>2, <3>3, Zenon
  <2>3. Unshared'
    <3>1. ASSUME NEW kind \in Kinds, NEW other \in Kinds, NEW u \in Holders, NEW v \in Holders,
                 NEW s, s \in Slots(kind, u)', s \in Slots(other, v)'
          PROVE  kind = other /\ u = v
      <4>1. CASE s \in M
        BY <2>2, <3>1, <4>1, Zenon
      <4>2. CASE s \notin M
        <5>1. s \in Slots(kind, u) /\ s \in Slots(other, v)
          BY <2>2, <3>1, <4>2, Zenon
        <5>. QED
          BY <5>1, ZenonT(30) DEF Unshared
      <4>. QED
        BY <4>1, <4>2, Zenon
    <3>. QED
      BY <3>1, Zenon DEF Unshared
  <2>4. Complete'
    <3>1. ASSUME NEW s, NEW kind \in Kinds, NEW u \in Holders, s \in Slots(kind, u)'
          PROVE  \E k \in Kinds, v \in Holders : s \in Slots(k, v)
      BY <2>1, <2>2, <3>1, Zenon
    <3>2. ASSUME NEW s, NEW kind \in Kinds, NEW u \in Holders, s \in Slots(kind, u)
          PROVE  \E k \in Kinds, v \in Holders : s \in Slots(k, v)'
      BY <2>1, <2>2, <3>2, Zenon
    <3>3. ASSUME NEW kind \in Kinds, NEW u \in Holders PROVE Slots(kind, u)' \subseteq 0 .. nextBlockIndex - 1
      BY <3>1, Zenon DEF Complete
    <3>4. ASSUME NEW s \in 0 .. nextBlockIndex - 1 PROVE \E k \in Kinds, v \in Holders : s \in Slots(k, v)'
      BY <3>2, Zenon DEF Complete
    <3>. QED
      BY <3>3, <3>4, Zenon DEF Complete
  <2>. QED
    BY <2>3, <2>4, Zenon
\* New slots at the append point.
<1>Reserve.
    ASSUME TypeOK, Unshared, Complete, NEW t \in Threads, \A u \in Threads \ {t} : SameLocals(u), NEW r \in Nat,
           nextBlockIndex' = nextBlockIndex + r,
           Slots("write", t)' = Slots("write", t) \cup (nextBlockIndex .. nextBlockIndex + r - 1),
           \A kind \in Kinds \ {"write"} : Slots(kind, Holder(kind, t))' = Slots(kind, Holder(kind, t))
    PROVE  Unshared' /\ Complete'
  <2> USE <1>Reserve
  <2>. DEFINE old == 0 .. nextBlockIndex - 1
              new == nextBlockIndex .. nextBlockIndex + r - 1
  <2>0. nextBlockIndex \in Nat
    BY Zenon DEF TypeOK
  <2>1. 0 .. nextBlockIndex' - 1 = old \cup new /\ old \cap new = {}
    BY <2>0
  <2>. HIDE DEF old, new
  <2>2. "write" \in Kinds /\ t \in Holders /\ Holder("write", t) = t
    BY DEF Kinds, Holder, Holders
  <2>3. ASSUME NEW kind \in Kinds, NEW u \in Holders
        PROVE  /\ \A s \in Slots(kind, u)' : s \in Slots(kind, u) \/ (s \in new /\ kind = "write" /\ u = t)
               /\ \A s \in Slots(kind, u) : s \in Slots(kind, u)' /\ s \in old
               /\ kind = "write" /\ u = t => \A s \in new : s \in Slots(kind, u)'
    <3>1. CASE kind = "write" /\ u = t
      BY <3>1, Zenon DEF Complete, old, new
    <3>2. CASE ~(kind = "write" /\ u = t) /\ u = Holder(kind, t)
      BY <2>2, <3>2, Zenon DEF Complete, old
    <3>3. CASE ~(kind = "write" /\ u = t) /\ u # Holder(kind, t)
      BY <3>3, <1>OtherSlots, Zenon DEF Complete, old
    <3>. QED
      BY <3>1, <3>2, <3>3, Zenon
  <2>4. Unshared'
    <3>1. ASSUME NEW kind \in Kinds, NEW other \in Kinds, NEW u \in Holders, NEW v \in Holders,
                 NEW s, s \in Slots(kind, u)', s \in Slots(other, v)'
          PROVE  kind = other /\ u = v
      <4>1. CASE s \in new
        <5>1. \A k \in Kinds, w \in Holders : s \in Slots(k, w)' => k = "write" /\ w = t
          BY <2>1, <2>3, <4>1, Zenon
        <5>. QED
          BY <3>1, <5>1, Zenon
      <4>2. CASE s \notin new
        <5>1. s \in Slots(kind, u) /\ s \in Slots(other, v)
          BY <2>3, <3>1, <4>2, Zenon
        <5>. QED
          BY <5>1, Zenon DEF Unshared
      <4>. QED
        BY <4>1, <4>2, Zenon
    <3>. QED
      BY <3>1, Zenon DEF Unshared
  <2>5. Complete'
    <3>1. ASSUME NEW kind \in Kinds, NEW u \in Holders PROVE Slots(kind, u)' \subseteq 0 .. nextBlockIndex' - 1
      BY <2>1, <2>3, Zenon
    <3>2. ASSUME NEW s \in 0 .. nextBlockIndex' - 1 PROVE \E k \in Kinds, v \in Holders : s \in Slots(k, v)'
      <4>1. CASE s \in new
        BY <2>2, <2>3, <4>1, Zenon
      <4>2. CASE s \in old
        <5>1. \E k \in Kinds, v \in Holders : s \in Slots(k, v)
          BY <4>2, Zenon DEF Complete, old
        <5>. QED
          BY <2>3, <5>1, Zenon
      <4>. QED
        BY <2>1, <4>1, <4>2, Zenon
    <3>. QED
      BY <3>1, <3>2, Zenon DEF Complete
  <2>. QED
    BY <2>4, <2>5, Zenon
\* The slots of the index when it keeps its entries, loses one, gets one.
<1>IndexSame.
    ASSUME IndexKept, hash_to_master' = hash_to_master
    PROVE  Slots("index", NULL)' = Slots("index", NULL) /\ (OneSlotEach => OneSlotEach')
  <2> USE <1>IndexSame
  <2>1. InIndex' = InIndex
    BY Zenon DEF InIndex
  <2>2. \A h \in InIndex : IndexSlot(h)' = IndexSlot(h)
    BY Zenon DEF InIndex, IndexSlot, IndexKept
  <2>3. /\ Slots("index", NULL) = {IndexSlot(h) : h \in InIndex}
        /\ Slots("index", NULL)' = {IndexSlot(h)' : h \in InIndex'}
    BY SlotSets, Zenon
  <2>4. Slots("index", NULL)' = Slots("index", NULL)
    <3>1. \A s \in Slots("index", NULL)' : s \in Slots("index", NULL)
      BY <2>1, <2>2, <2>3, Zenon
    <3>2. \A s \in Slots("index", NULL) : s \in Slots("index", NULL)'
      BY <2>1, <2>2, <2>3, Zenon
    <3>. QED
      BY <3>1, <3>2, Zenon
  <2>5. ASSUME OneSlotEach PROVE OneSlotEach'
    <3>1. ASSUME NEW f \in InIndex', NEW g \in InIndex', IndexSlot(f)' = IndexSlot(g)' PROVE f = g
      BY <2>1, <2>2, <2>5, <3>1, Zenon DEF OneSlotEach
    <3>. QED
      BY <3>1, Zenon DEF OneSlotEach
  <2>. QED
    BY <2>4, <2>5, Zenon
<1>IndexLoses.
    ASSUME IndexKept, OneSlotEach, NEW h \in InIndex, \A g \in Hashes \ {h} : hash_to_master'[g] = hash_to_master[g],
           hash_to_master'[h] = NULL
    PROVE  /\ IndexSlot(h) \in Slots("index", NULL)
           /\ Slots("index", NULL)' = Slots("index", NULL) \ {IndexSlot(h)} /\ OneSlotEach'
  <2> USE <1>IndexLoses
  <2>1. InIndex' = InIndex \ {h}
    BY Zenon DEF InIndex
  <2>2. \A g \in InIndex \ {h} : IndexSlot(g)' = IndexSlot(g)
    BY Zenon DEF InIndex, IndexSlot, IndexKept
  <2>3. /\ Slots("index", NULL) = {IndexSlot(g) : g \in InIndex}
        /\ Slots("index", NULL)' = {IndexSlot(g)' : g \in InIndex'}
    BY SlotSets, Zenon
  <2>4. \A g \in InIndex : IndexSlot(g) = IndexSlot(h) => g = h
    BY Zenon DEF OneSlotEach
  <2>5. Slots("index", NULL)' = Slots("index", NULL) \ {IndexSlot(h)}
    BY <2>1, <2>2, <2>3, <2>4, SMTT(30)
  <2>6. OneSlotEach'
    <3>1. ASSUME NEW f \in InIndex', NEW g \in InIndex', IndexSlot(f)' = IndexSlot(g)' PROVE f = g
      BY <2>1, <2>2, <3>1, Zenon DEF OneSlotEach
    <3>. QED
      BY <3>1, Zenon DEF OneSlotEach
  <2>. QED
    BY <2>3, <2>5, <2>6, Zenon
<1>IndexGains.
    ASSUME IndexKept, OneSlotEach, NEW h \in Hashes, hash_to_master[h] = NULL, hash_to_master'[h] # NULL,
           \A g \in Hashes \ {h} : hash_to_master'[g] = hash_to_master[g],
           IndexSlot(h)' \notin Slots("index", NULL)
    PROVE  Slots("index", NULL)' = Slots("index", NULL) \cup {IndexSlot(h)'} /\ OneSlotEach'
  <2> USE <1>IndexGains
  <2>1. InIndex' = InIndex \cup {h} /\ h \notin InIndex
    BY DEF InIndex
  <2>2. \A g \in InIndex : IndexSlot(g)' = IndexSlot(g)
    BY <2>1, Zenon DEF InIndex, IndexSlot, IndexKept
  <2>3. /\ Slots("index", NULL) = {IndexSlot(g) : g \in InIndex}
        /\ Slots("index", NULL)' = {IndexSlot(g)' : g \in InIndex'}
    BY SlotSets, Zenon
  <2>4. \A g \in InIndex : IndexSlot(g) # IndexSlot(h)'
    BY <2>3, Zenon
  <2>5. Slots("index", NULL)' = Slots("index", NULL) \cup {IndexSlot(h)'}
    BY <2>1, <2>2, <2>3
  <2>6. OneSlotEach'
    <3>1. ASSUME NEW f \in InIndex', NEW g \in InIndex', IndexSlot(f)' = IndexSlot(g)' PROVE f = g
      BY <2>1, <2>2, <2>4, <3>1, ZenonT(30) DEF OneSlotEach
    <3>. QED
      BY <3>1, Zenon DEF OneSlotEach
  <2>. QED
    BY <2>5, <2>6, Zenon
<1>UnrepeatedStep.
    ASSUME Unrepeated, NEW t \in Threads, \A u \in Threads \ {t} : SameLocals(u),
           NoRepeats(free_block_list'), NoRepeats(out'[t]), NoRepeats(rel'[t]), OneSlotEach'
    PROVE  Unrepeated'
  <2> USE <1>UnrepeatedStep
  <2>1. ASSUME NEW u \in Threads PROVE NoRepeats(out'[u]) /\ NoRepeats(rel'[u])
    BY Zenon DEF Unrepeated, SameLocals
  <2>. QED
    BY <2>1, Zenon DEF Unrepeated, NoRepeats
\* No slot changes hands.
<1>QuietOwned.
    ASSUME Owned, NEW t \in Threads, \A u \in Threads \ {t} : SameLocals(u), nextBlockIndex' = nextBlockIndex,
           free_block_list' = free_block_list, rel'[t] = rel[t], hash_to_master' = hash_to_master, IndexKept,
           Slots("write", t)' = Slots("write", t), NoRepeats(out'[t])
    PROVE  Owned'
  <2> USE <1>QuietOwned
  <2>1. Slots("index", NULL)' = Slots("index", NULL) /\ OneSlotEach'
    BY <1>IndexSame, Zenon DEF Owned, Unrepeated
  <2>2. Slots("free", NULL)' = Slots("free", NULL) /\ Slots("release", t)' = Slots("release", t)
    BY SlotSets, Zenon
  <2>3. PICK M : M = {}
    BY Zenon
  <2>4. Unshared' /\ Complete'
    <3>1. \A kind \in Kinds : Slots(kind, Holder(kind, t))' = Slots(kind, Holder(kind, t))
      BY <2>1, <2>2, KindNames, Zenon
    <3>2. /\ M \subseteq Slots("free", Holder("free", t))
          /\ Slots("free", Holder("free", t))' = Slots("free", Holder("free", t)) \ M
          /\ Slots("index", Holder("index", t))' = Slots("index", Holder("index", t)) \cup M
      BY <2>3, <3>1, KindNames, Zenon
    <3>. QED
      BY <3>1, <3>2, KindNames, <1>Transfer, ZenonT(30) DEF Owned
  <2>5. Unrepeated'
    BY <2>1, <1>UnrepeatedStep, Zenon DEF Owned, Unrepeated
  <2>. QED
    BY <2>4, <2>5, Zenon DEF Owned
\* The local list goes to the free list.
<1>ReleaseOwned.
    ASSUME TypeInv, Owned, NEW t \in Threads, \A u \in Threads \ {t} : SameLocals(u), ReleaseSlots(t),
           nextBlockIndex' = nextBlockIndex, hash_to_master' = hash_to_master, IndexKept,
           Slots("write", t)' = Slots("write", t), NoRepeats(out'[t])
    PROVE  Owned'
  <2> USE <1>ReleaseOwned
  <2>1. Slots("index", NULL)' = Slots("index", NULL) /\ OneSlotEach'
    BY <1>IndexSame, Zenon DEF Owned, Unrepeated
  <2>2. /\ Slots("free", NULL) = Range(free_block_list) /\ Slots("free", NULL)' = Range(free_block_list')
        /\ Slots("release", t) = Range(rel[t]) /\ Slots("release", t)' = Range(rel'[t])
    BY SlotSets, Zenon
  <2>3. /\ free_block_list' = rel[t] \o free_block_list /\ rel'[t] = <<>>
        /\ rel[t] \in Seq(Nat) /\ free_block_list \in Seq(Nat) /\ NoRepeats(rel[t]) /\ NoRepeats(free_block_list)
    BY Zenon DEF ReleaseSlots, TypeInv, TypeOK, Owned, Unrepeated
  <2>4. Range(rel'[t]) = {} /\ NoRepeats(rel'[t])
    <3>1. DOMAIN rel'[t] = {}
      BY <2>3
    <3>. QED
      BY <3>1, Zenon DEF Range, NoRepeats
  <2>5. Range(rel[t]) \cap Range(free_block_list) = {}
    BY <2>2, Apart, Zenon DEF Owned
  <2>6. Range(free_block_list') = Range(rel[t]) \cup Range(free_block_list) /\ NoRepeats(free_block_list')
    BY <2>3, <2>5, <1>JoinLists, Zenon
  <2>7. PICK M : M = Range(rel[t])
    BY Zenon
  <2>8. Unshared' /\ Complete'
    <3>1. /\ \A kind \in Kinds \ {"release", "free"} : Slots(kind, Holder(kind, t))' = Slots(kind, Holder(kind, t))
      BY <2>1, KindNames, Zenon
    <3>2. /\ M \subseteq Slots("release", Holder("release", t))
          /\ Slots("release", Holder("release", t))' = Slots("release", Holder("release", t)) \ M
      BY <2>2, <2>4, <2>7, KindNames, ZenonT(30)
    <3>3. Slots("free", Holder("free", t))' = Slots("free", Holder("free", t)) \cup M
      BY <2>2, <2>6, <2>7, KindNames, ZenonT(30)
    <3>. QED
      BY <3>1, <3>2, <3>3, KindNames, <1>Transfer, ZenonT(30) DEF Owned
  <2>9. Unrepeated'
    BY <2>1, <2>4, <2>6, <1>UnrepeatedStep, ZenonT(30) DEF Owned, Unrepeated
  <2>. QED
    BY <2>8, <2>9, Zenon DEF Owned
\* The last reference of a MasterInfo: its slot goes to the local list.
<1>DropOwned. ASSUME TypeInv, RefInv, Owned, NEW t \in Threads, \A u \in Threads \ {t} : SameLocals(u),
           nextBlockIndex' = nextBlockIndex, free_block_list' = free_block_list, IndexKept,
           NEW m \in InfoIds, Published(m), info[m].refcount = 1, DropReference(t, m),
           Slots("write", t)' = Slots("write", t), NoRepeats(out'[t])
    PROVE  Owned'
  <2> USE <1>DropOwned
  <2>1. PICK h \in Hashes : h = info[m].hash /\ hash_to_master[h] = m
    BY PublishedLive, Zenon
  <2>2. PICK s \in Nat : s = info[m].masterBlockIndex
    BY InfoTypes, Zenon DEF TypeInv
  <2>3. /\ rel'[t] = <<s>> \o rel[t] /\ hash_to_master'[h] = NULL
        /\ \A g \in Hashes \ {h} : hash_to_master'[g] = hash_to_master[g]
    <3>1. rel' = [rel EXCEPT ![t] = <<s>> \o @] /\ hash_to_master' = [hash_to_master EXCEPT ![h] = NULL]
      BY <2>1, <2>2, Zenon DEF DropReference
    <3>. QED
      BY <3>1, Zenon DEF TypeInv, TypeOK
  <2>4. h \in InIndex /\ IndexSlot(h) = s
    BY <2>1, <2>2, NullAssumption, Zenon DEF InIndex, IndexSlot
  <2>5. /\ s \in Slots("index", NULL) /\ Slots("index", NULL)' = Slots("index", NULL) \ {s} /\ OneSlotEach'
    BY <2>3, <2>4, <1>IndexLoses, Zenon DEF Owned, Unrepeated
  <2>6. /\ Slots("free", NULL)' = Slots("free", NULL) /\ Slots("release", t) = Range(rel[t])
        /\ Slots("release", t)' = Range(rel'[t])
    BY SlotSets, Zenon
  <2>7. s \notin Range(rel[t])
    <3>1. \A x \in Slots("index", NULL) : x \notin Slots("release", t)
      BY Apart, Zenon DEF Owned
    <3>. QED
      BY <2>5, <2>6, <3>1, Zenon
  <2>8. rel[t] \in Seq(Nat) /\ NoRepeats(rel[t])
    BY LocalTypes, Zenon DEF TypeInv, Owned, Unrepeated
  <2>9. Range(rel'[t]) = Range(rel[t]) \cup {s} /\ NoRepeats(rel'[t])
    BY <2>3, <2>7, <2>8, <1>ConsList, ZenonT(30)
  <2>10. Unshared' /\ Complete'
    <3>1. /\ \A kind \in Kinds \ {"index", "release"} : Slots(kind, Holder(kind, t))' = Slots(kind, Holder(kind, t))
      BY <2>6, KindNames, Zenon
    <3>2. /\ {s} \subseteq Slots("index", Holder("index", t))
          /\ Slots("index", Holder("index", t))' = Slots("index", Holder("index", t)) \ {s}
          /\ Slots("release", Holder("release", t))' = Slots("release", Holder("release", t)) \cup {s}
      BY <2>5, <2>6, <2>9, KindNames, ZenonT(30)
    <3>. QED
      BY <3>1, <3>2, KindNames, <1>Transfer, ZenonT(30) DEF Owned
  <2>11. Unrepeated'
    BY <2>5, <2>9, <1>UnrepeatedStep, Zenon DEF Owned, Unrepeated
  <2>. QED
    BY <2>10, <2>11, Zenon DEF Owned
<1>CalmWrites. ASSUME TypeInv, NEW t \in Threads, SlotsPlaced(t), NoRepeats(out[t]), Calm(t)
    PROVE  Slots("write", t)' = Slots("write", t)
  <2> USE <1>CalmWrites
  <2>1. plan' = plan /\ out' = out /\ <<pc[t], pc'[t]>> \in CalmSteps
    BY CalmStep, Zenon
  <2>2. /\ pc[t] # "publish" /\ (pc[t] \in PlacedSteps <=> pc'[t] \in PlacedSteps)
        /\ pc'[t] = "publish" => pc[t] = "p3lock"
    BY <2>1, CalmClasses, Zenon
  <2>3. CASE pc'[t] # "publish"
    <3>1. CASE pc[t] \in PlacedSteps
      BY <2>2, <3>1, WriteSlots, Zenon
    <3>2. CASE pc[t] \notin PlacedSteps
      BY <2>1, <2>2, <2>3, <3>2, WriteSlots, ZenonT(30)
    <3>. QED
      BY <3>1, <3>2, Zenon
  <2>4. CASE pc'[t] = "publish"
    <3>1. pc[t] = "p3lock" /\ pc[t] \in AllocatedSteps /\ "p3lock" \notin PlacedSteps
      BY <2>2, <2>4 DEF AllocatedSteps, PlacedSteps
    <3>2. blk'[t] = 1
      <4>1. P3Lock(t)
        BY <3>1, Zenon DEF Calm, Start, StartWrite, StartUnlink, StartTruncate, Arrive, P1Lock, P1Take, P1Unlock, FlushRun,
           FlushFail, MapBlock, P3Unlock, RbLock, RbHit, RbUnlock, RbRelease, RmLock, RmBlock, RmUnlock, RmRelease
      <4>2. LoopShape(t) /\ pc[t] \notin LoopSteps \cup {"flush"}
        BY <3>1, Parts DEF LoopSteps
      <4>. QED
        BY <4>1, <4>2, ZenonT(30) DEF P3Lock, LoopShape
    <3>3. Misses(t)' = Misses(t) /\ \A j \in Misses(t) : j >= 1
      <4>1. Misses(t) \subseteq DOMAIN plan[t] /\ DOMAIN plan[t] = 1 .. Len(plan[t])
        BY EntryRange, PlanRange, Zenon
      <4>2. \A j \in 1 .. Len(plan[t]) : j >= 1
        OBVIOUS
      <4>. QED
        BY <2>1, <4>1, <4>2, Zenon DEF Misses
    <3>4. Reserved(t)' = {plan[t][j].rank : j \in Misses(t)}
      <4>1. Reserved(t)' = {plan'[t][j].rank : j \in {k \in Misses(t)' : k >= blk'[t]}}
        BY <2>4, Zenon DEF Reserved
      <4>2. {k \in Misses(t)' : k >= blk'[t]} = Misses(t)
        BY <3>2, <3>3, Zenon
      <4>. QED
        BY <2>1, <4>1, <4>2, Zenon
    <3>5. Reserved(t)' = DOMAIN out[t]
      BY <3>1, <3>4, OwnSlots, Zenon
    <3>6. Slots("write", t)' = {out'[t][i] : i \in Reserved(t)'} /\ Slots("write", t) = Range(out[t])
      BY <3>1, SlotSets, WriteSlots, Zenon
    <3>. QED
      BY <2>1, <3>5, <3>6, ZenonT(30) DEF Range
  <2>. QED
    BY <2>3, <2>4, Zenon
<1>CalmOwned. ASSUME TypeInv, RefInv, Owned, NEW t \in Threads, \A u \in Threads \ {t} : SameLocals(u), IndexKept,
           SlotsPlaced(t), Calm(t)
    PROVE  Owned'
  <2> USE <1>CalmOwned
  <2>1. out' = out /\ nextBlockIndex' = nextBlockIndex /\ NoRepeats(out[t])
    BY CalmStep, Zenon DEF Owned, Unrepeated
  <2>2. Slots("write", t)' = Slots("write", t) /\ NoRepeats(out'[t])
    BY <2>1, <1>CalmWrites, Zenon
  <2>3. CASE UNCHANGED <<free_block_list, hash_to_master, rel>>
    BY <2>1, <2>2, <2>3, <1>QuietOwned, ZenonT(30)
  <2>4. CASE /\ \E m \in InfoIds : Published(m) /\ info[m].refcount = 1 /\ DropReference(t, m)
             /\ UNCHANGED free_block_list
    BY <2>1, <2>2, <2>4, <1>DropOwned, ZenonT(30)
  <2>5. CASE ReleaseSlots(t) /\ UNCHANGED hash_to_master
    BY <2>1, <2>2, <2>5, <1>ReleaseOwned, ZenonT(30)
  <2>. QED
    BY <2>3, <2>4, <2>5, CalmCases, ZenonT(30)
\* allocate_batch_storage_first: the head of the free list goes to the write.
<1>DrainOwned. ASSUME TypeInv, Owned, NEW t \in Threads, \A u \in Threads \ {t} : SameLocals(u), IndexKept, Drain(t)
    PROVE  Owned'
  <2> USE <1>DrainOwned
  <2>1. /\ pc[t] = "drain" /\ pc'[t] = "append" /\ out'[t] = SubSeq(free_block_list, 1, Taken(t))
        /\ free_block_list' = SubSeq(free_block_list, Taken(t) + 1, Len(free_block_list))
        /\ nextBlockIndex' = nextBlockIndex /\ rel' = rel /\ hash_to_master' = hash_to_master
    <3>1. DOMAIN pc = Threads /\ DOMAIN out = Threads
      BY Zenon DEF TypeInv, TypeOK
    <3>. QED
      BY <3>1, Zenon DEF Drain, Goto, index
  <2>2. /\ free_block_list \in Seq(Nat) /\ NoRepeats(free_block_list) /\ NoRepeats(rel[t]) /\ OneSlotEach
        /\ Unshared /\ Complete
    BY Zenon DEF TypeInv, TypeOK, Owned, Unrepeated
  <2>3. Taken(t) \in Nat /\ Taken(t) <= Len(free_block_list)
    <3>1. miss_count[t] \in Nat /\ Len(free_block_list) \in Nat
      BY <2>2, LocalTypes DEF TypeInv
    <3>2. Taken(t) \in {miss_count[t], Len(free_block_list)} /\ Taken(t) <= Len(free_block_list)
      <4>1. miss_count[t] \in Int /\ Len(free_block_list) \in Int
        BY <3>1
      <4>. QED
        BY <4>1, PairMinMax, Zenon DEF Taken
    <3>. QED
      BY <3>1, <3>2, SMTT(30)
  <2>4. /\ NoRepeats(out'[t]) /\ NoRepeats(free_block_list')
        /\ Range(out'[t]) \subseteq Range(free_block_list)
        /\ Range(free_block_list') = Range(free_block_list) \ Range(out'[t])
    BY <2>1, <2>2, <2>3, <1>SplitList, ZenonT(30)
  <2>5. Slots("write", t) = {}
    <3>1. out[t] = <<>> /\ pc[t] \notin PlacedSteps \cup {"publish"}
      <4>1. SlotShape(t)
        BY Parts, Zenon
      <4>. QED
        BY <2>1, <4>1 DEF SlotShape, AllocatedSteps, PlacedSteps
    <3>2. DOMAIN out[t] = {}
      BY <3>1
    <3>. QED
      BY <3>1, <3>2, WriteSlots, ZenonT(30) DEF Range
  <2>6. Slots("write", t)' = Range(out'[t])
    <3>1. pc'[t] \notin PlacedSteps \cup {"publish"}
      BY <2>1 DEF PlacedSteps
    <3>. QED
      BY <3>1, WriteSlots, ZenonT(30)
  <2>7. Slots("free", NULL) = Range(free_block_list) /\ Slots("free", NULL)' = Range(free_block_list')
        /\ Slots("release", t)' = Slots("release", t)
    BY <2>1, SlotSets, Zenon
  <2>8. Slots("index", NULL)' = Slots("index", NULL) /\ OneSlotEach'
    BY <2>1, <2>2, <1>IndexSame, ZenonT(30)
  <2>9. PICK M : M = Range(out'[t])
    BY Zenon
  <2>10. Unshared' /\ Complete'
    <3>1. /\ \A kind \in Kinds \ {"free", "write"} : Slots(kind, Holder(kind, t))' = Slots(kind, Holder(kind, t))
      BY <2>7, <2>8, KindNames, ZenonT(30)
    <3>2. /\ M \subseteq Slots("free", Holder("free", t))
          /\ Slots("free", Holder("free", t))' = Slots("free", Holder("free", t)) \ M
      BY <2>4, <2>7, <2>9, KindNames, ZenonT(30)
    <3>3. Slots("write", Holder("write", t))' = Slots("write", Holder("write", t)) \cup M
      BY <2>5, <2>6, <2>9, KindNames, ZenonT(30)
    <3>. QED
      BY <2>1, <2>2, <3>1, <3>2, <3>3, KindNames, <1>Transfer, ZenonT(30)
  <2>11. Unrepeated'
    BY <2>1, <2>2, <2>4, <2>8, <1>UnrepeatedStep, ZenonT(30) DEF Owned
  <2>. QED
    BY <2>10, <2>11, Zenon DEF Owned
\* ... and the remainder comes from the append point.
<1>AppendOwned. ASSUME TypeInv, Owned, NEW t \in Threads, \A u \in Threads \ {t} : SameLocals(u), IndexKept, AppendSlots(t)
    PROVE  Owned'
  <2> USE <1>AppendOwned
  <2>. DEFINE new == [k \in 1 .. miss_count[t] - Len(out[t]) |-> nextBlockIndex + k - 1]
  <2>1. /\ pc[t] = "append" /\ pc'[t] = "flush" /\ out'[t] = out[t] \o new
        /\ nextBlockIndex' = nextBlockIndex + (miss_count[t] - Len(out[t]))
        /\ free_block_list' = free_block_list /\ rel' = rel /\ hash_to_master' = hash_to_master
    <3>1. DOMAIN pc = Threads /\ DOMAIN out = Threads
      BY Zenon DEF TypeInv, TypeOK
    <3>. QED
      BY <3>1, ZenonT(30) DEF AppendSlots, Goto
  <2>2. /\ out[t] \in Seq(Nat) /\ NoRepeats(free_block_list) /\ NoRepeats(rel[t]) /\ NoRepeats(out[t]) /\ OneSlotEach
        /\ Unshared /\ Complete /\ nextBlockIndex \in Nat /\ TypeOK
    BY LocalTypes, ZenonT(30) DEF TypeInv, TypeOK, Owned, Unrepeated
  <2>3. PICK r \in Nat : r = miss_count[t] - Len(out[t])
    <3>1. miss_count[t] \in Nat /\ Len(out[t]) \in Nat /\ Len(out[t]) <= miss_count[t]
      BY <2>1, <2>2, Parts, LocalTypes, SMTT(30) DEF SlotShape
    <3>. QED
      BY <3>1, SMTT(30)
  <2>4. /\ new \in Seq(Nat) /\ DOMAIN new = 1 .. r /\ \A k \in 1 .. r : new[k] = nextBlockIndex + k - 1
    BY <2>2, <2>3
  <2>. HIDE DEF new
  <2>5. NoRepeats(new) /\ Range(new) = nextBlockIndex .. nextBlockIndex + r - 1
    <3>1. \A i, k \in 1 .. r : nextBlockIndex + i - 1 = nextBlockIndex + k - 1 => i = k
      BY <2>2
    <3>2. NoRepeats(new)
      BY <2>4, <3>1, Zenon DEF NoRepeats
    <3>3. \A k \in 1 .. r : nextBlockIndex + k - 1 \in nextBlockIndex .. nextBlockIndex + r - 1
      BY <2>2
    <3>4. \A s \in nextBlockIndex .. nextBlockIndex + r - 1 : \E k \in 1 .. r : s = nextBlockIndex + k - 1
      <4>1. ASSUME NEW s \in nextBlockIndex .. nextBlockIndex + r - 1
            PROVE  s - nextBlockIndex + 1 \in 1 .. r /\ s = nextBlockIndex + (s - nextBlockIndex + 1) - 1
        BY <2>2
      <4>. QED
        BY <4>1, Zenon
    <3>5. \A x \in Range(new) : x \in nextBlockIndex .. nextBlockIndex + r - 1
      BY <2>4, <3>3, Zenon DEF Range
    <3>6. \A x \in nextBlockIndex .. nextBlockIndex + r - 1 : x \in Range(new)
      BY <2>4, <3>4, ZenonT(30) DEF Range
    <3>. QED
      BY <3>2, <3>5, <3>6, ZenonT(30)
  <2>6. Slots("write", t) = Range(out[t]) /\ Slots("write", t)' = Range(out'[t])
    <3>1. pc[t] \notin PlacedSteps \cup {"publish"} /\ pc'[t] \notin PlacedSteps \cup {"publish"}
      BY <2>1 DEF PlacedSteps
    <3>. QED
      BY <3>1, WriteSlots, Zenon
  <2>7. Range(out[t]) \cap Range(new) = {}
    <3>1. Range(out[t]) \subseteq 0 .. nextBlockIndex - 1
      <4>1. "write" \in Kinds /\ t \in Holders
        BY KindNames, Zenon DEF Holders
      <4>. QED
        BY <2>2, <2>6, <4>1, ZenonT(30) DEF Complete
    <3>2. \A s \in 0 .. nextBlockIndex - 1 : s \notin nextBlockIndex .. nextBlockIndex + r - 1
      BY <2>2
    <3>. QED
      BY <2>5, <3>1, <3>2, ZenonT(30)
  <2>8. NoRepeats(out'[t]) /\ Range(out'[t]) = Range(out[t]) \cup Range(new)
    BY <2>1, <2>2, <2>4, <2>5, <2>7, <1>JoinLists, ZenonT(30)
  <2>9. Slots("index", NULL)' = Slots("index", NULL) /\ OneSlotEach'
    BY <2>1, <2>2, <1>IndexSame, ZenonT(30)
  <2>10. Slots("free", NULL)' = Slots("free", NULL) /\ Slots("release", t)' = Slots("release", t)
    BY <2>1, SlotSets, ZenonT(30)
  <2>11. Unshared' /\ Complete'
    <3>1. \A kind \in Kinds \ {"write"} : Slots(kind, Holder(kind, t))' = Slots(kind, Holder(kind, t))
      BY <2>9, <2>10, KindNames, ZenonT(30)
    <3>2. Slots("write", t)' = Slots("write", t) \cup (nextBlockIndex .. nextBlockIndex + r - 1)
      BY <2>5, <2>6, <2>8, ZenonT(30)
    <3>3. nextBlockIndex' = nextBlockIndex + r
      BY <2>1, <2>3, Zenon
    <3>. QED
      BY <2>2, <3>1, <3>2, <3>3, <1>Reserve, ZenonT(30)
  <2>12. Unrepeated'
    BY <2>1, <2>2, <2>8, <2>9, <1>UnrepeatedStep, ZenonT(30) DEF Owned
  <2>. QED
    BY <2>11, <2>12, ZenonT(30) DEF Owned
\* The slots of the blocks that Passe 3 has still to publish.
<1>PublishSlots. ASSUME TypeInv, NEW t \in Threads, SlotsPlaced(t), NoRepeats(out[t]), PublishBlock(t)
    PROVE  /\ blk[t] \notin Pending(t) => Slots("write", t)' = Slots("write", t)
           /\ blk[t] \in Pending(t) =>
                /\ MasterBlk(t, blk[t]) \in Slots("write", t) /\ MasterBlk(t, blk[t]) \in Nat
                /\ Slots("write", t)' = Slots("write", t) \ {MasterBlk(t, blk[t])}
  <2> USE <1>PublishSlots
  <2>1. /\ pc[t] = "publish" /\ pc'[t] \in {"publish", "map"} /\ blk[t] \in DOMAIN plan[t]
        /\ Misses(t)' = Misses(t) /\ \A j \in Misses(t) : plan'[t][j].rank = plan[t][j].rank
        /\ Pending(t)' = Pending(t) \ {blk[t]} /\ out' = out
    BY PublishPlan, Zenon
  <2>2. Pending(t) \subseteq Misses(t) /\ Pending(t)' \subseteq Misses(t)
    BY <2>1, EntryRange, Zenon
  <2>3. Reserved(t) = {plan[t][j].rank : j \in Pending(t)}
    BY <2>1, Zenon DEF Reserved, Pending
  <2>4. Reserved(t)' = {plan[t][j].rank : j \in Pending(t)'}
    <3>1. Reserved(t)' = {plan'[t][j].rank : j \in Pending(t)'}
      BY <2>1 DEF Reserved, Pending
    <3>. QED
      BY <2>1, <2>2, <3>1, SMTT(30)
  <2>5. /\ Slots("write", t) = {out[t][i] : i \in Reserved(t)}
        /\ Slots("write", t)' = {out'[t][i] : i \in Reserved(t)'}
    BY SlotSets, Zenon
  <2>6. /\ \A j \in Misses(t) : MasterBlk(t, j) \in Nat
        /\ \A i, j \in Misses(t) : MasterBlk(t, i) = MasterBlk(t, j) => i = j
    <3>1. pc[t] \in AllocatedSteps
      BY <2>1 DEF AllocatedSteps
    <3>. QED
      BY <3>1, OwnSlots, ZenonT(30)
  <2>7. Slots("write", t) = {MasterBlk(t, j) : j \in Pending(t)}
    BY <2>3, <2>5, Zenon DEF MasterBlk
  <2>8. \A s : s \in Slots("write", t)' <=> \E j \in Pending(t) \ {blk[t]} : s = MasterBlk(t, j)
    BY <2>1, <2>4, <2>5, ZenonT(30) DEF MasterBlk
  <2>9. ASSUME blk[t] \notin Pending(t) PROVE Slots("write", t)' = Slots("write", t)
    <3>1. Pending(t) \ {blk[t]} = Pending(t)
      BY <2>9, Zenon
    <3>. QED
      BY <2>7, <2>8, <3>1, Zenon
  <2>10. ASSUME blk[t] \in Pending(t) PROVE Slots("write", t)' = Slots("write", t) \ {MasterBlk(t, blk[t])}
    <3>1. \A j \in Pending(t) \ {blk[t]} : MasterBlk(t, j) # MasterBlk(t, blk[t])
      BY <2>2, <2>6, <2>10, Zenon
    <3>. QED
      BY <2>7, <2>8, <3>1, ZenonT(30)
  <2>11. blk[t] \in Pending(t) => MasterBlk(t, blk[t]) \in Slots("write", t) /\ MasterBlk(t, blk[t]) \in Nat
    BY <2>2, <2>6, <2>7, ZenonT(30)
  <2>. QED
    BY <2>9, <2>10, <2>11, Zenon
<1>PublishOwned. ASSUME TypeInv, RefInv, Owned, NEW t \in Threads, \A u \in Threads \ {t} : SameLocals(u), IndexKept,
           SlotsPlaced(t), PublishBlock(t)
    PROVE  Owned'
  <2> USE <1>PublishOwned
  <2>1. /\ pc[t] = "publish" /\ free_block_list' = free_block_list /\ nextBlockIndex' = nextBlockIndex /\ out' = out
        /\ NoRepeats(out[t]) /\ NoRepeats(rel[t]) /\ NoRepeats(free_block_list) /\ OneSlotEach /\ Unshared /\ Complete
        /\ rel[t] \in Seq(Nat) /\ DOMAIN rel = Threads /\ hash_to_master \in [Hashes -> InfoIds \cup {NULL}]
    <3>1. /\ NoRepeats(out[t]) /\ NoRepeats(rel[t]) /\ NoRepeats(free_block_list) /\ OneSlotEach /\ Unshared /\ Complete
      BY Zenon DEF Owned, Unrepeated
    <3>2. rel[t] \in Seq(Nat) /\ DOMAIN rel = Threads /\ hash_to_master \in [Hashes -> InfoIds \cup {NULL}]
      BY LocalTypes, Zenon DEF TypeInv, TypeOK
    <3>. QED
      BY <3>1, <3>2, PublishPlan, ZenonT(30)
  <2>2. CASE Skipped(t)
    <3>1. Slots("write", t)' = Slots("write", t)
      BY <2>1, <2>2, <1>PublishSlots, Zenon DEF Skipped
    <3>. QED
      BY <2>1, <2>2, <3>1, <1>QuietOwned, ZenonT(30) DEF Skipped
  <2>3. CASE GivesWay(t) \/ Inserted(t)
    <3>1. blk[t] \in Pending(t)
      BY <2>3, Zenon DEF GivesWay, Inserted
    <3>2. PICK s \in Nat : s = MasterBlk(t, blk[t])
      BY <2>1, <3>1, <1>PublishSlots, ZenonT(30)
    <3>3. s \in Slots("write", t) /\ Slots("write", t)' = Slots("write", t) \ {s}
      BY <2>1, <3>1, <3>2, <1>PublishSlots, ZenonT(30)
    <3>4. s \notin Slots("index", NULL) /\ s \notin Slots("release", t)
      <4>1. \A x \in Slots("write", t) : x \notin Slots("index", NULL) /\ x \notin Slots("release", t)
        BY <2>1, Apart, Zenon
      <4>. QED
        BY <3>3, <4>1, Zenon
    <3>5. Slots("free", NULL)' = Slots("free", NULL)
      BY <2>1, SlotSets, Zenon
    <3>6. /\ Slots("release", t) = Range(rel[t]) /\ Slots("release", t)' = Range(rel'[t])
      BY SlotSets, Zenon
    <3>7. /\ {s} \subseteq Slots("write", Holder("write", t))
          /\ Slots("write", Holder("write", t))' = Slots("write", Holder("write", t)) \ {s}
      BY <3>3, KindNames, Zenon
    <3>8. CASE GivesWay(t)
      <4>1. rel'[t] = <<s>> \o rel[t] /\ hash_to_master' = hash_to_master
        BY <2>1, <3>2, <3>8, ZenonT(30) DEF GivesWay
      <4>2. Range(rel'[t]) = Range(rel[t]) \cup {s} /\ NoRepeats(rel'[t])
        BY <2>1, <3>4, <3>6, <4>1, <1>ConsList, ZenonT(30)
      <4>3. Slots("index", NULL)' = Slots("index", NULL) /\ OneSlotEach'
        BY <2>1, <4>1, <1>IndexSame, Zenon
      <4>4. Unshared' /\ Complete'
        <5>1. \A kind \in Kinds \ {"write", "release"} : Slots(kind, Holder(kind, t))' = Slots(kind, Holder(kind, t))
          BY <3>5, <4>3, KindNames, ZenonT(30)
        <5>2. Slots("release", Holder("release", t))' = Slots("release", Holder("release", t)) \cup {s}
          BY <3>6, <4>2, KindNames, ZenonT(30)
        <5>. QED
          BY <2>1, <3>7, <5>1, <5>2, KindNames, <1>Transfer, ZenonT(30)
      <4>5. Unrepeated'
        BY <2>1, <4>2, <4>3, <1>UnrepeatedStep, ZenonT(30) DEF Owned
      <4>. QED
        BY <4>4, <4>5, Zenon DEF Owned
    <3>9. CASE Inserted(t)
      <4>1. PICK m \in InfoIds : m = plan[t][blk[t]].info
        BY <3>9, Zenon DEF Inserted
      <4>2. PICK h \in Hashes : h = info[m].hash
        BY <3>9, <4>1, Zenon DEF Inserted
      <4>3. /\ hash_to_master[h] = NULL /\ hash_to_master' = [hash_to_master EXCEPT ![h] = m] /\ info' = info /\ rel' = rel
        BY <3>9, <4>1, <4>2, ZenonT(30) DEF Inserted
      <4>4. hash_to_master'[h] = m /\ \A g \in Hashes \ {h} : hash_to_master'[g] = hash_to_master[g]
        BY <2>1, <4>3, Zenon
      <4>5. IndexSlot(h)' = s
        <5>1. pc[t] \in AllocatedSteps
          BY <2>1 DEF AllocatedSteps
        <5>2. info[m].masterBlockIndex = s
          BY <3>1, <3>2, <4>1, <5>1, ZenonT(30) DEF SlotsPlaced
        <5>. QED
          BY <4>3, <4>4, <5>2, ZenonT(30) DEF IndexSlot
      <4>6. Slots("index", NULL)' = Slots("index", NULL) \cup {s} /\ OneSlotEach'
        <5>1. hash_to_master'[h] # NULL
          BY <4>4, NullAssumption, Zenon
        <5>2. Slots("index", NULL)' = Slots("index", NULL) \cup {IndexSlot(h)'} /\ OneSlotEach'
          BY <2>1, <3>4, <4>3, <4>4, <4>5, <5>1, <1>IndexGains, ZenonT(30)
        <5>. QED
          BY <4>5, <5>2, Zenon
      <4>7. Unshared' /\ Complete'
        <5>1. \A kind \in Kinds \ {"write", "index"} : Slots(kind, Holder(kind, t))' = Slots(kind, Holder(kind, t))
          BY <3>5, <3>6, <4>3, KindNames, ZenonT(30)
        <5>2. Slots("index", Holder("index", t))' = Slots("index", Holder("index", t)) \cup {s}
          BY <4>6, KindNames, Zenon
        <5>. QED
          BY <2>1, <3>7, <5>1, <5>2, KindNames, <1>Transfer, ZenonT(30)
      <4>8. Unrepeated'
        BY <2>1, <4>3, <4>6, <1>UnrepeatedStep, ZenonT(30) DEF Owned
      <4>. QED
        BY <4>7, <4>8, Zenon DEF Owned
    <3>. QED
      BY <2>3, <3>8, <3>9, ZenonT(30)
  <2>. QED
    BY <2>2, <2>3, PublishCases, ZenonT(30)
\* rollback_allocations returns every slot of the batch.
<1>RbMissesOwned. ASSUME TypeInv, Owned, NEW t \in Threads, \A u \in Threads \ {t} : SameLocals(u), IndexKept, RbMisses(t)
    PROVE  Owned'
  <2> USE <1>RbMissesOwned
  <2>1. /\ pc[t] = "rbmisses" /\ pc'[t] = "idle" /\ out'[t] = <<>> /\ free_block_list' = Returned(t) \o free_block_list
        /\ nextBlockIndex' = nextBlockIndex /\ rel' = rel /\ hash_to_master' = hash_to_master
    <3>1. DOMAIN pc = Threads /\ DOMAIN out = Threads
      BY Zenon DEF TypeInv, TypeOK
    <3>. QED
      BY <3>1, Zenon DEF RbMisses, Return, Goto
  <2>2. /\ NoRepeats(out[t]) /\ NoRepeats(rel[t]) /\ NoRepeats(free_block_list) /\ OneSlotEach /\ Unshared /\ Complete
        /\ free_block_list \in Seq(Nat) /\ TypeOK
    BY Zenon DEF Owned, Unrepeated, TypeInv, TypeOK
  <2>3. Slots("write", t) = Range(out[t]) /\ Slots("write", t)' = {}
    <3>1. pc[t] \notin PlacedSteps \cup {"publish"} /\ pc'[t] \notin PlacedSteps \cup {"publish"}
      BY <2>1 DEF PlacedSteps
    <3>2. DOMAIN out'[t] = {}
      BY <2>1
    <3>. QED
      BY <3>1, <3>2, WriteSlots, ZenonT(30) DEF Range
  <2>4. /\ Slots("free", NULL) = Range(free_block_list) /\ Slots("free", NULL)' = Range(free_block_list')
        /\ Slots("release", t)' = Slots("release", t)
    BY <2>1, SlotSets, Zenon
  <2>5. Returned(t) \in Seq(Nat) /\ Range(Returned(t)) = Range(out[t]) /\ NoRepeats(Returned(t))
    BY <2>2, <1>ReturnedList, Zenon
  <2>6. Range(Returned(t)) \cap Range(free_block_list) = {}
    <3>1. \A s \in Slots("free", NULL) : s \notin Slots("write", t)
      BY <2>2, Apart, Zenon
    <3>. QED
      BY <2>3, <2>4, <2>5, <3>1, ZenonT(30)
  <2>7. Range(free_block_list') = Range(out[t]) \cup Range(free_block_list) /\ NoRepeats(free_block_list')
    BY <2>1, <2>2, <2>5, <2>6, <1>JoinLists, ZenonT(30)
  <2>8. Slots("index", NULL)' = Slots("index", NULL) /\ OneSlotEach'
    BY <2>1, <2>2, <1>IndexSame, ZenonT(30)
  <2>9. NoRepeats(out'[t])
    <3>1. DOMAIN out'[t] = {}
      BY <2>1
    <3>. QED
      BY <3>1, Zenon DEF NoRepeats
  <2>10. PICK M : M = Range(out[t])
    BY Zenon
  <2>11. Unshared' /\ Complete'
    <3>1. \A kind \in Kinds \ {"write", "free"} : Slots(kind, Holder(kind, t))' = Slots(kind, Holder(kind, t))
      BY <2>4, <2>8, KindNames, ZenonT(30)
    <3>2. /\ M \subseteq Slots("write", Holder("write", t))
          /\ Slots("write", Holder("write", t))' = Slots("write", Holder("write", t)) \ M
      BY <2>3, <2>10, KindNames, ZenonT(30)
    <3>3. Slots("free", Holder("free", t))' = Slots("free", Holder("free", t)) \cup M
      BY <2>4, <2>7, <2>10, KindNames, ZenonT(30)
    <3>. QED
      BY <2>1, <2>2, <3>1, <3>2, <3>3, KindNames, <1>Transfer, ZenonT(30)
  <2>12. Unrepeated'
    BY <2>1, <2>2, <2>7, <2>8, <2>9, <1>UnrepeatedStep, ZenonT(30) DEF Owned
  <2>. QED
    BY <2>11, <2>12, Zenon DEF Owned
<1>. SUFFICES ASSUME NEW t \in Threads, Start(t) \/ Step(t) PROVE Owned'
  BY Zenon
<1>1. IndexKept /\ SlotsPlaced(t) /\ TypeOK /\ NoRepeats(out[t]) /\ SlotShape(t)
  BY SlotsKept, Parts, Zenon DEF Placed, Owned, Unrepeated
<1>2. \A u \in Threads \ {t} : SameLocals(u)
  BY <1>1, OthersUnchanged, Zenon
<1>3. CASE P3Release(t) \/ SetSize(t)
  <2>1. /\ pc[t] \in {"p3release", "setsize"} /\ pc'[t] = "idle" /\ out'[t] = <<>>
        /\ nextBlockIndex' = nextBlockIndex /\ hash_to_master' = hash_to_master
    <3>1. DOMAIN pc = Threads /\ DOMAIN out = Threads
      BY <1>1, Zenon DEF TypeOK
    <3>. QED
      BY <1>3, <3>1, Zenon DEF P3Release, SetSize, Return, Goto, index, store
  <2>2. DOMAIN out'[t] = {}
    BY <2>1
  <2>3. Slots("write", t)' = {}
    <3>1. pc'[t] \notin PlacedSteps \cup {"publish"}
      BY <2>1 DEF PlacedSteps
    <3>. QED
      BY <2>2, <3>1, WriteSlots, ZenonT(30) DEF Range
  <2>4. Slots("write", t) = {}
    <3>1. CASE pc[t] = "p3release"
      BY <3>1, WriteSlots, Zenon DEF PlacedSteps
    <3>2. CASE pc[t] = "setsize"
      <4>1. out[t] = <<>> /\ pc[t] \notin PlacedSteps \cup {"publish"}
        BY <1>1, <3>2 DEF SlotShape, AllocatedSteps, PlacedSteps
      <4>2. DOMAIN out[t] = {}
        BY <4>1
      <4>. QED
        BY <4>1, <4>2, WriteSlots, ZenonT(30) DEF Range
    <3>. QED
      BY <2>1, <3>1, <3>2, ZenonT(30)
  <2>5. NoRepeats(out'[t])
    BY <2>2, Zenon DEF NoRepeats
  <2>6. CASE P3Release(t)
    <3>1. ReleaseSlots(t)
      BY <2>6, Zenon DEF P3Release
    <3>. QED
      BY <1>1, <1>2, <2>1, <2>3, <2>4, <2>5, <3>1, <1>ReleaseOwned, ZenonT(30)
  <2>7. CASE SetSize(t)
    <3>1. free_block_list' = free_block_list /\ rel' = rel
      BY <2>7, Zenon DEF SetSize, store
    <3>. QED
      BY <1>1, <1>2, <2>1, <2>3, <2>4, <2>5, <3>1, <1>QuietOwned, ZenonT(30)
  <2>. QED
    BY <1>3, <2>6, <2>7, Zenon
<1>4. CASE P1Hit(t) \/ P1Miss(t)
  <2>1. /\ pc[t] = "p1" /\ pc'[t] \in {"p1", "p1take", "p1unlock"}
        /\ UNCHANGED <<free_block_list, nextBlockIndex, rel, out, hash_to_master>>
    <3>1. DOMAIN pc = Threads
      BY <1>1, Zenon DEF TypeOK
    <3>. QED
      BY <1>4, <3>1, Zenon DEF P1Hit, P1Miss, NextBlock, Goto, index, store
  <2>2. pc[t] \notin PlacedSteps \cup {"publish"} /\ pc'[t] \notin PlacedSteps \cup {"publish"}
    BY <2>1 DEF PlacedSteps
  <2>3. Slots("write", t)' = Slots("write", t)
    BY <2>1, <2>2, WriteSlots, ZenonT(30)
  <2>. QED
    BY <1>1, <1>2, <2>1, <2>3, <1>QuietOwned, ZenonT(30)
<1>5. CASE Drain(t) \/ AppendSlots(t) \/ RbMisses(t)
  BY <1>1, <1>2, <1>5, <1>DrainOwned, <1>AppendOwned, <1>RbMissesOwned, ZenonT(30)
<1>6. CASE PublishBlock(t) \/ Calm(t)
  BY <1>1, <1>2, <1>6, <1>PublishOwned, <1>CalmOwned, ZenonT(30)
<1>. QED
  BY <1>3, <1>4, <1>5, <1>6, ZenonT(30) DEF Step, Calm

=============================================================================
