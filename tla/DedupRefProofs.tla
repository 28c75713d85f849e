--------------------------- MODULE DedupRefProofs ---------------------------
(***************************************************************************)
(* The references of Dedup: its steps keep RefInv, and with it FileInv,    *)
(* which the refinement of FileStore rests on.                             *)
(***************************************************************************)
EXTENDS DedupTypeProofs, DedupFiles

-----------------------------------------------------------------------------
(* The first state and every step keep RefInv. *)

\* No MasterInfo and no plan: RefInv holds at first.
LEMMA InitRefs ==
  ASSUME CountingLaws, Init
  PROVE  RefInv
<1>1. \A u \in Threads : pc[u] = "idle" /\ plan[u] = <<>> /\ req[u].buf = <<>>
  BY Zenon DEF Init, NoRequest
<1>2. \A u \in Threads : Held(u) = {} /\ Pending(u) = {} /\ Points(u) = {}
  <2>. TAKE u \in Threads
  <2>1. DOMAIN plan[u] = {}
    BY <1>1
  <2>2. Misses(u) = {} /\ Held(u) = {}
    BY <1>1, <2>1, Zenon DEF Misses, Held
  <2>. QED
    BY <1>1, <2>2, Zenon DEF Points, Pending
<1>3. \A h \in Hashes : hash_to_master[h] = NULL
  BY Zenon DEF Init
<1>4. \A fb \in Paths \X Blocks : file_to_master[fb] = NULL
  BY Zenon DEF Init
<1>5. ASSUME NEW m \in InfoIds
      PROVE  /\ info[m].refcount = Cardinality(MappedTo(m)) + Cardinality(HeldBy(m))
             /\ Live(m) <=> info[m].refcount > 0
  <2>1. info[m].refcount = 0 /\ info[m].hash = NULL
    BY Zenon DEF Init, Freed
  <2>2. m # NULL
    BY NullAssumption, Zenon
  <2>3. MappedTo(m) = {}
    BY <1>4, <2>2, Zenon DEF MappedTo
  <2>4. HeldBy(m) = {}
    BY <1>2 DEF HeldBy
  <2>5. IsFiniteSet({}) /\ Cardinality({}) = 0
    BY <2>3, HolderSets, Zenon DEF CountingLaws
  <2>. QED
    BY <2>1, <2>3, <2>4, <2>5 DEF Live
<1>6. RefcountExact /\ OneInfoPerHash
  BY <1>3, <1>4, <1>5, Zenon DEF RefcountExact, OneInfoPerHash
<1>7. \A u \in Threads : PointersRight(u)
  <2>. TAKE u \in Threads
  <2>1. DistinctBlocks(req[u].buf)
    BY <1>1 DEF DistinctBlocks
  <2>. QED
    BY <1>1, <1>2, <2>1, Zenon DEF PointersRight
<1>. QED
  BY <1>6, <1>7, Zenon DEF RefInv

\* Outside the loops a step keeps the entries that hold a reference.
LEMMA StraightEntries ==
  ASSUME TypeInv, NEW t \in Threads, <<pc[t], pc'[t]>> \in StraightSteps, blk'[t] = 1, plan'[t] = plan[t]
  PROVE  Held(t)' = Held(t) /\ Points(t)' = Points(t) /\ Pending(t)' = Pending(t) /\ pc'[t] # "p1take"
<1>1. Misses(t)' = Misses(t)
  BY Zenon DEF Misses
<1>2. \A j \in DOMAIN plan[t] : j >= 1
  BY PlanRange
<1>3. Held(t)' = Held(t)
  <2>1. CASE pc[t] = "rblock"
    <3>1. pc'[t] = "rbhits"
      BY <2>1, Zenon DEF StraightSteps
    <3>. QED
      BY <1>2, <2>1, <3>1, Zenon DEF Held
  <2>2. CASE pc[t] # "rblock"
    BY <1>1, <2>2 DEF StraightSteps, Held
  <2>. QED
    BY <2>1, <2>2, Zenon
<1>4. Pending(t)' = Pending(t)
  <2>1. CASE pc[t] = "p3lock"
    <3>1. pc'[t] = "publish"
      BY <2>1, Zenon DEF StraightSteps
    <3>. QED
      BY <1>1, <1>2, <2>1, <3>1, Zenon DEF Pending, Misses
  <2>2. CASE pc[t] # "p3lock"
    BY <1>1, <2>2 DEF StraightSteps, Pending
  <2>. QED
    BY <2>1, <2>2, Zenon
<1>5. pc[t] # "p1take" /\ pc'[t] # "p1take"
  BY DEF StraightSteps
<1>. QED
  BY <1>3, <1>4, <1>5, Zenon DEF Points

\* The entries that the second loop of Passe 3 has still to map.
LEMMA MapEntries ==
  ASSUME TypeInv, NEW t \in Threads, pc[t] = "map", NextBlock(t, "map", "p3unlock"), plan' = plan
  PROVE  /\ pc'[t] \in {"map", "p3unlock"} /\ blk[t] \in Held(t)
         /\ Held(t)' = Held(t) \ {blk[t]} /\ Pending(t) = {} /\ Pending(t)' = {}
<1>1. /\ TypeOK /\ blk[t] \in DOMAIN plan[t] /\ DOMAIN plan[t] = 1 .. Len(plan[t])
      /\ Len(plan[t]) = req[t].count /\ blk[t] \in Nat /\ req[t].count \in Nat
  BY Parts, LocalTypes, LoopEntry, PlanRange, Zenon DEF PlanShape, PlannedSteps, AllocatedSteps
<1>2. \/ blk[t] < req[t].count /\ blk'[t] = blk[t] + 1 /\ pc'[t] = "map"
      \/ ~(blk[t] < req[t].count) /\ blk'[t] = 1 /\ pc'[t] = "p3unlock"
  BY <1>1, LoopStep, StepNames, Zenon
<1>3. /\ Held(t) = {j \in DOMAIN plan[t] : j >= blk[t]}
      /\ pc'[t] = "map" => Held(t)' = {j \in DOMAIN plan[t] : j >= blk'[t]}
      /\ pc'[t] = "p3unlock" => Held(t)' = {}
  BY ZenonT(30) DEF Held
<1>4. Held(t)' = Held(t) \ {blk[t]} /\ blk[t] \in Held(t)
  <2>1. /\ blk[t] >= blk[t] /\ \A j \in DOMAIN plan[t] : j >= blk[t] + 1 <=> j >= blk[t] /\ j # blk[t]
        /\ ~(blk[t] < req[t].count) => \A j \in DOMAIN plan[t] : j >= blk[t] <=> j = blk[t]
    BY <1>1, RestOfRange, Zenon
  <2>2. CASE blk[t] < req[t].count
    BY <1>1, <1>2, <1>3, <2>1, <2>2, ZenonT(30)
  <2>3. CASE ~(blk[t] < req[t].count)
    BY <1>1, <1>2, <1>3, <2>1, <2>3, ZenonT(30)
  <2>. QED
    BY <2>2, <2>3, Zenon
<1>5. Pending(t) = {} /\ Pending(t)' = {}
  BY <1>2, Zenon DEF Pending
<1>. QED
  BY <1>2, <1>4, <1>5, Zenon

\* The HITs that a rollback has still to revert.
LEMMA RbEntries ==
  ASSUME TypeInv, NEW t \in Threads, pc[t] = "rbhits", NextBlock(t, "rbhits", "rbunlock"), plan' = plan
  PROVE  /\ pc'[t] \in {"rbhits", "rbunlock"} /\ blk[t] \in Held(t)
         /\ Reverts(t) => Held(t)' = Held(t) \ {blk[t]} /\ blk[t] \notin Pending(t)
         /\ ~Reverts(t) => Held(t)' = Held(t)
         /\ Pending(t)' = Pending(t)
<1>1. /\ TypeOK /\ blk[t] \in DOMAIN plan[t] /\ DOMAIN plan[t] = 1 .. Len(plan[t])
      /\ Len(plan[t]) = req[t].count /\ blk[t] \in Nat /\ req[t].count \in Nat
  BY Parts, LocalTypes, LoopEntry, PlanRange, Zenon DEF PlanShape, PlannedSteps, AllocatedSteps
<1>2. \/ blk[t] < req[t].count /\ blk'[t] = blk[t] + 1 /\ pc'[t] = "rbhits"
      \/ ~(blk[t] < req[t].count) /\ blk'[t] = 1 /\ pc'[t] = "rbunlock"
  BY <1>1, LoopStep, StepNames, Zenon
<1>3. Misses(t)' = Misses(t) /\ Misses(t) \subseteq DOMAIN plan[t] /\ (Reverts(t) <=> blk[t] \notin Misses(t))
  <2>1. plan[t][blk[t]].kind \in {"HIT", "MISS"}
    BY <1>1, PlanTypes, Zenon
  <2>. QED
    BY <1>1, <2>1, Zenon DEF Misses, Reverts
<1>4. /\ Held(t) = {j \in DOMAIN plan[t] : j \in Misses(t) \/ j >= blk[t]}
      /\ pc'[t] = "rbhits" => Held(t)' = {j \in DOMAIN plan[t] : j \in Misses(t) \/ j >= blk'[t]}
      /\ pc'[t] = "rbunlock" => Held(t)' = Misses(t)
  BY <1>3, ZenonT(30) DEF Held
<1>. HIDE DEF Misses
<1>5. /\ blk[t] \in Held(t)
      /\ blk[t] \notin Misses(t) => Held(t)' = Held(t) \ {blk[t]}
      /\ blk[t] \in Misses(t) => Held(t)' = Held(t)
  <2>1. /\ blk[t] >= blk[t] /\ \A j \in DOMAIN plan[t] : j >= blk[t] + 1 <=> j >= blk[t] /\ j # blk[t]
        /\ ~(blk[t] < req[t].count) => \A j \in DOMAIN plan[t] : j >= blk[t] <=> j = blk[t]
    BY <1>1, RestOfRange, Zenon
  <2>2. CASE blk[t] < req[t].count
    BY <1>1, <1>2, <1>3, <1>4, <2>1, <2>2, ZenonT(30)
  <2>3. CASE ~(blk[t] < req[t].count)
    BY <1>1, <1>2, <1>3, <1>4, <2>1, <2>3, ZenonT(30)
  <2>. QED
    BY <2>2, <2>3, Zenon
<1>6. Pending(t) = Misses(t) /\ Pending(t)' = Misses(t)
  BY <1>2, <1>3, Zenon DEF Pending
<1>. QED
  BY <1>2, <1>3, <1>5, <1>6, Zenon

\* A buffer without repetitions has no HIT in its own batch.
LEMMA HitIsPublished ==
  ASSUME TypeInv, RefInv, NEW t \in Threads, pc[t] = "p1"
  PROVE  Existing(t, BlockHash(t)) = hash_to_master[BlockHash(t)]
<1>1. /\ req[t].buf \in Seq(Contents) /\ blk[t] \in 1 .. Len(req[t].buf) /\ Len(plan[t]) = blk[t] - 1
      /\ blk[t] \in Nat
  <2>1. /\ req[t].buf \in Seq(Contents) /\ blk[t] \in Nat /\ req[t].count \in Nat /\ blk[t] > 0
        /\ blk[t] <= req[t].count /\ req[t].count = Len(req[t].buf) /\ Len(plan[t]) = blk[t] - 1
    BY Parts, LocalTypes, Zenon DEF RequestShape, LoopShape, PlanShape, LoopSteps
  <2>. QED
    BY ONLY <2>1
<1>2. /\ \A j \in Misses(t) : info[plan[t][j].info].hash = HashOf[req[t].buf[j]]
      /\ DistinctBlocks(req[t].buf)
  BY RefParts, Zenon DEF PointersRight, Pending
<1>3. \A j \in Misses(t) : j \in DOMAIN req[t].buf /\ j # blk[t] /\ blk[t] \in DOMAIN req[t].buf
  <2>1. Misses(t) \subseteq 1 .. Len(plan[t])
    BY PlanRange, Zenon DEF Misses
  <2>. QED
    BY ONLY <1>1, <2>1
<1>4. {j \in Misses(t) : info[plan[t][j].info].hash = BlockHash(t)} = {}
  <2>1. \A j \in Misses(t) : HashOf[req[t].buf[j]] # BlockHash(t)
    BY <1>2, <1>3, Zenon DEF DistinctBlocks, BlockHash
  <2>. QED
    BY <1>2, <2>1, Zenon
<1>. QED
  BY <1>4, Zenon DEF Existing

\* Every step keeps RefInv: one nested step per action that moves references.
LEMMA NextRefs ==
  ASSUME CountingLaws, DistinctPayloads, TypeInv, RefInv, [Next]_vars
  PROVE  RefInv'
<1>OneChange.
    ASSUME CountingLaws, NEW A, NEW B, IsFiniteSet(A), IsFiniteSet(B), NEW x, A \ {x} = B \ {x}
    PROVE  Cardinality(B) = Cardinality(A) - (IF x \in A THEN 1 ELSE 0) + (IF x \in B THEN 1 ELSE 0)
  <2> USE <1>OneChange
  <2>1. Cardinality(A) \in Nat /\ Cardinality(B) \in Nat
    BY Zenon DEF CountingLaws
  <2>2. /\ x \in A => Cardinality(A \ {x}) = Cardinality(A) - 1
        /\ x \in B => Cardinality(B \ {x}) = Cardinality(B) - 1
    BY Zenon DEF CountingLaws
  <2>3. (x \notin A => A \ {x} = A) /\ (x \notin B => B \ {x} = B)
    BY Zenon
  <2>4. CASE x \in A /\ x \in B
    <3>1. Cardinality(A) - 1 = Cardinality(B) - 1
      BY <2>2, <2>3, <2>4, Zenon
    <3>2. Cardinality(B) = Cardinality(A) - 1 + 1
      BY ONLY <2>1, <3>1
    <3>. QED
      BY <2>4, <3>2, Zenon
  <2>5. CASE x \in A /\ x \notin B
    <3>1. Cardinality(A) - 1 = Cardinality(B)
      BY <2>2, <2>3, <2>5, Zenon
    <3>2. Cardinality(B) = Cardinality(A) - 1 + 0
      BY ONLY <2>1, <3>1
    <3>. QED
      BY <2>5, <3>2, Zenon
  <2>6. CASE x \notin A /\ x \in B
    <3>1. Cardinality(A) = Cardinality(B) - 1
      BY <2>2, <2>3, <2>6, Zenon
    <3>2. Cardinality(B) = Cardinality(A) - 0 + 1
      BY ONLY <2>1, <3>1
    <3>. QED
      BY <2>6, <3>2, Zenon
  <2>7. CASE x \notin A /\ x \notin B
    <3>1. Cardinality(A) = Cardinality(B)
      BY <2>2, <2>3, <2>7, Zenon
    <3>2. Cardinality(B) = Cardinality(A) - 0 + 0
      BY ONLY <2>1, <3>1
    <3>. QED
      BY <2>7, <3>2, Zenon
  <2>. QED
    BY <2>4, <2>5, <2>6, <2>7, Zenon
\* The blocks of a buffer stay distinct.
<1>SameBuffer.
    ASSUME NEW t, PointersRight(t), req'[t] = req[t]
    PROVE  DistinctBlocks(req[t].buf)'
  <2>1. DistinctBlocks(req[t].buf)
    BY <1>SameBuffer, Zenon DEF PointersRight
  <2>. QED
    BY ONLY <1>SameBuffer, <2>1, Zenon DEF DistinctBlocks
\* One mapping changes.
<1>MappedCount.
    ASSUME CountingLaws, NEW fb \in Paths \X Blocks, NEW m \in InfoIds,
           \A g \in (Paths \X Blocks) \ {fb} : file_to_master'[g] = file_to_master[g]
    PROVE  Cardinality(MappedTo(m)') = Cardinality(MappedTo(m))
             - (IF file_to_master[fb] = m THEN 1 ELSE 0) + (IF file_to_master'[fb] = m THEN 1 ELSE 0)
  <2> USE <1>MappedCount
  <2>2. /\ MappedTo(m)' \ {fb} = MappedTo(m) \ {fb}
        /\ fb \in MappedTo(m) <=> file_to_master[fb] = m
        /\ fb \in MappedTo(m)' <=> file_to_master'[fb] = m
    BY Zenon DEF MappedTo
  <2>3. IsFiniteSet(MappedTo(m)) /\ IsFiniteSet(MappedTo(m)')
    <3>1. MappedTo(m) \in SUBSET (Paths \X Blocks) /\ MappedTo(m)' \in SUBSET (Paths \X Blocks)
      BY Zenon DEF MappedTo
    <3>. QED
      BY <3>1, Zenon DEF CountingLaws
  <2>. HIDE DEF MappedTo
  <2>. QED
    BY <2>2, <2>3, <1>OneChange, ZenonT(30)
\* One entry of one plan changes.
<1>HeldCount.
    ASSUME CountingLaws, NEW t \in Threads, NEW j \in 1 .. MaxBlocks,
           \A u \in Threads \ {t} : SameLocals(u),
           Held(t)' \ {j} = Held(t) \ {j},
           \A i \in Held(t) \ {j} : plan'[t][i].info = plan[t][i].info, NEW m
    PROVE  Cardinality(HeldBy(m)') = Cardinality(HeldBy(m))
             - (IF j \in Held(t) /\ plan[t][j].info = m THEN 1 ELSE 0)
             + (IF j \in Held(t)' /\ plan'[t][j].info = m THEN 1 ELSE 0)
  <2> USE <1>HeldCount
  <2>1. \A u \in Threads \ {t} : Held(u)' = Held(u) /\ plan'[u] = plan[u]
    BY OtherEntries, Zenon DEF SameLocals
  <2>2. /\ \A u \in Threads, i \in 1 .. MaxBlocks :
                <<u, i>> \in HeldBy(m) <=> i \in Held(u) /\ plan[u][i].info = m
        /\ \A u \in Threads, i \in 1 .. MaxBlocks :
                <<u, i>> \in HeldBy(m)' <=> i \in Held(u)' /\ plan'[u][i].info = m
    BY DEF HeldBy
  <2>3. HeldBy(m) \in SUBSET (Threads \X (1 .. MaxBlocks)) /\ HeldBy(m)' \in SUBSET (Threads \X (1 .. MaxBlocks))
    BY Zenon DEF HeldBy
  <2>4. IsFiniteSet(HeldBy(m)) /\ IsFiniteSet(HeldBy(m)')
    BY <2>3, Zenon DEF CountingLaws
  <2>5. HeldBy(m)' \ {<<t, j>>} = HeldBy(m) \ {<<t, j>>}
    <3>1. ASSUME NEW u \in Threads, NEW i \in 1 .. MaxBlocks, <<u, i>> # <<t, j>>
          PROVE  <<u, i>> \in HeldBy(m)' <=> <<u, i>> \in HeldBy(m)
      <4>1. u # t \/ i # j
        BY <3>1, Zenon
      <4>2. i \in Held(u)' /\ plan'[u][i].info = m <=> i \in Held(u) /\ plan[u][i].info = m
        <5>1. CASE u # t
          BY <2>1, <5>1, Zenon
        <5>2. CASE u = t /\ i # j
          BY <5>2, Zenon
        <5>. QED
          BY <4>1, <5>1, <5>2, Zenon
      <4>. QED
        BY <2>2, <4>2, Zenon
    <3>. QED
      BY <2>3, <3>1
  <2>6. /\ <<t, j>> \in HeldBy(m) <=> j \in Held(t) /\ plan[t][j].info = m
        /\ <<t, j>> \in HeldBy(m)' <=> j \in Held(t)' /\ plan'[t][j].info = m
    BY <2>2, Zenon
  <2>7. Cardinality(HeldBy(m)') = Cardinality(HeldBy(m)) - (IF <<t, j>> \in HeldBy(m) THEN 1 ELSE 0)
                                  + (IF <<t, j>> \in HeldBy(m)' THEN 1 ELSE 0)
    BY <2>4, <2>5, <1>OneChange, ZenonT(30)
  <2>. QED
    BY <2>6, <2>7, Zenon
\* The pointers of a thread stay right when the published MasterInfos it
\* points to stay published and its pending ones stay as they are.
<1>OtherPointers.
    ASSUME NEW u \in Threads, PointersRight(u), SameLocals(u),
           \A j \in Points(u) \ Pending(u) : \E h \in Hashes : hash_to_master'[h] = plan[u][j].info,
           \A j \in Pending(u) :
             /\ info'[plan[u][j].info].hash = info[plan[u][j].info].hash
             /\ info'[plan[u][j].info].refcount = info[plan[u][j].info].refcount
             /\ \A h \in Hashes : hash_to_master'[h] # plan[u][j].info
    PROVE  PointersRight(u)'
  <2> USE <1>OtherPointers
  <2>1. /\ Points(u)' = Points(u) /\ Pending(u)' = Pending(u)
        /\ plan'[u] = plan[u] /\ req'[u] = req[u] /\ pc'[u] = pc[u] /\ blk'[u] = blk[u]
    BY OtherEntries, Zenon DEF SameLocals
  <2>2. \A j \in Points(u)' \ Pending(u)' : Published(plan[u][j].info)'
    BY <2>1, ZenonT(30) DEF Published
  <2>3. \A j \in Pending(u)' :
          /\ info'[plan'[u][j].info].hash = HashOf[req'[u].buf[j]]
          /\ info'[plan'[u][j].info].refcount = 1
          /\ ~Published(plan[u][j].info)'
    <3>. SUFFICES ASSUME NEW j \in Pending(u)'
                  PROVE  /\ info'[plan'[u][j].info].hash = HashOf[req'[u].buf[j]]
                         /\ info'[plan'[u][j].info].refcount = 1
                         /\ ~Published(plan[u][j].info)'
      BY Zenon
    <3>1. j \in Pending(u)
      BY <2>1, Zenon
    <3>2. /\ info'[plan[u][j].info].hash = HashOf[req[u].buf[j]] /\ info'[plan[u][j].info].refcount = 1
          /\ \A h \in Hashes : hash_to_master'[h] # plan[u][j].info
      BY <3>1, Zenon DEF PointersRight
    <3>. QED
      BY <2>1, <3>2, Zenon DEF Published
  <2>4. pc'[u] = "p1take" => plan'[u][blk'[u]].kind = "HIT"
    BY <2>1, ZenonT(30) DEF PointersRight
  <2>5. DistinctBlocks(req[u].buf)'
    <3>1. DistinctBlocks(req[u].buf) /\ req'[u] = req[u]
      BY <2>1, Zenon DEF PointersRight
    <3>. QED
      BY ONLY <3>1 DEF DistinctBlocks
  <2>. QED
    BY <2>2, <2>3, <2>4, <2>5, Zenon DEF PointersRight
\* A step that publishes, at most, and leaves the pending MasterInfos of the
\* other threads alone keeps the pointers of those threads right.
<1>GrowStep.
    ASSUME RefInv, NEW t \in Threads, \A u \in Threads \ {t} : SameLocals(u),
           \A h \in Hashes : hash_to_master[h] # NULL => hash_to_master'[h] = hash_to_master[h],
           \A u \in Threads \ {t} : \A j \in Points(u) : plan[u][j].info \in InfoIds,
           \A u \in Threads \ {t} : \A j \in Pending(u) :
             /\ info'[plan[u][j].info].hash = info[plan[u][j].info].hash
             /\ info'[plan[u][j].info].refcount = info[plan[u][j].info].refcount
             /\ \A h \in Hashes : hash_to_master'[h] # plan[u][j].info,
           RefcountExact', OneInfoPerHash', PointersRight(t)'
    PROVE  RefInv'
  <2> USE <1>GrowStep
  <2>1. ASSUME NEW u \in Threads \ {t}
        PROVE  PointersRight(u)'
    <3>1. PointersRight(u)
      BY RefParts, Zenon
    <3>2. \A j \in Points(u) \ Pending(u) : \E h \in Hashes : hash_to_master'[h] = plan[u][j].info
      <4>1. \A m \in InfoIds : Published(m) => \E h \in Hashes : hash_to_master'[h] = m
        BY NullAssumption, ZenonT(30) DEF Published
      <4>. QED
        BY <3>1, <4>1, Zenon DEF PointersRight
    <3>. QED
      BY <3>1, <3>2, <1>OtherPointers, Zenon
  <2>. QED
    BY <2>1, Zenon DEF RefInv
\* A step that leaves the index and the counts alone.
<1>SameCounts.
    ASSUME TypeInv, RefInv, NEW t \in Threads, \A u \in Threads \ {t} : SameLocals(u),
           hash_to_master' = hash_to_master, file_to_master' = file_to_master,
           \A m \in InfoIds : info'[m].hash = info[m].hash /\ info'[m].refcount = info[m].refcount,
           Held(t)' = Held(t), Pending(t)' = Pending(t),
           \A j \in Held(t) : plan'[t][j].info = plan[t][j].info,
           \A j \in Points(t)' \ Pending(t) : \E h \in Hashes : hash_to_master[h] = plan'[t][j].info,
           req'[t] = req[t] \/ (Pending(t) = {} /\ DistinctBlocks(req'[t].buf)),
           pc'[t] = "p1take" => plan'[t][blk'[t]].kind = "HIT"
    PROVE  RefInv'
  <2> USE <1>SameCounts
  <2>1. RefcountExact /\ OneInfoPerHash /\ PointersRight(t)
    BY RefParts, Zenon
  <2>2. RefcountExact'
    <3>1. \A m : MappedTo(m)' = MappedTo(m)
      BY Zenon DEF MappedTo
    <3>2. \A u \in Threads : Held(u)' = Held(u) /\ \A j \in Held(u) : plan'[u][j].info = plan[u][j].info
      <4>1. \A u \in Threads \ {t} : Held(u)' = Held(u) /\ plan'[u] = plan[u]
        BY OtherEntries, Zenon DEF SameLocals
      <4>. QED
        BY <4>1, Zenon
    <3>3. \A m : HeldBy(m)' = HeldBy(m)
      BY <3>2 DEF HeldBy
    <3>. SUFFICES ASSUME NEW m \in InfoIds
                  PROVE  /\ info'[m].refcount = Cardinality(MappedTo(m)') + Cardinality(HeldBy(m)')
                         /\ info'[m].hash # NULL <=> info'[m].refcount > 0
      BY Zenon DEF RefcountExact, Live
    <3>. QED
      BY <2>1, <3>1, <3>3, Zenon DEF RefcountExact, Live
  <2>3. OneInfoPerHash'
    <3>1. \A h \in Hashes : hash_to_master[h] \in InfoIds \cup {NULL}
      BY Parts, Zenon DEF TypeOK
    <3>. QED
      BY <2>1, <3>1, Zenon DEF OneInfoPerHash
  <2>4. /\ \A u \in Threads : \A j \in Points(u) : plan[u][j].info \in InfoIds
        /\ \A u \in Threads : \A j \in Pending(u) : plan[u][j].info \in InfoIds /\ ~Published(plan[u][j].info)
    BY PointerTypes, Zenon
  <2>5. PointersRight(t)'
    <3>1. Pending(t) \subseteq Held(t)
      BY <2>1, EntryRange, Zenon
    <3>2. \A j \in Points(t)' \ Pending(t)' : Published(plan[t][j].info)'
      BY ZenonT(30) DEF Published
    <3>3. \A j \in Pending(t)' :
            /\ info'[plan'[t][j].info].hash = HashOf[req'[t].buf[j]]
            /\ info'[plan'[t][j].info].refcount = 1
            /\ ~Published(plan[t][j].info)'
      <4>. SUFFICES ASSUME NEW j \in Pending(t)'
                    PROVE  /\ info'[plan'[t][j].info].hash = HashOf[req'[t].buf[j]]
                           /\ info'[plan'[t][j].info].refcount = 1
                           /\ ~Published(plan[t][j].info)'
        BY Zenon
      <4>1. j \in Pending(t) /\ j \in Held(t) /\ req'[t] = req[t]
        BY <3>1, Zenon
      <4>2. plan'[t][j].info = plan[t][j].info /\ plan[t][j].info \in InfoIds /\ ~Published(plan[t][j].info)
        BY <2>4, <4>1, Zenon
      <4>3. info[plan[t][j].info].hash = HashOf[req[t].buf[j]] /\ info[plan[t][j].info].refcount = 1
        BY <2>1, <4>1, Zenon DEF PointersRight
      <4>. QED
        BY <4>1, <4>2, <4>3, Zenon DEF Published
    <3>4. DistinctBlocks(req[t].buf)'
      <4>1. DistinctBlocks(req[t].buf) /\ (req'[t] = req[t] \/ DistinctBlocks(req'[t].buf))
        BY <2>1, Zenon DEF PointersRight
      <4>. QED
        BY ONLY <4>1 DEF DistinctBlocks
    <3>. QED
      BY <3>2, <3>3, <3>4, Zenon DEF PointersRight
  <2>6. \A u \in Threads : \A j \in Pending(u) : \A h \in Hashes : hash_to_master'[h] # plan[u][j].info
    BY <2>4, Zenon DEF Published
  <2>. QED
    BY <2>2, <2>3, <2>4, <2>5, <2>6, <1>GrowStep, Zenon
<1>QuietStep.
    ASSUME TypeInv, RefInv, NEW t \in Threads, \A u \in Threads \ {t} : SameLocals(u),
           hash_to_master' = hash_to_master, file_to_master' = file_to_master,
           \A m \in InfoIds : info'[m].hash = info[m].hash /\ info'[m].refcount = info[m].refcount,
           Held(t)' = Held(t), Points(t)' = Points(t), Pending(t)' = Pending(t),
           \A j \in Points(t) : plan'[t][j].info = plan[t][j].info,
           req'[t] = req[t] \/ (Pending(t) = {} /\ DistinctBlocks(req'[t].buf)), pc'[t] # "p1take"
    PROVE  RefInv'
  <2> USE <1>QuietStep
  <2>1. \A j \in Held(t) : plan'[t][j].info = plan[t][j].info
    BY Zenon DEF Points
  <2>2. \A j \in Points(t)' \ Pending(t) : \E h \in Hashes : hash_to_master[h] = plan'[t][j].info
    <3>1. \A j \in Points(t) \ Pending(t) : \E h \in Hashes : hash_to_master[h] = plan[t][j].info
      BY RefParts, Zenon DEF PointersRight, Published
    <3>. QED
      BY <3>1
  <2>. QED
    BY <2>1, <2>2, <1>SameCounts, Zenon
\* The steps outside the loops of a request.
<1>StraightRefs.
    ASSUME TypeInv, RefInv, NEW t \in Threads, \A u \in Threads \ {t} : SameLocals(u),
           P1Lock(t) \/ P1Unlock(t) \/ Drain(t) \/ AppendSlots(t) \/ (FlushRun(t) /\ pc'[t] # "flush")
           \/ FlushFail(t) \/ P3Lock(t) \/ P3Unlock(t) \/ RbLock(t) \/ RbUnlock(t) \/ RbRelease(t)
           \/ RmLock(t) \/ RmUnlock(t) \/ RmRelease(t)
    PROVE  RefInv'
  <2> USE <1>StraightRefs
  <2>1. TypeOK /\ LoopShape(t)
    BY Parts, Zenon
  <2>2. DOMAIN pc = Threads /\ DOMAIN blk = Threads
    BY <2>1, Zenon DEF TypeOK
  <2>3. /\ UNCHANGED <<hash_to_master, file_to_master, req, plan>>
        /\ <<pc[t], pc'[t]>> \in StraightSteps
        /\ blk'[t] = 1 \/ (blk' = blk /\ pc[t] \notin LoopSteps \cup {"flush"})
    <3>. USE DEF index, request
    <3>1. CASE P1Lock(t) \/ P3Lock(t) \/ RbLock(t) \/ RmLock(t)
      BY <2>2, <3>1, Zenon DEF P1Lock, P3Lock, RbLock, RmLock, Goto, StraightSteps, LoopSteps
    <3>2. CASE P1Unlock(t) \/ P3Unlock(t) \/ RbUnlock(t) \/ RmUnlock(t)
      BY <2>2, <3>2, Zenon DEF P1Unlock, P3Unlock, RbUnlock, RmUnlock, Goto, StraightSteps, LoopSteps
    <3>3. CASE Drain(t) \/ AppendSlots(t) \/ RbRelease(t) \/ RmRelease(t)
      BY <2>2, <3>3, Zenon DEF Drain, AppendSlots, RbRelease, RmRelease, Goto, StraightSteps, LoopSteps
    <3>4. CASE (FlushRun(t) /\ pc'[t] # "flush") \/ FlushFail(t)
      BY <2>2, <3>4, Zenon DEF FlushRun, FlushFail, AfterFailure, Goto, StraightSteps, LoopSteps
    <3>. QED
      BY <3>1, <3>2, <3>3, <3>4, Zenon
  <2>4. blk'[t] = 1
    BY <2>1, <2>3, Zenon DEF LoopShape
  <2>5. \A m \in InfoIds : info'[m].hash = info[m].hash /\ info'[m].refcount = info[m].refcount
    <3>1. CASE AppendSlots(t)
      <4>1. \A m \in InfoIds : \/ info'[m] = info[m]
                               \/ \E n : info'[m] = [info[m] EXCEPT !.masterBlockIndex = n]
        BY <3>1, Zenon DEF AppendSlots
      <4>2. \A m \in InfoIds : info[m] \in MasterInfo
        BY <2>1, Zenon DEF TypeOK
      <4>. QED
        BY <4>1, <4>2, Zenon DEF MasterInfo
    <3>2. CASE ~AppendSlots(t)
      <4>1. info' = info
        BY <3>2, Zenon DEF P1Lock, P1Unlock, Drain, FlushRun, FlushFail, P3Lock, P3Unlock, RbLock, RbUnlock,
                           RbRelease, RmLock, RmUnlock, RmRelease, index
      <4>. QED
        BY <4>1, Zenon
    <3>. QED
      BY <3>1, <3>2, Zenon
  <2>6. Held(t)' = Held(t) /\ Points(t)' = Points(t) /\ Pending(t)' = Pending(t) /\ pc'[t] # "p1take"
    BY <2>3, <2>4, StraightEntries, Zenon
  <2>. QED
    BY <2>3, <2>5, <2>6, <1>QuietStep, Zenon
\* The loop of flush_plan, the return of a request and its arrival.
<1>IdleRefs.
    ASSUME TypeInv, RefInv, NEW t \in Threads, \A u \in Threads \ {t} : SameLocals(u), DistinctPayloads,
           (FlushRun(t) /\ pc'[t] = "flush") \/ P3Release(t) \/ SetSize(t) \/ Start(t)
    PROVE  RefInv'
  <2> USE <1>IdleRefs
  <2>1. TypeOK /\ PlanShape(t)
    BY Parts, Zenon
  <2>2. DOMAIN pc = Threads /\ DOMAIN plan = Threads /\ DOMAIN req = Threads
    BY <2>1, Zenon DEF TypeOK
  <2>3. hash_to_master' = hash_to_master /\ file_to_master' = file_to_master /\ info' = info
    BY Zenon DEF FlushRun, P3Release, SetSize, Start, StartWrite, StartUnlink, StartTruncate, index
  <2>4. CASE FlushRun(t) /\ pc'[t] = "flush"
    <3>1. plan' = plan /\ req' = req /\ pc[t] = "flush" /\ pc'[t] = "flush"
      BY <2>4, Zenon DEF FlushRun, request
    <3>2. Misses(t)' = Misses(t)
      BY <3>1, Zenon DEF Misses
    <3>3. Held(t)' = Held(t) /\ Points(t)' = Points(t) /\ Pending(t)' = Pending(t)
      BY <3>1, <3>2 DEF Held, Points, Pending
    <3>. QED
      BY <2>3, <3>1, <3>3, <1>QuietStep, Zenon
  <2>5. CASE P3Release(t) \/ SetSize(t) \/ Start(t)
    <3>1. /\ pc[t] = "p3release" \/ (plan[t] = <<>> /\ pc[t] \in {"idle", "setsize"})
          /\ plan'[t] = <<>> /\ pc'[t] \in {"idle", "p1lock", "rmlock", "setsize"}
      <4>1. CASE P3Release(t)
        BY <2>2, <4>1, Zenon DEF P3Release, Return, Goto
      <4>2. CASE SetSize(t)
        BY <2>1, <2>2, <4>2, Zenon DEF SetSize, Return, Goto, PlanShape, RemoveSteps
      <4>3. CASE Start(t)
        BY <2>1, <2>2, <4>3, Zenon DEF Start, StartWrite, StartUnlink, StartTruncate, Arrive, Goto, PlanShape
      <4>. QED
        BY <2>5, <4>1, <4>2, <4>3, Zenon
    <3>2. Held(t) = {} /\ Points(t) = {} /\ Pending(t) = {}
      BY ONLY <3>1 DEF Held, Points, Pending, Misses
    <3>3. Held(t)' = {} /\ Points(t)' = {} /\ Pending(t)' = {} /\ pc'[t] # "p1take"
      BY ONLY <3>1 DEF Held, Points, Pending, Misses
    <3>4. DistinctBlocks(req'[t].buf)
      <4>1. req'[t].buf = <<>> \/ req'[t].buf \in Payloads
        <5>1. CASE P3Release(t) \/ SetSize(t)
          <6>1. req' = [req EXCEPT ![t] = NoRequest]
            BY <5>1, ZenonT(30) DEF P3Release, SetSize, Return
          <6>2. t \in DOMAIN req
            BY <2>2, Zenon
          <6>. QED
            BY ONLY <6>1, <6>2 DEF NoRequest
        <5>2. CASE Start(t)
          <6>1. t \in DOMAIN req
            BY <2>2, Zenon
          <6>2. CASE StartWrite(t)
            BY ONLY <6>1, <6>2 DEF StartWrite, Arrive
          <6>3. CASE StartUnlink(t)
            BY ONLY <6>1, <6>3 DEF StartUnlink, Arrive
          <6>4. CASE StartTruncate(t)
            BY ONLY <6>1, <6>4 DEF StartTruncate, Arrive
          <6>. QED
            BY <5>2, <6>2, <6>3, <6>4, Zenon DEF Start
        <5>. QED
          BY <2>5, <5>1, <5>2, Zenon
      <4>. QED
        BY <4>1 DEF DistinctPayloads, DistinctBlocks
    <3>. QED
      BY <2>3, <3>2, <3>3, <3>4, <1>QuietStep, Zenon
  <2>. QED
    BY <2>4, <2>5, Zenon
\* A remount and a step that changes nothing.
<1>StutterRefs.
    ASSUME RefInv, UNCHANGED <<hash_to_master, file_to_master, info, pc, req, blk, plan>>
    PROVE  RefInv'
  <2> USE <1>StutterRefs
  <2>1. \A u \in Threads : Misses(u)' = Misses(u)
    BY Zenon DEF Misses
  <2>2. \A u \in Threads : Held(u)' = Held(u) /\ Pending(u)' = Pending(u)
    BY <2>1, Zenon DEF Held, Pending
  <2>3. \A u \in Threads : Points(u)' = Points(u)
    BY <2>2, Zenon DEF Points
  <2>4. \A m : MappedTo(m)' = MappedTo(m) /\ HeldBy(m)' = HeldBy(m)
    BY <2>2, Zenon DEF MappedTo, HeldBy
  <2>5. RefcountExact' /\ OneInfoPerHash'
    BY <2>4, Zenon DEF RefInv, RefcountExact, Live, OneInfoPerHash
  <2>6. ASSUME NEW u \in Threads
        PROVE  PointersRight(u)'
    <3>1. PointersRight(u) /\ UNCHANGED <<hash_to_master, info, pc, req, blk, plan>>
          /\ Held(u)' = Held(u) /\ Pending(u)' = Pending(u) /\ Points(u)' = Points(u)
      BY <2>2, <2>3, RefParts, Zenon
    <3>2. /\ \A m : Published(m)' = Published(m)
          /\ DistinctBlocks(req[u].buf)' = DistinctBlocks(req[u].buf)
      BY ONLY <3>1, Zenon DEF Published, DistinctBlocks
    <3>. QED
      BY ONLY <3>1, <3>2, ZenonT(30) DEF PointersRight
  <2>. QED
    BY <2>5, <2>6, Zenon DEF RefInv
\* After a step that keeps the counts exact, a holder has a reference.
<1>HoldersCounted.
    ASSUME CountingLaws, RefcountExact', NEW m \in InfoIds
    PROVE  /\ \A fb \in Paths \X Blocks : file_to_master'[fb] = m => info'[m].refcount > 0
           /\ \A u \in Threads, i \in 1 .. MaxBlocks :
                i \in Held(u)' /\ plan'[u][i].info = m => info'[m].refcount > 0
  <2> USE <1>HoldersCounted
  <2>1. /\ MappedTo(m)' \in SUBSET (Paths \X Blocks) /\ HeldBy(m)' \in SUBSET (Threads \X (1 .. MaxBlocks))
        /\ \A fb \in Paths \X Blocks : file_to_master'[fb] = m => MappedTo(m)' # {}
        /\ \A u \in Threads, i \in 1 .. MaxBlocks :
             i \in Held(u)' /\ plan'[u][i].info = m => <<u, i>> \in HeldBy(m)'
    BY DEF MappedTo, HeldBy
  <2>2. IsFiniteSet(MappedTo(m)') /\ IsFiniteSet(HeldBy(m)')
    BY <2>1, Zenon DEF CountingLaws
  <2>3. /\ Cardinality(MappedTo(m)') \in Nat /\ Cardinality(HeldBy(m)') \in Nat
        /\ MappedTo(m)' # {} => Cardinality(MappedTo(m)') # 0
        /\ HeldBy(m)' # {} => Cardinality(HeldBy(m)') # 0
    BY <2>2, Zenon DEF CountingLaws
  <2>4. info'[m].refcount = Cardinality(MappedTo(m)') + Cardinality(HeldBy(m)')
    BY Zenon DEF RefcountExact
  <2>5. MappedTo(m)' # {} \/ HeldBy(m)' # {} => info'[m].refcount > 0
    BY <2>3, <2>4
  <2>. QED
    BY <2>1, <2>5, Zenon
\* A step of the writer that drops one reference.
<1>DropRefs.
    ASSUME CountingLaws, TypeInv, RefInv, NEW t \in Threads, \A u \in Threads \ {t} : SameLocals(u),
           NEW m \in InfoIds, Published(m), DropReference(t, m),
           pc[t] \in WrSteps, pc'[t] \in WrSteps, plan' = plan, req' = req, Pending(t)' = Pending(t),
           Cardinality(MappedTo(m)') + Cardinality(HeldBy(m)') = info[m].refcount - 1,
           \A n \in InfoIds \ {m} : Cardinality(MappedTo(n)') + Cardinality(HeldBy(n)') = info[n].refcount,
           \A fb \in Paths \X Blocks : file_to_master'[fb] # NULL =>
             file_to_master'[fb] \in InfoIds /\ Published(file_to_master'[fb]),
           \A j \in Held(t)' \ Pending(t) : j \in DOMAIN plan[t] /\ Published(plan[t][j].info)
    PROVE  RefInv'
  <2> USE <1>DropRefs
  <2>1. TypeOK /\ LockInv /\ RefcountExact /\ OneInfoPerHash /\ PointersRight(t)
    BY Parts, RefParts, Zenon
  <2>2. /\ info[m].hash \in Hashes /\ info[m].refcount \in Int /\ info[m].refcount > 0
        /\ \A h \in Hashes : hash_to_master[h] = m <=> h = info[m].hash
    BY PublishedLive, Zenon
  <2>3. /\ \A n \in InfoIds \ {m} : info'[n] = info[n]
        /\ info'[m].refcount = info[m].refcount - 1
        /\ info[m].refcount = 1 => info'[m].hash = NULL
        /\ info[m].refcount # 1 => info'[m].hash = info[m].hash
        /\ \A h \in Hashes : hash_to_master'[h] =
             IF info[m].refcount = 1 /\ h = info[m].hash THEN NULL ELSE hash_to_master[h]
    BY DropEffect, Zenon
  <2>4. RefcountExact'
    <3>1. ASSUME NEW n \in InfoIds, n # m
          PROVE  /\ info'[n].refcount = Cardinality(MappedTo(n)') + Cardinality(HeldBy(n)')
                 /\ info'[n].hash # NULL <=> info'[n].refcount > 0
      BY <2>1, <2>3, <3>1, Zenon DEF RefcountExact, Live
    <3>2. info'[m].refcount = Cardinality(MappedTo(m)') + Cardinality(HeldBy(m)')
      BY <2>3, Zenon
    <3>3. info'[m].hash # NULL <=> info'[m].refcount > 0
      <4>1. /\ info[m].refcount \in Int /\ info[m].refcount > 0 /\ info'[m].refcount = info[m].refcount - 1
            /\ info[m].refcount = 1 => info'[m].hash = NULL
            /\ info[m].refcount # 1 => info'[m].hash # NULL
        BY <2>2, <2>3, NullAssumption, Zenon
      <4>. QED
        BY ONLY <4>1
    <3>. QED
      BY <3>1, <3>2, <3>3, Zenon DEF RefcountExact, Live
  <2>5. ASSUME NEW n \in InfoIds, Published(n), info'[n].refcount > 0
        PROVE  \E h \in Hashes : hash_to_master'[h] = n
    <3>1. n = m => info[m].refcount # 1
      <4>1. info[m].refcount \in Int /\ info'[m].refcount = info[m].refcount - 1 /\ info'[n].refcount > 0
        BY <2>2, <2>3, <2>5, Zenon
      <4>. QED
        BY ONLY <4>1
    <3>2. PICK h \in Hashes : hash_to_master[h] = n
      BY <2>5, Zenon DEF Published
    <3>3. hash_to_master'[h] = n
      BY <2>2, <2>3, <3>1, <3>2, Zenon
    <3>. QED
      BY <3>3, Zenon
  <2>6. OneInfoPerHash'
    <3>1. ASSUME NEW h \in Hashes, hash_to_master'[h] # NULL
          PROVE  info'[hash_to_master'[h]].hash = h
      <4>1. hash_to_master'[h] = hash_to_master[h] /\ ~(info[m].refcount = 1 /\ h = info[m].hash)
        BY <2>3, <3>1, Zenon
      <4>2. hash_to_master[h] \in InfoIds /\ info[hash_to_master[h]].hash = h
        BY <2>1, <3>1, <4>1, Zenon DEF TypeOK, OneInfoPerHash
      <4>. QED
        BY <2>2, <2>3, <4>1, <4>2, Zenon
    <3>2. ASSUME NEW fb \in Paths \X Blocks, file_to_master'[fb] # NULL
          PROVE  \E h \in Hashes : hash_to_master'[h] = file_to_master'[fb]
      BY <2>4, <2>5, <3>2, <1>HoldersCounted, Zenon
    <3>. QED
      BY <3>1, <3>2, Zenon DEF OneInfoPerHash
  <2>7. ASSUME NEW u \in Threads, NEW j \in Held(u)' \ Pending(u), j \in DOMAIN plan[u], plan'[u] = plan[u],
               Published(plan[u][j].info)
        PROVE  \E h \in Hashes : hash_to_master'[h] = plan[u][j].info
    <3>1. j \in 1 .. MaxBlocks /\ plan[u][j].info \in InfoIds
      BY <2>1, <2>7, PlanRange, PlanTypes, Zenon
    <3>2. info'[plan[u][j].info].refcount > 0
      BY <2>4, <2>7, <3>1, <1>HoldersCounted, Zenon
    <3>. QED
      BY <2>5, <2>7, <3>1, <3>2, Zenon
  <2>8. ASSUME NEW u \in Threads, NEW j \in Pending(u)
        PROVE  /\ info'[plan[u][j].info] = info[plan[u][j].info] /\ plan[u][j].info \in InfoIds
               /\ \A h \in Hashes : hash_to_master'[h] # plan[u][j].info
    <3>1. ~Published(plan[u][j].info) /\ plan[u][j].info \in InfoIds
      BY <2>8, RefParts, PendingAlone, Zenon DEF PointersRight
    <3>2. plan[u][j].info # m /\ plan[u][j].info # NULL
      BY <3>1, NullAssumption, Zenon
    <3>3. \A h \in Hashes : hash_to_master[h] # plan[u][j].info
      BY <3>1, Zenon DEF Published
    <3>. QED
      BY <2>3, <3>1, <3>2, <3>3, Zenon
  <2>9. PointersRight(t)'
    <3>1. Points(t)' = Held(t)' /\ pc'[t] # "p1take"
      BY Zenon DEF Points, WrSteps
    <3>2. \A j \in Points(t)' \ Pending(t)' : Published(plan[t][j].info)'
      BY <2>7, <3>1, ZenonT(30) DEF Published
    <3>3. \A j \in Pending(t)' :
            /\ info'[plan'[t][j].info].hash = HashOf[req'[t].buf[j]]
            /\ info'[plan'[t][j].info].refcount = 1
            /\ ~Published(plan[t][j].info)'
      <4>. SUFFICES ASSUME NEW j \in Pending(t)'
                    PROVE  /\ info'[plan'[t][j].info].hash = HashOf[req'[t].buf[j]]
                           /\ info'[plan'[t][j].info].refcount = 1
                           /\ ~Published(plan[t][j].info)'
        BY Zenon
      <4>1. /\ info'[plan[t][j].info] = info[plan[t][j].info]
            /\ \A h \in Hashes : hash_to_master'[h] # plan[t][j].info
        BY <2>8, Zenon
      <4>2. info[plan[t][j].info].hash = HashOf[req[t].buf[j]] /\ info[plan[t][j].info].refcount = 1
        BY <2>1, Zenon DEF PointersRight
      <4>. QED
        BY <4>1, <4>2, Zenon DEF Published
    <3>4. DistinctBlocks(req[t].buf)'
      BY <2>1, <1>SameBuffer, Zenon
    <3>. QED
      BY <3>1, <3>2, <3>3, <3>4, Zenon DEF PointersRight
  <2>10. ASSUME NEW u \in Threads \ {t}
         PROVE  PointersRight(u)'
    <3>1. PointersRight(u) /\ SameLocals(u) /\ Held(u)' = Held(u) /\ plan'[u] = plan[u]
      BY RefParts, OtherEntries, Zenon DEF SameLocals
    <3>2. pc[u] # "p1take"
      BY <2>1, NullAssumption, Zenon DEF LockInv, RdSteps
    <3>3. Points(u) = Held(u) /\ Held(u) \subseteq DOMAIN plan[u]
      BY <3>2, EntryRange, Zenon DEF Points
    <3>4. \A j \in Points(u) \ Pending(u) : \E h \in Hashes : hash_to_master'[h] = plan[u][j].info
      <4>. SUFFICES ASSUME NEW j \in Points(u) \ Pending(u)
                    PROVE  \E h \in Hashes : hash_to_master'[h] = plan[u][j].info
        BY Zenon
      <4>1. Published(plan[u][j].info)
        BY <3>1, Zenon DEF PointersRight
      <4>2. j \in Held(u)' \ Pending(u) /\ j \in DOMAIN plan[u]
        BY <3>1, <3>3, Zenon
      <4>. QED
        BY <2>7, <3>1, <4>1, <4>2, Zenon
    <3>. QED
      BY <2>8, <3>1, <3>4, <1>OtherPointers, Zenon
  <2>. QED
    BY <2>4, <2>6, <2>9, <2>10, Zenon DEF RefInv
\* Passe 3 hands a reference over to file_to_master.
<1>MapCounts.
    ASSUME CountingLaws, TypeInv, RefInv, NEW t \in Threads, \A u \in Threads \ {t} : SameLocals(u), MapBlock(t),
           NEW n \in InfoIds
    PROVE  /\ Overwritten(t) = n => Cardinality(MappedTo(n)') + Cardinality(HeldBy(n)') = info[n].refcount - 1
           /\ Overwritten(t) # n => Cardinality(MappedTo(n)') + Cardinality(HeldBy(n)') = info[n].refcount
  <2> USE <1>MapCounts
  <2>. DEFINE fb == FileBlock(t)
              m == plan[t][blk[t]].info
  <2>1. /\ TypeOK /\ fb \in Paths \X Blocks /\ blk[t] \in Held(t) /\ Held(t)' = Held(t) \ {blk[t]} /\ plan' = plan
        /\ blk[t] \in 1 .. MaxBlocks
    <3>1. pc[t] = "map" /\ NextBlock(t, "map", "p3unlock") /\ plan' = plan
      BY Zenon DEF MapBlock
    <3>. QED
      BY <3>1, Parts, FileBlockType, MapEntries, LoopEntry, PlanRange, ZenonT(30)
  <2>2. file_to_master'[fb] = m /\ \A g \in (Paths \X Blocks) \ {fb} : file_to_master'[g] = file_to_master[g]
    BY <2>1, Zenon DEF MapBlock, TypeOK
  <2>. HIDE DEF fb, m
  <2>3. Cardinality(MappedTo(n)') = Cardinality(MappedTo(n))
          - (IF file_to_master[fb] = n THEN 1 ELSE 0) + (IF m = n THEN 1 ELSE 0)
    BY <2>1, <2>2, <1>MappedCount, ZenonT(30)
  <2>4. Cardinality(HeldBy(n)') = Cardinality(HeldBy(n)) - (IF m = n THEN 1 ELSE 0) + 0
    <3>1. /\ Held(t)' \ {blk[t]} = Held(t) \ {blk[t]} /\ blk[t] \notin Held(t)'
          /\ \A i \in Held(t) \ {blk[t]} : plan'[t][i].info = plan[t][i].info
      BY <2>1, Zenon
    <3>2. Cardinality(HeldBy(n)') = Cardinality(HeldBy(n))
            - (IF blk[t] \in Held(t) /\ plan[t][blk[t]].info = n THEN 1 ELSE 0)
            + (IF blk[t] \in Held(t)' /\ plan'[t][blk[t]].info = n THEN 1 ELSE 0)
      BY <2>1, <3>1, <1>HeldCount, Zenon
    <3>. QED
      BY <2>1, <3>1, <3>2, Zenon DEF m
  <2>5. /\ Cardinality(MappedTo(n)) \in Nat /\ Cardinality(HeldBy(n)) \in Nat
        /\ info[n].refcount = Cardinality(MappedTo(n)) + Cardinality(HeldBy(n))
    BY HolderSets, Zenon DEF RefInv, RefcountExact
  <2>. QED
    BY <2>3, <2>4, <2>5 DEF Overwritten, fb
<1>MapBlockRefs. ASSUME CountingLaws, TypeInv, RefInv, NEW t \in Threads, \A u \in Threads \ {t} : SameLocals(u), MapBlock(t)
    PROVE  RefInv'
  <2> USE <1>MapBlockRefs
  <2>. DEFINE fb == FileBlock(t)
              old == Overwritten(t)
              m == plan[t][blk[t]].info
  <2>1. /\ TypeOK /\ RefcountExact /\ OneInfoPerHash /\ PointersRight(t)
        /\ pc[t] = "map" /\ plan' = plan /\ req' = req /\ NextBlock(t, "map", "p3unlock")
    BY Parts, RefParts, Zenon DEF MapBlock, request
  <2>2. fb \in Paths \X Blocks /\ m \in InfoIds /\ old \in InfoIds \cup {NULL}
    BY <2>1, FileBlockType, LoopEntry, Zenon DEF TypeOK, Overwritten
  <2>3. file_to_master'[fb] = m /\ \A g \in (Paths \X Blocks) \ {fb} : file_to_master'[g] = file_to_master[g]
    BY <2>1, <2>2, Zenon DEF MapBlock, TypeOK
  <2>4. /\ pc'[t] \in {"map", "p3unlock"} /\ blk[t] \in Held(t)
        /\ Held(t)' = Held(t) \ {blk[t]} /\ Pending(t) = {} /\ Pending(t)' = {}
    BY <2>1, MapEntries, Zenon
  <2>5. \A j \in Held(t) : j \in DOMAIN plan[t] /\ Published(plan[t][j].info)
    BY <2>1, <2>4, EntryRange, Zenon DEF PointersRight, Points
  <2>6. \A g \in Paths \X Blocks : file_to_master'[g] # NULL =>
          file_to_master'[g] \in InfoIds /\ Published(file_to_master'[g])
    <3>1. \A g \in Paths \X Blocks : file_to_master[g] # NULL =>
            file_to_master[g] \in InfoIds /\ Published(file_to_master[g])
      BY <2>1, ZenonT(30) DEF OneInfoPerHash, Published, TypeOK
    <3>. QED
      BY <2>2, <2>3, <2>4, <2>5, <3>1, Zenon
  <2>7. \A n \in InfoIds :
          /\ old = n => Cardinality(MappedTo(n)') + Cardinality(HeldBy(n)') = info[n].refcount - 1
          /\ old # n => Cardinality(MappedTo(n)') + Cardinality(HeldBy(n)') = info[n].refcount
    BY <1>MapCounts, Zenon
  <2>8. CASE old # NULL
    <3>1. DropReference(t, old) /\ Published(old)
      BY <2>1, <2>2, <2>8, Zenon DEF MapBlock, OneInfoPerHash, Published, Overwritten
    <3>2. pc[t] \in WrSteps /\ pc'[t] \in WrSteps
      BY <2>1, <2>4, Zenon DEF WrSteps
    <3>. HIDE DEF old, m, fb
    <3>3. PICK k \in InfoIds : k = old
      BY <2>2, <2>8, Zenon
    <3>4. /\ Cardinality(MappedTo(k)') + Cardinality(HeldBy(k)') = info[k].refcount - 1
          /\ \A n \in InfoIds \ {k} :
               Cardinality(MappedTo(n)') + Cardinality(HeldBy(n)') = info[n].refcount
      BY <2>7, <3>3, Zenon
    <3>5. DropReference(t, k) /\ Published(k)
      BY <3>1, <3>3, Zenon
    <3>. QED
      BY <2>1, <2>4, <2>5, <2>6, <3>2, <3>4, <3>5, <1>DropRefs, Zenon
  <2>9. CASE old = NULL
    <3>. HIDE DEF old, m, fb
    <3>1. hash_to_master' = hash_to_master /\ info' = info
      BY <2>9, Zenon DEF MapBlock, old
    <3>2. RefcountExact'
      <4>1. \A n \in InfoIds : info'[n].refcount = Cardinality(MappedTo(n)') + Cardinality(HeldBy(n)')
        BY <2>7, <2>9, <3>1, NullAssumption, Zenon
      <4>. QED
        BY <2>1, <3>1, <4>1, Zenon DEF RefcountExact, Live
    <3>3. OneInfoPerHash'
      BY <2>1, <2>6, <3>1, Zenon DEF OneInfoPerHash, Published
    <3>4. PointersRight(t)'
      <4>1. \A j \in Points(t)' : Published(plan[t][j].info)'
        BY <2>1, <2>4, <2>5, <3>1, SMTT(30) DEF Points, Published
      <4>2. DistinctBlocks(req[t].buf)'
        BY <2>1, <1>SameBuffer, Zenon
      <4>. QED
        BY <2>1, <2>4, <4>1, <4>2, Zenon DEF PointersRight
    <3>5. /\ \A u \in Threads : \A j \in Points(u) : plan[u][j].info \in InfoIds
          /\ \A u \in Threads : \A j \in Pending(u) : \A h \in Hashes : hash_to_master'[h] # plan[u][j].info
      BY <3>1, PointerTypes, Zenon DEF Published
    <3>. QED
      BY <3>1, <3>2, <3>3, <3>4, <3>5, <1>GrowStep, Zenon
  <2>. QED
    BY <2>8, <2>9, Zenon
<1>RbHitRefs. ASSUME CountingLaws, TypeInv, RefInv, NEW t \in Threads, \A u \in Threads \ {t} : SameLocals(u), RbHit(t)
    PROVE  RefInv'
  <2> USE <1>RbHitRefs
  <2>. DEFINE m == plan[t][blk[t]].info
  <2>1. /\ TypeOK /\ RefcountExact /\ OneInfoPerHash /\ PointersRight(t)
        /\ pc[t] = "rbhits" /\ plan' = plan /\ req' = req /\ NextBlock(t, "rbhits", "rbunlock")
        /\ file_to_master' = file_to_master
    BY Parts, RefParts, Zenon DEF RbHit, request
  <2>2. m \in InfoIds /\ blk[t] \in 1 .. MaxBlocks
    BY <2>1, LoopEntry, PlanRange, Zenon
  <2>3. /\ pc'[t] \in {"rbhits", "rbunlock"} /\ blk[t] \in Held(t)
        /\ Reverts(t) => Held(t)' = Held(t) \ {blk[t]} /\ blk[t] \notin Pending(t)
        /\ ~Reverts(t) => Held(t)' = Held(t)
        /\ Pending(t)' = Pending(t)
    BY <2>1, RbEntries, Zenon
  <2>4. Points(t) = Held(t) /\ Points(t)' = Held(t)'
    BY <2>1, <2>3, Zenon DEF Points
  <2>5. CASE ~Reverts(t)
    <3>1. hash_to_master' = hash_to_master /\ info' = info
      BY <2>5, Zenon DEF RbHit
    <3>2. pc'[t] # "p1take"
      BY <2>3, Zenon
    <3>. QED
      BY <2>1, <2>3, <2>4, <2>5, <3>1, <3>2, <1>QuietStep, ZenonT(30)
  <2>6. CASE Reverts(t)
    <3>1. \A j \in Held(t) \ Pending(t) : j \in DOMAIN plan[t] /\ Published(plan[t][j].info)
      BY <2>1, <2>4, EntryRange, Zenon DEF PointersRight
    <3>2. DropReference(t, m) /\ Published(m) /\ pc[t] \in WrSteps /\ pc'[t] \in WrSteps
      BY <2>1, <2>3, <2>6, <3>1, Zenon DEF RbHit, WrSteps
    <3>3. \A g \in Paths \X Blocks : file_to_master'[g] # NULL =>
            file_to_master'[g] \in InfoIds /\ Published(file_to_master'[g])
      BY <2>1, Zenon DEF OneInfoPerHash, Published, TypeOK
    <3>4. ASSUME NEW n \in InfoIds
          PROVE  /\ m = n => Cardinality(MappedTo(n)') + Cardinality(HeldBy(n)') = info[n].refcount - 1
                 /\ m # n => Cardinality(MappedTo(n)') + Cardinality(HeldBy(n)') = info[n].refcount
      <4>1. MappedTo(n)' = MappedTo(n)
        BY <2>1, Zenon DEF MappedTo
      <4>2. /\ Held(t)' \ {blk[t]} = Held(t) \ {blk[t]} /\ blk[t] \notin Held(t)'
            /\ \A i \in Held(t) \ {blk[t]} : plan'[t][i].info = plan[t][i].info
        BY <2>1, <2>3, <2>6, Zenon
      <4>3. Cardinality(HeldBy(n)') = Cardinality(HeldBy(n))
              - (IF blk[t] \in Held(t) /\ plan[t][blk[t]].info = n THEN 1 ELSE 0)
              + (IF blk[t] \in Held(t)' /\ plan'[t][blk[t]].info = n THEN 1 ELSE 0)
        BY <2>2, <4>2, <1>HeldCount, ZenonT(30)
      <4>4. Cardinality(HeldBy(n)') = Cardinality(HeldBy(n)) - (IF m = n THEN 1 ELSE 0) + 0
        BY <2>3, <4>2, <4>3, Zenon
      <4>5. /\ Cardinality(MappedTo(n)) \in Nat /\ Cardinality(HeldBy(n)) \in Nat
            /\ info[n].refcount = Cardinality(MappedTo(n)) + Cardinality(HeldBy(n))
        BY <2>1, HolderSets, Zenon DEF RefcountExact
      <4>. HIDE DEF m
      <4>. QED
        BY <4>1, <4>4, <4>5
    <3>. HIDE DEF m
    <3>k. PICK k \in InfoIds : k = m
      BY <2>2, Zenon
    <3>5. /\ Cardinality(MappedTo(k)') + Cardinality(HeldBy(k)') = info[k].refcount - 1
          /\ \A n \in InfoIds \ {k} : Cardinality(MappedTo(n)') + Cardinality(HeldBy(n)') = info[n].refcount
          /\ DropReference(t, k) /\ Published(k)
      BY <3>2, <3>4, <3>k, Zenon
    <3>6. \A j \in Held(t)' \ Pending(t) : j \in DOMAIN plan[t] /\ Published(plan[t][j].info)
      BY <2>3, <2>6, <3>1, Zenon
    <3>. QED
      BY <2>1, <2>3, <3>2, <3>3, <3>5, <3>6, <1>DropRefs, Zenon
  <2>. QED
    BY <2>5, <2>6, Zenon
<1>RmBlockRefs. ASSUME CountingLaws, TypeInv, RefInv, NEW t \in Threads, \A u \in Threads \ {t} : SameLocals(u), RmBlock(t)
    PROVE  RefInv'
  <2> USE <1>RmBlockRefs
  <2>. DEFINE fb == FileBlock(t)
              m == file_to_master[fb]
  <2>1. /\ TypeOK /\ RefcountExact /\ OneInfoPerHash /\ PointersRight(t)
        /\ pc[t] = "remove" /\ plan' = plan /\ req' = req
        /\ plan[t] = <<>> /\ pc'[t] \in {"remove", "rmunlock"}
    <3>1. TypeOK /\ plan[t] = <<>>
      BY Parts, Zenon DEF RmBlock, PlanShape, RemoveSteps
    <3>. QED
      BY <3>1, RefParts, LoopStep, StepNames, Zenon DEF RmBlock, request
  <2>2. fb \in Paths \X Blocks /\ m \in InfoIds \cup {NULL}
    BY <2>1, FileBlockType, Zenon DEF TypeOK
  <2>3. file_to_master'[fb] = NULL /\ \A g \in (Paths \X Blocks) \ {fb} : file_to_master'[g] = file_to_master[g]
    BY <2>1, <2>2, Zenon DEF RmBlock, TypeOK
  <2>4. /\ Held(t) = {} /\ Points(t) = {} /\ Pending(t) = {}
        /\ Held(t)' = {} /\ Points(t)' = {} /\ Pending(t)' = {} /\ pc'[t] # "p1take"
    BY <2>1 DEF Held, Points, Pending, Misses
  <2>5. CASE m = NULL
    <3>1. hash_to_master' = hash_to_master /\ info' = info
      BY <2>5, Zenon DEF RmBlock
    <3>2. file_to_master' = file_to_master
      BY <2>1, <2>2, <2>5 DEF RmBlock, TypeOK
    <3>. QED
      BY <2>1, <2>4, <3>1, <3>2, <1>QuietStep, Zenon
  <2>6. CASE m # NULL
    <3>1. \A g \in Paths \X Blocks : file_to_master[g] # NULL =>
            file_to_master[g] \in InfoIds /\ Published(file_to_master[g])
      BY <2>1, Zenon DEF OneInfoPerHash, Published, TypeOK
    <3>2. DropReference(t, m) /\ Published(m) /\ pc[t] \in WrSteps /\ pc'[t] \in WrSteps
      BY <2>1, <2>2, <2>6, <3>1, Zenon DEF RmBlock, WrSteps
    <3>. HIDE DEF m, fb
    <3>3. \A g \in Paths \X Blocks : file_to_master'[g] # NULL =>
            file_to_master'[g] \in InfoIds /\ Published(file_to_master'[g])
      BY <2>3, <3>1, Zenon
    <3>4. ASSUME NEW n \in InfoIds
          PROVE  /\ m = n => Cardinality(MappedTo(n)') + Cardinality(HeldBy(n)') = info[n].refcount - 1
                 /\ m # n => Cardinality(MappedTo(n)') + Cardinality(HeldBy(n)') = info[n].refcount
      <4>1. \A u \in Threads : Held(u)' = Held(u)
        BY <2>4, OtherEntries, Zenon
      <4>2. HeldBy(n)' = HeldBy(n)
        BY <2>1, <4>1, Zenon DEF HeldBy
      <4>3. Cardinality(MappedTo(n)') = Cardinality(MappedTo(n)) - (IF m = n THEN 1 ELSE 0) + 0
        <5>1. Cardinality(MappedTo(n)') = Cardinality(MappedTo(n))
                - (IF file_to_master[fb] = n THEN 1 ELSE 0) + (IF file_to_master'[fb] = n THEN 1 ELSE 0)
          BY <2>2, <2>3, <1>MappedCount, Zenon
        <5>. QED
          BY <2>3, <5>1, NullAssumption, Zenon DEF m
      <4>4. /\ Cardinality(MappedTo(n)) \in Nat /\ Cardinality(HeldBy(n)) \in Nat
            /\ info[n].refcount = Cardinality(MappedTo(n)) + Cardinality(HeldBy(n))
        BY <2>1, HolderSets, Zenon DEF RefcountExact
      <4>. QED
        BY <4>2, <4>3, <4>4
    <3>k. PICK k \in InfoIds : k = m
      BY <2>2, <2>6, Zenon
    <3>5. /\ Cardinality(MappedTo(k)') + Cardinality(HeldBy(k)') = info[k].refcount - 1
          /\ \A n \in InfoIds \ {k} : Cardinality(MappedTo(n)') + Cardinality(HeldBy(n)') = info[n].refcount
          /\ DropReference(t, k) /\ Published(k)
      BY <3>2, <3>4, <3>k, Zenon
    <3>6. /\ Pending(t)' = Pending(t)
          /\ \A j \in Held(t)' \ Pending(t) : j \in DOMAIN plan[t] /\ Published(plan[t][j].info)
      BY <2>4, Zenon
    <3>. QED
      BY <2>1, <3>2, <3>3, <3>5, <3>6, <1>DropRefs, ZenonT(30)
  <2>. QED
    BY <2>5, <2>6, Zenon
<1>P1HitRefs. ASSUME TypeInv, RefInv, NEW t \in Threads, \A u \in Threads \ {t} : SameLocals(u), P1Hit(t)
    PROVE  RefInv'
  <2> USE <1>P1HitRefs
  <2>. DEFINE m == Existing(t, BlockHash(t))
              e == [kind |-> "HIT", info |-> m, rank |-> 0]
  <2>1. /\ pc[t] = "p1" /\ m # NULL /\ plan' = [plan EXCEPT ![t] = Append(@, e)] /\ Goto(t, "p1take")
        /\ hash_to_master' = hash_to_master /\ file_to_master' = file_to_master /\ info' = info
        /\ req' = req /\ blk' = blk
    BY Zenon DEF P1Hit, index, request
  <2>2. pc'[t] = "p1take"
    BY <2>1, Parts, Zenon DEF Goto, TypeOK
  <2>3. \E h \in Hashes : hash_to_master[h] = m
    BY <2>1, HitIsPublished, BlockHashType, Zenon
  <2>4. e.kind = "HIT" /\ e.info = m
    BY Zenon
  <2>. HIDE DEF m, e
  <2>5. /\ DOMAIN plan[t] = 1 .. blk[t] - 1 /\ DOMAIN plan'[t] = 1 .. blk[t] /\ blk[t] \in 1 .. MaxBlocks
        /\ plan'[t][blk[t]] = e /\ \A j \in DOMAIN plan[t] : plan'[t][j] = plan[t][j]
        /\ Held(t) = DOMAIN plan[t] /\ Points(t) = DOMAIN plan[t] /\ Pending(t) = Misses(t)
        /\ Misses(t)' = IF e.kind = "MISS" THEN Misses(t) \cup {blk[t]} ELSE Misses(t)
    BY <2>1, PlanGrows, Zenon
  <2>6. Held(t)' = {j \in 1 .. blk[t] : j < blk[t]} /\ Pending(t)' = Misses(t)
    BY <2>1, <2>2, <2>4, <2>5 DEF Held, Pending
  <2>7. Held(t)' = Held(t) /\ Pending(t)' = Pending(t)
    BY <2>5, <2>6
  <2>8. Points(t)' = Points(t) \cup {blk[t]}
    BY <2>1, <2>2, <2>5, <2>7, Zenon DEF Points
  <2>9. \A j \in Points(t)' \ Pending(t) : \E h \in Hashes : hash_to_master[h] = plan'[t][j].info
    <3>1. \A j \in Points(t) \ Pending(t) : \E h \in Hashes : hash_to_master[h] = plan[t][j].info
      BY RefParts, Zenon DEF PointersRight, Published
    <3>. QED
      BY <2>3, <2>4, <2>5, <2>8, <3>1, Zenon
  <2>10. /\ \A j \in Held(t) : plan'[t][j].info = plan[t][j].info
         /\ plan'[t][blk'[t]].kind = "HIT"
    BY <2>1, <2>4, <2>5, Zenon
  <2>. QED
    BY <2>1, <2>7, <2>9, <2>10, <1>SameCounts, Zenon
<1>P1TakeRefs. ASSUME CountingLaws, TypeInv, RefInv, NEW t \in Threads, \A u \in Threads \ {t} : SameLocals(u), P1Take(t)
    PROVE  RefInv'
  <2> USE <1>P1TakeRefs
  <2>1. /\ TypeOK /\ RefcountExact /\ OneInfoPerHash /\ PointersRight(t) /\ blk[t] \in DOMAIN plan[t]
        /\ pc[t] = "p1take" /\ plan' = plan /\ req' = req /\ pc'[t] \in {"p1", "p1unlock"}
        /\ hash_to_master' = hash_to_master /\ file_to_master' = file_to_master
        /\ Len(plan[t]) = blk[t] /\ blk[t] \in Nat /\ DOMAIN plan[t] = 1 .. Len(plan[t])
    <3>1. /\ TypeOK /\ RefcountExact /\ OneInfoPerHash /\ PointersRight(t) /\ blk[t] \in DOMAIN plan[t]
          /\ pc[t] = "p1take" /\ Len(plan[t]) = blk[t] /\ blk[t] \in Nat /\ DOMAIN plan[t] = 1 .. Len(plan[t])
      BY Parts, LocalTypes, RefParts, LoopEntry, PlanRange, Zenon DEF P1Take, PlanShape
    <3>2. NextBlock(t, "p1", "p1unlock") /\ plan' = plan /\ req' = req
          /\ hash_to_master' = hash_to_master /\ file_to_master' = file_to_master
      BY Zenon DEF P1Take, request
    <3>3. pc'[t] \in {"p1", "p1unlock"}
      BY <3>1, <3>2, LoopStep, StepNames, Zenon
    <3>. QED
      BY <3>1, <3>2, <3>3, Zenon
  <2>2. PICK m \in InfoIds : m = plan[t][blk[t]].info
    BY <2>1, LoopEntry, Zenon
  <2>3. Misses(t)' = Misses(t)
    BY <2>1, Zenon DEF Misses
  <2>4. /\ Held(t) = {j \in DOMAIN plan[t] : j < blk[t]} /\ Held(t)' = DOMAIN plan[t]
        /\ Pending(t) = Misses(t) /\ Pending(t)' = Misses(t)
    BY <2>1, <2>3 DEF Held, Pending
  <2>5. Held(t)' = Held(t) \cup {blk[t]} /\ blk[t] \notin Held(t) /\ Points(t)' = Points(t)
    BY <2>1, <2>4 DEF Points
  <2>6. Published(m)
    BY <2>1, <2>2, <2>4, ZenonT(30) DEF PointersRight, Points, Misses
  <2>7. /\ \A n \in InfoIds \ {m} : info'[n] = info[n]
        /\ info'[m].refcount = info[m].refcount + 1 /\ info'[m].hash = info[m].hash
    BY <2>1, <2>2 DEF P1Take, TypeOK, MasterInfo
  <2>8. RefcountExact'
    <3>. SUFFICES ASSUME NEW n \in InfoIds
                  PROVE  /\ info'[n].refcount = Cardinality(MappedTo(n)') + Cardinality(HeldBy(n)')
                         /\ info'[n].hash # NULL <=> info'[n].refcount > 0
      BY Zenon DEF RefcountExact, Live
    <3>1. MappedTo(n)' = MappedTo(n)
      BY <2>1, Zenon DEF MappedTo
    <3>2. /\ Held(t)' \ {blk[t]} = Held(t) \ {blk[t]} /\ blk[t] \in 1 .. MaxBlocks
          /\ \A i \in Held(t) \ {blk[t]} : plan'[t][i].info = plan[t][i].info
      BY <2>1, <2>5, PlanRange, Zenon
    <3>3. Cardinality(HeldBy(n)') = Cardinality(HeldBy(n))
            - (IF blk[t] \in Held(t) /\ plan[t][blk[t]].info = n THEN 1 ELSE 0)
            + (IF blk[t] \in Held(t)' /\ plan'[t][blk[t]].info = n THEN 1 ELSE 0)
      BY <3>2, <1>HeldCount
    <3>4. Cardinality(HeldBy(n)') = Cardinality(HeldBy(n)) - 0 + (IF m = n THEN 1 ELSE 0)
      BY <2>1, <2>2, <2>5, <3>3, Zenon
    <3>5. /\ Cardinality(MappedTo(n)) \in Nat /\ Cardinality(HeldBy(n)) \in Nat
          /\ info[n].refcount = Cardinality(MappedTo(n)) + Cardinality(HeldBy(n))
          /\ info[n].hash # NULL <=> info[n].refcount > 0
      BY <2>1, HolderSets, Zenon DEF RefcountExact, Live
    <3>6. info[m].refcount > 0
      BY <2>6, PublishedLive, Zenon
    <3>. QED
      BY <2>7, <3>1, <3>4, <3>5, <3>6
  <2>9. OneInfoPerHash'
    BY <2>1, <2>7, ZenonT(30) DEF OneInfoPerHash, TypeOK
  <2>10. \A u \in Threads :
           /\ \A j \in Points(u) : plan[u][j].info \in InfoIds
           /\ \A j \in Pending(u) : /\ info'[plan[u][j].info] = info[plan[u][j].info]
                                    /\ \A h \in Hashes : hash_to_master'[h] # plan[u][j].info
    <3>1. \A u \in Threads : \A j \in Pending(u) : ~Published(plan[u][j].info) /\ plan[u][j].info \in InfoIds
      BY PointerTypes, Zenon
    <3>2. \A n : ~Published(n) => \A h \in Hashes : hash_to_master'[h] # n
      BY <2>1, Zenon DEF Published
    <3>. QED
      BY <2>6, <2>7, <3>1, <3>2, PointerTypes, Zenon
  <2>11. PointersRight(t)'
    <3>1. \A j \in Points(t)' \ Pending(t)' : Published(plan[t][j].info)'
      BY <2>1, <2>4, <2>5, SMTT(30) DEF Published, PointersRight
    <3>2. \A j \in Pending(t)' :
            /\ info'[plan'[t][j].info].hash = HashOf[req'[t].buf[j]]
            /\ info'[plan'[t][j].info].refcount = 1
            /\ ~Published(plan[t][j].info)'
      BY <2>1, <2>4, <2>10, SMTT(30) DEF Published, PointersRight
    <3>3. DistinctBlocks(req[t].buf)'
      BY <2>1, <1>SameBuffer, Zenon
    <3>. QED
      BY <2>1, <3>1, <3>2, <3>3, ZenonT(30) DEF PointersRight
  <2>. QED
    BY <2>1, <2>8, <2>9, <2>10, <2>11, <1>GrowStep, ZenonT(30)
<1>P1MissRefs. ASSUME CountingLaws, TypeInv, RefInv, NEW t \in Threads, \A u \in Threads \ {t} : SameLocals(u), P1Miss(t)
    PROVE  RefInv'
  <2> USE <1>P1MissRefs
  <2>. DEFINE h == BlockHash(t)
  <2>1. /\ TypeOK /\ RefcountExact /\ OneInfoPerHash /\ PointersRight(t) /\ pc[t] = "p1" /\ h \in Hashes
    BY Parts, RefParts, BlockHashType, Zenon DEF P1Miss
  <2>2. PICK m \in InfoIds :
          /\ info[m].hash = NULL
          /\ info' = [info EXCEPT ![m] = [hash |-> h, masterBlockIndex |-> 0, refcount |-> 1]]
          /\ plan' = [plan EXCEPT ![t] = Append(@, [kind |-> "MISS", info |-> m, rank |-> miss_count[t] + 1])]
    BY Zenon DEF P1Miss, Live
  <2>. DEFINE e == [kind |-> "MISS", info |-> m, rank |-> miss_count[t] + 1]
  <2>3. /\ NextBlock(t, "p1", "p1unlock") /\ req' = req
        /\ hash_to_master' = hash_to_master /\ file_to_master' = file_to_master
    BY Zenon DEF P1Miss, request
  <2>4. pc'[t] \in {"p1", "p1unlock"}
    BY <2>1, <2>3, LoopStep, StepNames, Zenon
  <2>5. e.kind = "MISS" /\ e.info = m /\ plan' = [plan EXCEPT ![t] = Append(@, e)]
    BY <2>2, Zenon
  <2>. HIDE DEF e
  <2>6. /\ DOMAIN plan[t] = 1 .. blk[t] - 1 /\ DOMAIN plan'[t] = 1 .. blk[t] /\ blk[t] \in 1 .. MaxBlocks
        /\ plan'[t][blk[t]] = e /\ \A j \in DOMAIN plan[t] : plan'[t][j] = plan[t][j]
        /\ Held(t) = DOMAIN plan[t] /\ Points(t) = DOMAIN plan[t] /\ Pending(t) = Misses(t)
        /\ Misses(t)' = IF e.kind = "MISS" THEN Misses(t) \cup {blk[t]} ELSE Misses(t)
    BY <2>1, <2>5, PlanGrows, ZenonT(30)
  <2>7. Held(t)' = DOMAIN plan'[t] /\ Points(t)' = DOMAIN plan'[t] /\ Pending(t)' = Misses(t) \cup {blk[t]}
    BY <2>4, <2>5, <2>6, SMTT(30) DEF Held, Points, Pending
  <2>8. /\ Held(t)' = Held(t) \cup {blk[t]} /\ blk[t] \notin Held(t)
        /\ Points(t)' \ Pending(t)' = Points(t) \ Pending(t)
    BY <2>6, <2>7
  <2>9. /\ \A n \in InfoIds \ {m} : info'[n] = info[n]
        /\ info'[m].hash = h /\ info'[m].refcount = 1
    BY <2>1, <2>2, Zenon DEF TypeOK
  <2>. HIDE DEF h
  <2>10. RefcountExact'
    <3>. SUFFICES ASSUME NEW n \in InfoIds
                  PROVE  /\ info'[n].refcount = Cardinality(MappedTo(n)') + Cardinality(HeldBy(n)')
                         /\ info'[n].hash # NULL <=> info'[n].refcount > 0
      BY Zenon DEF RefcountExact, Live
    <3>1. MappedTo(n)' = MappedTo(n)
      BY <2>3, Zenon DEF MappedTo
    <3>2. /\ Held(t)' \ {blk[t]} = Held(t) \ {blk[t]}
          /\ \A i \in Held(t) \ {blk[t]} : plan'[t][i].info = plan[t][i].info
      BY <2>6, <2>8, Zenon
    <3>3. Cardinality(HeldBy(n)') = Cardinality(HeldBy(n))
            - (IF blk[t] \in Held(t) /\ plan[t][blk[t]].info = n THEN 1 ELSE 0)
            + (IF blk[t] \in Held(t)' /\ plan'[t][blk[t]].info = n THEN 1 ELSE 0)
      BY <2>6, <3>2, <1>HeldCount, SMTT(30)
    <3>4. Cardinality(HeldBy(n)') = Cardinality(HeldBy(n)) - 0 + (IF m = n THEN 1 ELSE 0)
      BY <2>5, <2>6, <2>8, <3>3, Zenon
    <3>5. /\ Cardinality(MappedTo(n)) \in Nat /\ Cardinality(HeldBy(n)) \in Nat
          /\ info[n].refcount = Cardinality(MappedTo(n)) + Cardinality(HeldBy(n))
          /\ info[n].hash # NULL <=> info[n].refcount > 0
      BY <2>1, HolderSets, Zenon DEF RefcountExact, Live
    <3>6. h # NULL
      BY <2>1, NullAssumption, Zenon
    <3>. QED
      BY <2>2, <2>9, <3>1, <3>4, <3>5, <3>6, SMTT(30)
  <2>11. \A g \in Hashes : hash_to_master[g] # m
    BY <2>1, <2>2, NullAssumption, Zenon DEF OneInfoPerHash
  <2>12. OneInfoPerHash'
    <3>1. \A g \in Hashes : hash_to_master[g] # NULL => info'[hash_to_master[g]] = info[hash_to_master[g]]
      BY <2>1, <2>9, <2>11, Zenon DEF TypeOK
    <3>. QED
      BY <2>1, <2>3, <3>1, Zenon DEF OneInfoPerHash
  <2>13. \A u \in Threads :
           /\ \A j \in Points(u) : plan[u][j].info \in InfoIds
           /\ \A j \in Pending(u) : /\ info'[plan[u][j].info] = info[plan[u][j].info]
                                    /\ \A g \in Hashes : hash_to_master'[g] # plan[u][j].info
    <3>1. \A n : ~Published(n) => \A g \in Hashes : hash_to_master'[g] # n
      BY <2>3, Zenon DEF Published
    <3>. QED
      BY <2>2, <2>9, <3>1, PointerTypes, Zenon
  <2>14. PointersRight(t)'
    <3>1. \A j \in Points(t)' \ Pending(t)' : Published(plan[t][j].info)'
      <4>1. \A j \in Points(t) \ Pending(t) : \E g \in Hashes : hash_to_master'[g] = plan'[t][j].info
        BY <2>1, <2>3, <2>6 DEF PointersRight, Published
      <4>. QED
        BY <2>8, <4>1, Zenon DEF Published
    <3>2. ASSUME NEW j \in Pending(t)'
          PROVE  /\ info'[plan'[t][j].info].hash = HashOf[req'[t].buf[j]]
                 /\ info'[plan'[t][j].info].refcount = 1
                 /\ \A g \in Hashes : hash_to_master'[g] # plan'[t][j].info
      <4>1. CASE j = blk[t]
        BY <2>3, <2>5, <2>6, <2>9, <2>11, <4>1, ZenonT(30) DEF h, BlockHash
      <4>2. CASE j \in Pending(t)
        <5>1. plan'[t][j] = plan[t][j]
          BY <2>6, <4>2, EntryRange, ZenonT(30)
        <5>2. info[plan[t][j].info].hash = HashOf[req[t].buf[j]] /\ info[plan[t][j].info].refcount = 1
          BY <2>1, <4>2, Zenon DEF PointersRight
        <5>3. /\ info'[plan[t][j].info] = info[plan[t][j].info] /\ req'[t] = req[t]
              /\ \A g \in Hashes : hash_to_master'[g] # plan[t][j].info
          BY <2>3, <2>13, <4>2, Zenon
        <5>. QED
          BY ONLY <5>1, <5>2, <5>3, Zenon
      <4>. QED
        BY <2>6, <2>7, <4>1, <4>2, Zenon
    <3>3. DistinctBlocks(req[t].buf)'
      BY <2>1, <2>3, <1>SameBuffer, Zenon
    <3>4. pc'[t] # "p1take"
      BY <2>4, Zenon
    <3>. QED
      BY <3>1, <3>2, <3>3, <3>4, Zenon DEF PointersRight, Published
  <2>. QED
    BY <2>3, <2>10, <2>12, <2>13, <2>14, <1>GrowStep, ZenonT(30)
\* A MISS that nobody else inserted is published.
<1>PublishMiss. ASSUME CountingLaws, TypeInv, RefInv, NEW t \in Threads, \A u \in Threads \ {t} : SameLocals(u),
           Held(t)' = Held(t), Points(t) = Held(t), Points(t)' = Held(t), pc'[t] # "p1take",
           blk[t] \in Pending(t), Pending(t)' = Pending(t) \ {blk[t]},
           NEW m \in InfoIds, m = plan[t][blk[t]].info, NEW h \in Hashes, info[m].hash = h,
           hash_to_master[h] = NULL, hash_to_master'[h] = m,
           \A g \in Hashes \ {h} : hash_to_master'[g] = hash_to_master[g],
           file_to_master' = file_to_master, info' = info, plan' = plan, req' = req
    PROVE  RefInv'
  <2> USE <1>PublishMiss
  <2>1. TypeOK /\ RefcountExact /\ OneInfoPerHash /\ PointersRight(t)
    BY Parts, RefParts, Zenon
  <2>4. RefcountExact'
    <3>1. \A u \in Threads : Held(u)' = Held(u)
      BY OtherEntries, Zenon
    <3>2. \A n : MappedTo(n)' = MappedTo(n) /\ HeldBy(n)' = HeldBy(n)
      BY <3>1, Zenon DEF MappedTo, HeldBy
    <3>. QED
      BY <2>1, <3>2, Zenon DEF RefcountExact, Live
  <2>5. \A n : Published(n) => n = NULL \/ \E g \in Hashes : hash_to_master'[g] = n
    BY Zenon DEF Published
  <2>6. OneInfoPerHash'
    <3>1. \A g \in Hashes : hash_to_master'[g] # NULL => info[hash_to_master'[g]].hash = g
      <4>1. \A g \in Hashes \ {h} : hash_to_master'[g] # NULL => info[hash_to_master'[g]].hash = g
        BY <2>1, ZenonT(30) DEF OneInfoPerHash
      <4>. QED
        BY <4>1, Zenon
    <3>2. \A fb \in Paths \X Blocks : file_to_master[fb] # NULL => Published(file_to_master[fb])
      BY <2>1, Zenon DEF OneInfoPerHash, Published
    <3>. QED
      BY <2>5, <3>1, <3>2, Zenon DEF OneInfoPerHash
  <2>7. ASSUME NEW u \in Threads, NEW j \in Pending(u), <<u, j>> # <<t, blk[t]>>
        PROVE  \A g \in Hashes : hash_to_master'[g] # plan[u][j].info
    <3>1. j \in Held(u) /\ ~Published(plan[u][j].info)
      BY PendingAlone, PointerTypes, Zenon
    <3>2. plan[u][j].info # m
      <4>1. \A i \in Held(u) : plan[u][i].info = plan[t][blk[t]].info => u = t /\ i = blk[t]
        BY PendingAlone, Zenon
      <4>. QED
        BY <2>7, <3>1, <4>1, Zenon
    <3>. QED
      BY <3>1, <3>2, Zenon DEF Published
  <2>9. \A u \in Threads : \A j \in Points(u) : plan[u][j].info \in InfoIds
    BY PointerTypes, Zenon
  <2>8. PointersRight(t)'
    <3>1. \A j \in Points(t)' \ Pending(t)' : Published(plan[t][j].info)'
      <4>1. \A j \in Held(t) \ Pending(t) : Published(plan[t][j].info) /\ plan[t][j].info # NULL
        <5>1. \A j \in Held(t) \ Pending(t) : Published(plan[t][j].info)
          BY <2>1, Zenon DEF PointersRight
        <5>. QED
          BY <2>9, <5>1, NullAssumption, ZenonT(30)
      <4>2. \A j \in Points(t)' \ Pending(t)' : \E g \in Hashes : hash_to_master'[g] = plan[t][j].info
        <5>. SUFFICES ASSUME NEW j \in Held(t), j \notin Pending(t) \/ j = blk[t]
                      PROVE  \E g \in Hashes : hash_to_master'[g] = plan[t][j].info
          BY Zenon
        <5>. QED
          BY <2>5, <4>1, ZenonT(30)
      <4>. QED
        BY <4>2, Zenon DEF Published
    <3>2. ASSUME NEW j \in Pending(t)'
          PROVE  /\ info'[plan'[t][j].info].hash = HashOf[req'[t].buf[j]]
                 /\ info'[plan'[t][j].info].refcount = 1
                 /\ \A g \in Hashes : hash_to_master'[g] # plan'[t][j].info
      <4>1. j \in Pending(t) /\ <<t, j>> # <<t, blk[t]>>
        BY <3>2, Zenon
      <4>2. \A g \in Hashes : hash_to_master'[g] # plan[t][j].info
        BY <2>7, <4>1, ZenonT(30)
      <4>. QED
        BY <2>1, <4>1, <4>2, Zenon DEF PointersRight
    <3>3. DistinctBlocks(req[t].buf)'
      BY <2>1, <1>SameBuffer, Zenon
    <3>. QED
      BY <3>1, <3>2, <3>3, Zenon DEF PointersRight, Published
  <2>10. \A u \in Threads \ {t} : \A j \in Pending(u) : \A g \in Hashes : hash_to_master'[g] # plan[u][j].info
    <3>1. \A u \in Threads \ {t} : \A j \in Pending(u) : <<u, j>> # <<t, blk[t]>>
      BY ONLY TRUE
    <3>. QED
      BY <2>7, <3>1, Zenon
  <2>11. \A g \in Hashes : hash_to_master[g] # NULL => hash_to_master'[g] = hash_to_master[g]
    BY Zenon
  <2>. QED
    BY <2>4, <2>6, <2>8, <2>9, <2>10, <2>11, <1>GrowStep, ZenonT(30)
\* A MISS that another thread inserted meanwhile takes a reference to the
\* winner, and its own MasterInfo is freed.
<1>PublishGivesWay. ASSUME CountingLaws, TypeInv, RefInv, NEW t \in Threads, \A u \in Threads \ {t} : SameLocals(u),
           Held(t)' = Held(t), Points(t) = Held(t), Points(t)' = Held(t), pc'[t] # "p1take",
           blk[t] \in Pending(t), Pending(t)' = Pending(t) \ {blk[t]},
           NEW m \in InfoIds, m = plan[t][blk[t]].info, NEW w \in InfoIds, Published(w),
           \A n \in InfoIds \ {m, w} : info'[n] = info[n], info'[m] = Freed,
           w # m => info'[w].refcount = info[w].refcount + 1 /\ info'[w].hash = info[w].hash,
           plan'[t][blk[t]].info = w,
           \A j \in Held(t) \ {blk[t]} : plan'[t][j].info = plan[t][j].info,
           hash_to_master' = hash_to_master, file_to_master' = file_to_master, req' = req
    PROVE  RefInv'
  <2> USE <1>PublishGivesWay
  <2>1. TypeOK /\ RefcountExact /\ OneInfoPerHash /\ PointersRight(t)
    BY Parts, RefParts, Zenon
  <2>2. /\ blk[t] \in 1 .. MaxBlocks /\ blk[t] \in Held(t) /\ info[m].refcount = 1 /\ ~Published(m)
    BY <2>1, PendingAlone, Zenon DEF PointersRight
  <2>3. /\ w # m /\ info'[m].hash = NULL /\ info'[m].refcount = 0
        /\ info'[w].refcount = info[w].refcount + 1 /\ info'[w].hash = info[w].hash
    <3>1. w # m
      BY <2>2, Zenon
    <3>2. Freed.hash = NULL /\ Freed.refcount = 0
      BY Zenon DEF Freed
    <3>. QED
      BY <3>1, <3>2, Zenon
  <2>4. RefcountExact'
    <3>. SUFFICES ASSUME NEW n \in InfoIds
                  PROVE  /\ info'[n].refcount = Cardinality(MappedTo(n)') + Cardinality(HeldBy(n)')
                         /\ info'[n].hash # NULL <=> info'[n].refcount > 0
      BY Zenon DEF RefcountExact, Live
    <3>1. MappedTo(n)' = MappedTo(n)
      BY ZenonT(30) DEF MappedTo
    <3>2. Cardinality(HeldBy(n)') = Cardinality(HeldBy(n))
            - (IF blk[t] \in Held(t) /\ plan[t][blk[t]].info = n THEN 1 ELSE 0)
            + (IF blk[t] \in Held(t)' /\ plan'[t][blk[t]].info = n THEN 1 ELSE 0)
      <4>1. /\ Held(t)' \ {blk[t]} = Held(t) \ {blk[t]} /\ blk[t] \in 1 .. MaxBlocks
            /\ \A i \in Held(t) \ {blk[t]} : plan'[t][i].info = plan[t][i].info
        BY <2>2, Zenon
      <4>2. CountingLaws /\ t \in Threads /\ \A u \in Threads \ {t} : SameLocals(u)
        BY Zenon
      <4>. QED
        BY ONLY <4>1, <4>2, <1>HeldCount, SMTT(30)
    <3>3. Cardinality(HeldBy(n)') = Cardinality(HeldBy(n)) - (IF m = n THEN 1 ELSE 0) + (IF w = n THEN 1 ELSE 0)
      BY <2>2, <3>2, Zenon
    <3>4. /\ Cardinality(MappedTo(n)) \in Nat /\ Cardinality(HeldBy(n)) \in Nat
          /\ info[n].refcount = Cardinality(MappedTo(n)) + Cardinality(HeldBy(n))
          /\ info[n].hash # NULL <=> info[n].refcount > 0
      BY <2>1, HolderSets, Zenon DEF RefcountExact, Live
    <3>5. info[w].refcount > 0
      BY PublishedLive, ZenonT(30)
    <3>6. CASE n = m
      <4>1. /\ info[n].refcount = 1 /\ info'[n].refcount = 0 /\ info'[n].hash = NULL
            /\ Cardinality(HeldBy(n)') = Cardinality(HeldBy(n)) - 1 + 0
        BY <2>2, <2>3, <3>3, <3>6, ZenonT(30)
      <4>2. 0 = Cardinality(MappedTo(n)) + (Cardinality(HeldBy(n)) - 1 + 0)
        BY ONLY <3>4, <4>1
      <4>3. info'[n].hash # NULL <=> info'[n].refcount > 0
        BY ONLY <4>1
      <4>. QED
        BY <3>1, <4>1, <4>2, <4>3, Zenon
    <3>7. CASE n = w
      <4>1. /\ info[n].refcount > 0 /\ info'[n].refcount = info[n].refcount + 1 /\ info'[n].hash = info[n].hash
            /\ Cardinality(HeldBy(n)') = Cardinality(HeldBy(n)) - 0 + 1
        BY <2>3, <3>3, <3>5, <3>7, ZenonT(30)
      <4>2. /\ info[n].refcount + 1 = Cardinality(MappedTo(n)) + (Cardinality(HeldBy(n)) - 0 + 1)
            /\ info[n].refcount + 1 > 0
        BY ONLY <3>4, <4>1, SMTT(30)
      <4>. QED
        BY <3>1, <3>4, <4>1, <4>2, Zenon
    <3>8. CASE n \notin {m, w}
      <4>1. info'[n] = info[n]
        BY <3>8, Zenon
      <4>2. Cardinality(HeldBy(n)') = Cardinality(HeldBy(n)) - 0 + 0
        BY <3>3, <3>8, Zenon
      <4>3. Cardinality(HeldBy(n)) - 0 + 0 = Cardinality(HeldBy(n))
        BY ONLY <3>4
      <4>. QED
        BY <3>1, <3>4, <4>1, <4>2, <4>3, Zenon
    <3>. QED
      BY <3>6, <3>7, <3>8, Zenon
  <2>5. OneInfoPerHash'
    <3>1. \A g \in Hashes : hash_to_master[g] # NULL => /\ hash_to_master[g] \in InfoIds \ {m}
                                                       /\ info[hash_to_master[g]].hash = g
      BY <2>1, <2>2, ZenonT(30) DEF OneInfoPerHash, TypeOK, Published
    <3>2. \A n \in InfoIds \ {m} : info'[n].hash = info[n].hash
      BY <2>3, Zenon
    <3>. QED
      BY <2>1, <3>1, <3>2, ZenonT(30) DEF OneInfoPerHash
  <2>6. ASSUME NEW u \in Threads, NEW j \in Pending(u), u # t \/ j # blk[t]
        PROVE  /\ info'[plan[u][j].info] = info[plan[u][j].info]
               /\ \A g \in Hashes : hash_to_master'[g] # plan[u][j].info
    <3>1. j \in Held(u) /\ plan[u][j].info \in InfoIds /\ ~Published(plan[u][j].info)
      BY PendingAlone, PointerTypes, Zenon
    <3>2. \A i \in Held(u) : plan[u][i].info = plan[t][blk[t]].info => u = t /\ i = blk[t]
      BY PendingAlone, ZenonT(30)
    <3>3. plan[u][j].info # m /\ plan[u][j].info # w
      BY <2>6, <3>1, <3>2, Zenon
    <3>4. \A g \in Hashes : hash_to_master'[g] # plan[u][j].info
      BY <3>1, Zenon DEF Published
    <3>. QED
      BY <3>1, <3>3, <3>4, Zenon
  <2>7. PointersRight(t)'
    <3>1. \A j \in Held(t) : j \notin Pending(t) \/ j = blk[t] =>
            \E g \in Hashes : hash_to_master'[g] = plan'[t][j].info
      <4>1. \A j \in Held(t) \ Pending(t) : \E g \in Hashes : hash_to_master'[g] = plan[t][j].info
        BY <2>1, Zenon DEF PointersRight, Published
      <4>2. \E g \in Hashes : hash_to_master'[g] = w
        BY Zenon DEF Published
      <4>. QED
        BY <4>1, <4>2, ZenonT(30)
    <3>2. \A j \in Points(t)' \ Pending(t)' : Published(plan[t][j].info)'
      BY <3>1, Zenon DEF Published
    <3>3. ASSUME NEW j \in Pending(t)'
          PROVE  /\ info'[plan'[t][j].info].hash = HashOf[req'[t].buf[j]]
                 /\ info'[plan'[t][j].info].refcount = 1
                 /\ \A g \in Hashes : hash_to_master'[g] # plan'[t][j].info
      <4>1. j \in Pending(t) /\ j # blk[t] /\ j \in Held(t)
        BY <3>3, PendingAlone, ZenonT(30)
      <4>2. plan'[t][j].info = plan[t][j].info
        BY <4>1, Zenon
      <4>. QED
        <5>1. /\ info'[plan[t][j].info] = info[plan[t][j].info]
              /\ \A g \in Hashes : hash_to_master'[g] # plan[t][j].info
          BY <2>6, <4>1, Zenon
        <5>2. info[plan[t][j].info].hash = HashOf[req[t].buf[j]] /\ info[plan[t][j].info].refcount = 1
          BY <2>1, <4>1, Zenon DEF PointersRight
        <5>. QED
          BY <4>2, <5>1, <5>2, Zenon
    <3>4. DistinctBlocks(req[t].buf)'
      BY <2>1, <1>SameBuffer, Zenon
    <3>. QED
      BY <3>2, <3>3, <3>4, Zenon DEF PointersRight, Published
  <2>8. \A u \in Threads : \A j \in Points(u) : plan[u][j].info \in InfoIds
    BY PointerTypes, Zenon
  <2>. QED
    BY <2>4, <2>5, <2>6, <2>7, <2>8, <1>GrowStep, ZenonT(30)
<1>PublishBlockRefs. ASSUME CountingLaws, TypeInv, RefInv, NEW t \in Threads, \A u \in Threads \ {t} : SameLocals(u), PublishBlock(t)
    PROVE  RefInv'
  <2> USE <1>PublishBlockRefs
  <2>1. /\ TypeOK /\ PointersRight(t) /\ pc[t] = "publish" /\ NextBlock(t, "publish", "map")
        /\ file_to_master' = file_to_master /\ req' = req
    BY Parts, RefParts, Zenon DEF PublishBlock, request
  <2>2. blk[t] \in DOMAIN plan[t] /\ plan[t][blk[t]].info \in InfoIds
    BY <2>1, LoopEntry, Zenon
  <2>3. PICK m \in InfoIds : m = plan[t][blk[t]].info
    BY <2>2, Zenon
  <2>4. CASE plan' = plan
    <3>1. Misses(t)' = Misses(t)
      BY <2>4, Zenon DEF Misses
    <3>2. /\ pc'[t] # "p1take" /\ Held(t)' = Held(t) /\ Points(t) = Held(t) /\ Points(t)' = Held(t)
          /\ blk[t] \in Misses(t) <=> blk[t] \in Pending(t)
          /\ Pending(t)' = Pending(t) \ {blk[t]}
      BY <2>1, <2>4, <3>1, PublishEntries, Zenon
    <3>3. CASE plan[t][blk[t]].kind = "HIT"
      <4>1. hash_to_master' = hash_to_master /\ info' = info /\ Pending(t)' = Pending(t)
        BY <2>3, <3>2, <3>3, Zenon DEF PublishBlock, Misses
      <4>. QED
        BY <2>1, <2>4, <3>2, <4>1, <1>QuietStep, Zenon
    <3>4. CASE plan[t][blk[t]].kind = "MISS" /\ Winner(info[m].hash) = NULL
      <4>1. blk[t] \in Pending(t)
        BY <2>2, <3>2, <3>4, Zenon DEF Misses
      <4>2. PICK h \in Hashes : h = info[m].hash
        <5>1. info[m].hash # NULL
          BY <2>3, <4>1, PointerTypes, Zenon
        <5>. QED
          BY <2>1, <5>1, InfoTypes, Zenon
      <4>3. info' = info /\ hash_to_master' = [hash_to_master EXCEPT ![h] = m] /\ hash_to_master[h] = NULL
        BY <2>3, <3>4, <4>2, Zenon DEF PublishBlock, Winner
      <4>4. hash_to_master'[h] = m /\ \A g \in Hashes \ {h} : hash_to_master'[g] = hash_to_master[g]
        BY <2>1, <4>3, Zenon DEF TypeOK
      <4>. QED
        BY <2>1, <2>3, <2>4, <3>2, <4>1, <4>2, <4>3, <4>4, <1>PublishMiss, ZenonT(30)
    <3>5. CASE plan[t][blk[t]].kind = "MISS" /\ Winner(info[m].hash) # NULL
      <4>1. blk[t] \in Pending(t)
        BY <2>2, <3>2, <3>5, Zenon DEF Misses
      <4>2. ~Published(m) /\ Published(Winner(info[m].hash))
        <5>1. ~Published(m)
          BY <2>1, <2>3, <4>1, Zenon DEF PointersRight
        <5>. QED
          BY <5>1, <3>5, Zenon DEF Winner, Published
      <4>3. plan'[t][blk[t]].info = Winner(info[m].hash)
        <5>1. plan' = [plan EXCEPT ![t][blk[t]].info = Winner(info[m].hash)]
          BY <2>3, <3>5, Zenon DEF PublishBlock
        <5>. QED
          BY <2>1, <2>2, <5>1, PlanTypes DEF TypeOK, PlanEntry
      <4>. QED
        BY <2>3, <2>4, <4>2, <4>3, Zenon
    <3>6. plan[t][blk[t]].kind \in {"HIT", "MISS"}
      BY Zenon DEF PublishBlock
    <3>. QED
      BY <3>3, <3>4, <3>5, <3>6, Zenon
  <2>5. CASE plan' # plan
    <3>1. /\ plan[t][blk[t]].kind = "MISS" /\ Winner(info[m].hash) # NULL
          /\ info' = [info EXCEPT ![Winner(info[m].hash)].refcount = @ + 1, ![m] = Freed]
          /\ plan' = [plan EXCEPT ![t][blk[t]].info = Winner(info[m].hash)]
          /\ hash_to_master' = hash_to_master
      BY <2>3, <2>5, Zenon DEF PublishBlock
    <3>2. PICK w \in InfoIds : w = Winner(info[m].hash) /\ Published(w)
      BY <2>1, <3>1, Zenon DEF Winner, TypeOK, Published
    <3>3. plan \in [Threads -> Seq(PlanEntry)] /\ plan[t][blk[t]] \in PlanEntry
      BY <2>1, <2>2, PlanTypes, Zenon DEF TypeOK
    <3>4. plan'[t] = [plan[t] EXCEPT ![blk[t]] = [plan[t][blk[t]] EXCEPT !.info = w]]
      BY <3>1, <3>2, <3>3, Zenon
    <3>5. /\ DOMAIN plan'[t] = DOMAIN plan[t] /\ plan'[t][blk[t]].info = w /\ plan'[t][blk[t]].kind = "MISS"
          /\ \A j \in DOMAIN plan[t] \ {blk[t]} : plan'[t][j] = plan[t][j]
      BY <2>2, <3>1, <3>3, <3>4, Zenon DEF PlanEntry
    <3>6. Misses(t)' = Misses(t)
      BY <3>1, <3>5, Zenon DEF Misses
    <3>7. /\ pc'[t] # "p1take" /\ Held(t)' = Held(t) /\ Points(t) = Held(t) /\ Points(t)' = Held(t)
          /\ blk[t] \in Misses(t) <=> blk[t] \in Pending(t)
          /\ Pending(t)' = Pending(t) \ {blk[t]} /\ Held(t) = DOMAIN plan[t]
      BY <2>1, <3>5, <3>6, PublishEntries, Zenon
    <3>8. blk[t] \in Pending(t)
      BY <2>2, <3>1, <3>7, Zenon DEF Misses
    <3>9. /\ \A n \in InfoIds \ {m, w} : info'[n] = info[n]
          /\ info'[m] = Freed
          /\ w # m => info'[w].refcount = info[w].refcount + 1 /\ info'[w].hash = info[w].hash
      <4>1. info \in [InfoIds -> MasterInfo] /\ info' = [info EXCEPT ![w].refcount = @ + 1, ![m] = Freed]
        BY <2>1, <3>1, <3>2, Zenon DEF TypeOK
      <4>. QED
        BY <4>1, Zenon DEF MasterInfo
    <3>10. \A j \in Held(t) \ {blk[t]} : plan'[t][j].info = plan[t][j].info
      BY <3>5, <3>7, Zenon
    <3>. QED
      BY <2>1, <2>3, <3>1, <3>2, <3>5, <3>7, <3>8, <3>9, <3>10, <1>PublishGivesWay, ZenonT(30)
  <2>. QED
    BY <2>4, <2>5, Zenon
<1>RbMissesRefs. ASSUME CountingLaws, TypeInv, RefInv, NEW t \in Threads, \A u \in Threads \ {t} : SameLocals(u), RbMisses(t)
    PROVE  RefInv'
  <2> USE <1>RbMissesRefs
  <2>. DEFINE Gone(n) == \E j \in Misses(t) : plan[t][j].info = n
  <2>1. /\ TypeOK /\ RefcountExact /\ OneInfoPerHash /\ pc[t] = "rbmisses" /\ Return(t)
        /\ hash_to_master' = hash_to_master /\ file_to_master' = file_to_master
        /\ \A n \in InfoIds : /\ Gone(n) => info'[n] = Freed
                              /\ ~Gone(n) => info'[n] = info[n]
    BY Parts, RefParts, Zenon DEF RbMisses
  <2>2. Held(t) = Misses(t) /\ Pending(t) = Misses(t)
    BY <2>1, Zenon DEF Held, Pending
  <2>3. /\ pc'[t] = "idle" /\ plan'[t] = <<>> /\ req'[t] = NoRequest
        /\ Held(t)' = {} /\ Points(t)' = {} /\ Pending(t)' = {}
    <3>1. pc'[t] = "idle" /\ plan'[t] = <<>> /\ req'[t] = NoRequest
      BY <2>1, Zenon DEF Return, Goto, TypeOK
    <3>2. DOMAIN plan'[t] = {}
      BY <3>1
    <3>3. Misses(t)' = {} /\ Held(t)' = {}
      BY <3>1, <3>2, Zenon DEF Misses, Held
    <3>. QED
      BY <3>1, <3>3, Zenon DEF Points, Pending
  <2>4. \A u \in Threads \ {t} : Held(u)' = Held(u) /\ plan'[u] = plan[u]
    BY OtherEntries, Zenon DEF SameLocals
  <2>5. ASSUME NEW n \in InfoIds
        PROVE  /\ info'[n].refcount = Cardinality(MappedTo(n)') + Cardinality(HeldBy(n)')
               /\ info'[n].hash # NULL <=> info'[n].refcount > 0
    <3>1. MappedTo(n)' = MappedTo(n)
      BY <2>1, Zenon DEF MappedTo
    <3>2. CASE Gone(n)
      <4>1. PICK j \in Pending(t) : plan[t][j].info = n
        BY <2>2, <3>2, Zenon
      <4>2. /\ MappedTo(n) = {} /\ \A u \in Threads : \A i \in Held(u) : plan[u][i].info = n => u = t
        BY <4>1, PendingAlone, Zenon
      <4>3. \A u \in Threads, i \in 1 .. MaxBlocks : ~(i \in Held(u)' /\ plan'[u][i].info = n)
        BY <2>3, <2>4, <4>2, Zenon
      <4>4. HeldBy(n)' = {}
        BY <4>3 DEF HeldBy
      <4>5. IsFiniteSet({}) /\ Cardinality({}) = 0
        BY <4>2, HolderSets, Zenon DEF CountingLaws
      <4>6. Freed.hash = NULL /\ Freed.refcount = 0
        BY Zenon DEF Freed
      <4>7. info'[n].hash = NULL /\ info'[n].refcount = 0
        BY <2>1, <3>2, <4>6, Zenon
      <4>. QED
        BY <3>1, <4>2, <4>4, <4>5, <4>7, SMTT(30)
    <3>3. CASE ~Gone(n)
      <4>1. \A u \in Threads, i \in 1 .. MaxBlocks :
              i \in Held(u)' /\ plan'[u][i].info = n <=> i \in Held(u) /\ plan[u][i].info = n
        BY <2>2, <2>3, <2>4, <3>3, ZenonT(30)
      <4>2. HeldBy(n)' = HeldBy(n)
        BY <4>1 DEF HeldBy
      <4>3. info'[n] = info[n]
        BY <2>1, <3>3, Zenon
      <4>. QED
        BY <2>1, <3>1, <4>2, <4>3, Zenon DEF RefcountExact, Live
    <3>. QED
      BY <3>2, <3>3, Zenon
  <2>6. RefcountExact'
    BY <2>5, Zenon DEF RefcountExact, Live
  <2>7. \A n \in InfoIds : Published(n) => ~Gone(n)
    BY <2>2, PointerTypes, Zenon
  <2>8. OneInfoPerHash'
    <3>1. \A g \in Hashes : hash_to_master[g] # NULL =>
            /\ hash_to_master[g] \in InfoIds /\ ~Gone(hash_to_master[g]) /\ info[hash_to_master[g]].hash = g
      BY <2>1, <2>7, ZenonT(30) DEF OneInfoPerHash, TypeOK, Published
    <3>2. \A g \in Hashes : hash_to_master[g] # NULL => info'[hash_to_master[g]].hash = g
      BY <2>1, <3>1, Zenon
    <3>. QED
      BY <2>1, <3>2, Zenon DEF OneInfoPerHash
  <2>9. PointersRight(t)'
    <3>1. req'[t].buf = <<>>
      BY <2>3 DEF NoRequest
    <3>2. DistinctBlocks(req[t].buf)'
      BY <3>1 DEF DistinctBlocks
    <3>. QED
      BY <2>3, <3>2, Zenon DEF PointersRight
  <2>10. ASSUME NEW u \in Threads \ {t}, NEW j \in Pending(u)
         PROVE  /\ info'[plan[u][j].info] = info[plan[u][j].info]
                /\ \A g \in Hashes : hash_to_master'[g] # plan[u][j].info
    <3>1. plan[u][j].info \in InfoIds /\ ~Published(plan[u][j].info)
      BY PointerTypes, Zenon
    <3>2. \A i \in Held(t) : plan[t][i].info # plan[u][j].info
      BY PendingAlone, Zenon
    <3>. QED
      BY <2>1, <2>2, <3>1, <3>2, Zenon DEF Published
  <2>11. \A u \in Threads : \A j \in Points(u) : plan[u][j].info \in InfoIds
    BY PointerTypes, Zenon
  <2>. QED
    BY <2>1, <2>6, <2>8, <2>9, <2>10, <2>11, <1>GrowStep, ZenonT(30)
<1>1. ASSUME NEW t \in Threads, Start(t) \/ Step(t)
      PROVE  RefInv'
  <2>1. \A u \in Threads \ {t} : SameLocals(u)
    BY <1>1, Parts, OthersUnchanged, Zenon
  <2>2. CASE Start(t) \/ P3Release(t) \/ SetSize(t)
    BY <2>1, <2>2, <1>IdleRefs, Zenon
  <2>3. CASE FlushRun(t)
    BY <2>1, <2>3, <1>IdleRefs, <1>StraightRefs, Zenon
  <2>4. CASE P1Lock(t) \/ P1Unlock(t) \/ Drain(t) \/ AppendSlots(t)
             \/ FlushFail(t) \/ P3Lock(t) \/ P3Unlock(t) \/ RbLock(t) \/ RbUnlock(t) \/ RbRelease(t)
             \/ RmLock(t) \/ RmUnlock(t) \/ RmRelease(t)
    BY <2>1, <2>4, <1>StraightRefs, Zenon
  <2>5. CASE P1Hit(t) \/ P1Take(t) \/ P1Miss(t)
    BY <2>1, <2>5, <1>P1HitRefs, <1>P1TakeRefs, <1>P1MissRefs, Zenon
  <2>6. CASE PublishBlock(t) \/ MapBlock(t)
    BY <2>1, <2>6, <1>PublishBlockRefs, <1>MapBlockRefs, Zenon
  <2>7. CASE RbHit(t) \/ RbMisses(t) \/ RmBlock(t)
    BY <2>1, <2>7, <1>RbHitRefs, <1>RbMissesRefs, <1>RmBlockRefs, ZenonT(30)
  <2>. QED
    BY <1>1, <2>2, <2>3, <2>4, <2>5, <2>6, <2>7, ZenonT(30) DEF Step
<1>2. ASSUME Remount \/ Wait \/ UNCHANGED vars
      PROVE  RefInv'
  <2>1. UNCHANGED <<hash_to_master, file_to_master, info, pc, req, blk, plan>>
    BY <1>2, Zenon DEF Remount, Wait, vars, index, request
  <2>. QED
    BY <2>1, <1>StutterRefs, ZenonT(30)
<1>. QED
  BY <1>1, <1>2, Zenon DEF Next

-----------------------------------------------------------------------------
(* Towards the refinement of FileStore.  The content of a mapped block is   *)
(* the one whose digest its MasterInfo carries, so what a file holds        *)
(* follows from the index alone; FileInv is what the refinement needs       *)
(* beside the invariants above.                                             *)

CollisionFree == \A c, d \in Contents : HashOf[c] = HashOf[d] => c = d

\* The digest of what a file block is mapped to.
Digest(fb) == IF file_to_master[fb] = NULL THEN NULL ELSE info[file_to_master[fb]].hash

WriteSteps == PlannedSteps \cup {"p1lock", "p1", "p1take"}

\* The blocks of its request that a thread has mapped or removed, and what
\* they are to hold.
Finished(t) ==
  CASE pc[t] \in {"map", "remove"} -> {k \in 1 .. req[t].count : k < blk[t]}
    [] pc[t] \in {"p3unlock", "rmunlock"} -> 1 .. req[t].count
    [] OTHER -> {}
Intended(t, k) == IF pc[t] \in {"map", "p3unlock"} THEN HashOf[req[t].buf[k]] ELSE NULL
BlockOf(t, k) == <<req[t].path, req[t].start + k - 1>>

\* Every entry of a plan points to a MasterInfo with the digest of its block,
\* and the blocks done with hold what the request says.
PlanRight(t) == \A j \in Points(t) : info[plan[t][j].info].hash = HashOf[req[t].buf[j]]
BlocksRight(t) == \A k \in Finished(t) : Digest(BlockOf(t, k)) = Intended(t, k)
BufferRight(t) == pc[t] \in WriteSteps => req[t].buf \in Payloads

FileInv == \A t \in Threads : PlanRight(t) /\ BlocksRight(t) /\ BufferRight(t)

-----------------------------------------------------------------------------
(* The digest of a MasterInfo. *)

\* While it is live, a MasterInfo keeps its digest.
KeepsHash(m) == info'[m].hash = info[m].hash \/ info[m].hash = NULL \/ info'[m].hash = NULL

\* A MasterInfo of which a field other than the digest changes keeps its digest.
LEMMA OneFieldHash ==
  ASSUME TypeOK, NEW m \in InfoIds, NEW n, NEW r,
         info'[m] = info[m] \/ info'[m] = Freed \/ info'[m] = [info[m] EXCEPT !.refcount = r]
         \/ info'[m] = [info[m] EXCEPT !.masterBlockIndex = r]
  PROVE  KeepsHash(m)
<1>1. info[m] \in MasterInfo
  BY Zenon DEF TypeOK
<1>2. Freed.hash = NULL
  BY DEF Freed
<1>3. /\ [info[m] EXCEPT !.refcount = r].hash = info[m].hash
      /\ [info[m] EXCEPT !.masterBlockIndex = r].hash = info[m].hash
  BY <1>1 DEF MasterInfo
<1>. QED
  BY <1>2, <1>3, Zenon DEF KeepsHash

\* release_block keeps the digest of every MasterInfo it does not free.
LEMMA DropHash ==
  ASSUME TypeOK, NEW t \in Threads, NEW n, DropReference(t, n), NEW m \in InfoIds
  PROVE  KeepsHash(m)
<1>1. info \in [InfoIds -> MasterInfo]
  BY Zenon DEF TypeOK
<1>2. info' = [info EXCEPT ![n] = Freed] \/ info' = [info EXCEPT ![n].refcount = @ - 1]
  BY Zenon DEF DropReference
<1>3. info'[m] = info[m] \/ info'[m] = Freed \/ info'[m] = [info[m] EXCEPT !.refcount = info[m].refcount - 1]
  BY <1>1, <1>2, Zenon
<1>. QED
  BY <1>3, OneFieldHash, Zenon

\* Every step keeps the digest of a MasterInfo that is in use before and after.
LEMMA HashKept ==
  ASSUME TypeInv, NEW t \in Threads, Start(t) \/ Step(t), NEW m \in InfoIds
  PROVE  KeepsHash(m)
<1>1. info \in [InfoIds -> MasterInfo] /\ TypeOK
  BY Zenon DEF TypeInv, TypeOK
<1>2. CASE info' = info
  BY <1>2, Zenon DEF KeepsHash
<1>3. CASE P1Take(t)
  <2>1. PICK n : info' = [info EXCEPT ![n].refcount = @ + 1]
    BY <1>3, Zenon DEF P1Take
  <2>2. info'[m] = info[m] \/ info'[m] = [info[m] EXCEPT !.refcount = info[m].refcount + 1]
    BY <1>1, <2>1, Zenon
  <2>. QED
    BY <1>1, <2>2, OneFieldHash, Zenon
<1>4. CASE P1Miss(t)
  <2>1. \E n \in InfoIds : ~Live(n) /\ info' = [info EXCEPT ![n] = [hash |-> BlockHash(t), masterBlockIndex |-> 0, refcount |-> 1]]
    BY <1>4, Zenon DEF P1Miss
  <2>. QED
    BY <1>1, <2>1, Zenon DEF KeepsHash, Live
<1>5. CASE AppendSlots(t)
  <2>1. \E x : info'[m] = info[m] \/ info'[m] = [info[m] EXCEPT !.masterBlockIndex = x]
    BY <1>5, Zenon DEF AppendSlots
  <2>. QED
    BY <1>1, <2>1, OneFieldHash, Zenon
<1>6. CASE RbMisses(t)
  <2>1. info'[m] = info[m] \/ info'[m] = Freed
    BY <1>6, Zenon DEF RbMisses
  <2>. QED
    BY <1>1, <2>1, OneFieldHash, Zenon
<1>7. CASE PublishBlock(t)
  <2>1. info' = info \/ \E w, n : info' = [info EXCEPT ![w].refcount = @ + 1, ![n] = Freed]
    BY <1>7, Zenon DEF PublishBlock
  <2>2. info'[m] = info[m] \/ info'[m] = Freed \/ info'[m] = [info[m] EXCEPT !.refcount = info[m].refcount + 1]
    BY <1>1, <2>1, Zenon
  <2>. QED
    BY <1>1, <2>2, OneFieldHash, Zenon
<1>8. CASE MapBlock(t) \/ RbHit(t) \/ RmBlock(t)
  <2>1. info' = info \/ \E n : DropReference(t, n)
    BY <1>8, Zenon DEF MapBlock, RbHit, RmBlock
  <2>. QED
    BY <1>1, <1>2, <2>1, DropHash, Zenon
<1>9. \/ info' = info \/ P1Take(t) \/ P1Miss(t) \/ AppendSlots(t) \/ RbMisses(t) \/ PublishBlock(t)
      \/ MapBlock(t) \/ RbHit(t) \/ RmBlock(t)
  BY Zenon DEF Start, StartWrite, StartUnlink, StartTruncate, Step, P1Lock, P1Hit, P1Unlock, Drain, FlushRun,
     FlushFail, P3Lock, P3Unlock, P3Release, RbLock, RbUnlock, RbRelease, RmLock, RmUnlock, RmRelease, SetSize, index
<1>. QED
  BY <1>2, <1>3, <1>4, <1>5, <1>6, <1>7, <1>8, <1>9, Zenon

\* A mapped block, and an entry of a plan, points to a live MasterInfo.
LEMMA MappedLive ==
  ASSUME TypeInv, RefInv, NEW fb \in Paths \X Blocks, file_to_master[fb] # NULL
  PROVE  /\ file_to_master[fb] \in InfoIds /\ Published(file_to_master[fb])
         /\ info[file_to_master[fb]].hash # NULL /\ Digest(fb) = info[file_to_master[fb]].hash
<1>1. file_to_master[fb] \in InfoIds /\ Published(file_to_master[fb])
  BY RefParts, Zenon DEF TypeInv, TypeOK, RefInv, OneInfoPerHash, Published
<1>2. info[file_to_master[fb]].hash \in Hashes
  BY <1>1, PublishedLive, Zenon
<1>. QED
  BY <1>1, <1>2, NullAssumption, Zenon DEF Digest

\* What a plan points to is in use.
LEMMA EntryLive ==
  ASSUME TypeInv, RefInv, NEW t \in Threads, NEW j \in Points(t)
  PROVE  plan[t][j].info \in InfoIds /\ info[plan[t][j].info].hash # NULL
<1>1. plan[t][j].info \in InfoIds
  BY PointerTypes, Zenon
<1>2. CASE j \in Pending(t)
  BY <1>2, PointerTypes, Zenon
<1>3. CASE j \notin Pending(t)
  <2>1. Published(plan[t][j].info)
    BY <1>3, RefParts, Zenon DEF PointersRight
  <2>2. info[plan[t][j].info].hash \in Hashes
    BY <1>1, <2>1, PublishedLive, Zenon
  <2>. QED
    BY <1>1, <2>2, NullAssumption, Zenon
<1>. QED
  BY <1>1, <1>2, <1>3, Zenon

\* All of them, in this state and in the next.
AllLive ==
  /\ \A fb \in Paths \X Blocks : file_to_master[fb] # NULL =>
       /\ file_to_master[fb] \in InfoIds /\ Published(file_to_master[fb])
       /\ info[file_to_master[fb]].hash # NULL
  /\ \A u \in Threads : \A j \in Points(u) :
       plan[u][j].info \in InfoIds /\ info[plan[u][j].info].hash # NULL

\* No pointer dangles in a state,
LEMMA LiveNow == TypeInv /\ RefInv => AllLive
BY MappedLive, EntryLive, Zenon DEF AllLive

\* nor in the next one.
LEMMA LiveNext == TypeInv' /\ RefInv' => AllLive'
BY LiveNow, PTL

\* So a digest changes only with the mapping, or with the pointer.
LEMMA DigestKept ==
  ASSUME TypeInv, AllLive, AllLive', NEW t \in Threads, Start(t) \/ Step(t),
         NEW fb \in Paths \X Blocks, file_to_master'[fb] = file_to_master[fb]
  PROVE  Digest(fb)' = Digest(fb)
<1>1. CASE file_to_master[fb] = NULL
  BY <1>1, Zenon DEF Digest
<1>2. CASE file_to_master[fb] # NULL
  <2>1. PICK m \in InfoIds : m = file_to_master[fb]
    BY <1>2, Zenon DEF AllLive
  <2>2. info[m].hash # NULL /\ info'[m].hash # NULL /\ KeepsHash(m)
    BY <1>2, <2>1, HashKept, Zenon DEF AllLive
  <2>3. Digest(fb) = info[m].hash /\ Digest(fb)' = info'[m].hash
    BY <1>2, <2>1, Zenon DEF Digest
  <2>. QED
    BY <2>2, <2>3, Zenon DEF KeepsHash
<1>. QED
  BY <1>1, <1>2, Zenon

\* An entry of a plan that keeps its pointer keeps its digest.
LEMMA EntryKept ==
  ASSUME TypeInv, AllLive, AllLive', NEW t \in Threads, Start(t) \/ Step(t),
         NEW u \in Threads, NEW j \in Points(u), j \in Points(u)', plan'[u][j].info = plan[u][j].info
  PROVE  info'[plan'[u][j].info].hash = info[plan[u][j].info].hash
<1>1. PICK m \in InfoIds : m = plan[u][j].info
  BY Zenon DEF AllLive
<1>2. info[m].hash # NULL /\ info'[m].hash # NULL /\ KeepsHash(m)
  BY <1>1, HashKept, Zenon DEF AllLive
<1>. QED
  BY <1>1, <1>2, Zenon DEF KeepsHash

-----------------------------------------------------------------------------
(* What the steps change. *)

\* The file block of each block of a request.
LEMMA RequestBlocks ==
  ASSUME TypeInv, NEW t \in Threads, pc[t] # "idle", NEW k \in 1 .. req[t].count
  PROVE  BlockOf(t, k) \in Paths \X Blocks
<1>1. /\ req[t].path \in Paths /\ req[t].start \in Nat /\ req[t].count \in Nat
      /\ req[t].start + req[t].count <= MaxBlocks
  BY Parts, LocalTypes, Zenon DEF RequestShape
<1>2. req[t].start + k - 1 \in Blocks
  BY <1>1, BoundsAssumption DEF Blocks
<1>. QED
  BY <1>1, <1>2 DEF BlockOf

\* Only the two loops under the write lock change mappings, one at a time.
LEMMA MappingSteps ==
  ASSUME TypeInv, NEW t \in Threads, Start(t) \/ Step(t)
  PROVE  \/ file_to_master' = file_to_master
         \/ /\ MapBlock(t) \/ RmBlock(t)
            /\ \A fb \in (Paths \X Blocks) \ {FileBlock(t)} : file_to_master'[fb] = file_to_master[fb]
<1>1. DOMAIN file_to_master = Paths \X Blocks
  BY Zenon DEF TypeInv, TypeOK
<1>2. file_to_master' = file_to_master \/ MapBlock(t) \/ RmBlock(t)
  BY Zenon DEF Start, StartWrite, StartUnlink, StartTruncate, Step, P1Lock, P1Hit, P1Take, P1Miss, P1Unlock, Drain,
     AppendSlots, FlushRun, FlushFail, P3Lock, PublishBlock, P3Unlock, P3Release, RbLock, RbHit, RbUnlock, RbRelease,
     RbMisses, RmLock, RmUnlock, RmRelease, SetSize, index
<1>3. CASE MapBlock(t)
  BY <1>1, <1>3, Zenon DEF MapBlock
<1>4. CASE RmBlock(t)
  BY <1>1, <1>4, Zenon DEF RmBlock
<1>. QED
  BY <1>2, <1>3, <1>4, Zenon

\* The steps outside the loops, the arrivals and the returns.
Straight(t) ==
  /\ plan'[t] = plan[t] /\ req'[t] = req[t] /\ file_to_master' = file_to_master
  /\ <<pc[t], pc'[t]>> \in StraightSteps /\ blk'[t] = 1
Flushes(t) ==
  /\ plan'[t] = plan[t] /\ req'[t] = req[t] /\ file_to_master' = file_to_master
  /\ pc[t] = "flush" /\ pc'[t] = "flush"
Renews(t) ==
  /\ plan'[t] = <<>> /\ file_to_master' = file_to_master
  /\ \/ pc'[t] \in {"idle", "rmlock", "setsize"}
     \/ pc'[t] = "p1lock" /\ req'[t].buf \in Payloads

-----------------------------------------------------------------------------
(* The invariant is kept. *)

\* A plan whose pointers in use were in use before, or are new and right.
LEMMA PlanKept ==
  ASSUME TypeInv, AllLive, AllLive', FileInv, NEW t \in Threads, Start(t) \/ Step(t), req'[t] = req[t],
         \A j \in Points(t)' : \/ j \in Points(t) /\ plan'[t][j].info = plan[t][j].info
                               \/ info'[plan'[t][j].info].hash = HashOf[req[t].buf[j]]
  PROVE  PlanRight(t)'
<1>. SUFFICES ASSUME NEW j \in Points(t)', j \in Points(t), plan'[t][j].info = plan[t][j].info
              PROVE  info'[plan'[t][j].info].hash = HashOf[req[t].buf[j]]
  BY Zenon DEF PlanRight
<1>1. info'[plan'[t][j].info].hash = info[plan[t][j].info].hash
  BY EntryKept, Zenon
<1>. QED
  BY <1>1, Zenon DEF FileInv, PlanRight

\* The loops that neither map nor remove finish no block.
LEMMA NothingFinished ==
  ASSUME NEW t \in Threads, req'[t] = req[t], pc[t] \in WriteSteps, FileInv,
         pc'[t] \in {"p1", "p1take", "p1unlock", "publish", "rbhits", "rbunlock"} \/ (pc'[t] = "map" /\ blk'[t] = 1)
  PROVE  BlocksRight(t)' /\ BufferRight(t)'
<1>1. Finished(t)' = {}
  <2>1. blk'[t] = 1 => {k \in 1 .. req'[t].count : k < blk'[t]} = {}
    OBVIOUS
  <2>. QED
    BY <2>1, Zenon DEF Finished
<1>. QED
  BY <1>1, Zenon DEF BlocksRight, BufferRight, FileInv

\* A loop that maps or removes the block it is at leaves the earlier ones.
LEMMA LoopFinishes ==
  ASSUME TypeInv, AllLive, AllLive', FileInv, NEW t \in Threads, Start(t) \/ Step(t), req'[t] = req[t],
         NEW src, NEW after, (src = "map" /\ after = "p3unlock") \/ (src = "remove" /\ after = "rmunlock"),
         pc[t] = src, NextBlock(t, src, after),
         NEW here, here = FileBlock(t), Digest(here)' = Intended(t, blk[t])
  PROVE  BlocksRight(t)'
<1>1. /\ TypeOK /\ src \in Steps /\ after \in Steps /\ src \in {"map", "remove"}
      /\ src = "map" <=> after = "p3unlock"
      /\ after \in {"p3unlock", "rmunlock"} /\ src \in LoopSteps /\ src # "idle"
  BY Parts, SMTT(30) DEF Steps, LoopSteps
<1>2. /\ blk[t] \in Nat /\ req[t].count \in Nat /\ req[t].start \in Nat /\ 0 < blk[t] /\ blk[t] <= req[t].count
  BY <1>1, Parts, LocalTypes, Zenon DEF LoopShape
<1>3. \/ blk[t] < req[t].count /\ blk'[t] = blk[t] + 1 /\ pc'[t] = src
      \/ ~(blk[t] < req[t].count) /\ blk'[t] = 1 /\ pc'[t] = after
  BY <1>1, LoopStep, Zenon
<1>4. /\ pc'[t] = src => Finished(t)' = {k \in 1 .. req[t].count : k < blk'[t]}
      /\ pc'[t] = after => Finished(t)' = 1 .. req[t].count
      /\ Finished(t) = {k \in 1 .. req[t].count : k < blk[t]}
  BY <1>1, Zenon DEF Finished
<1>5. \A k \in Finished(t)' : k = blk[t] \/ (k \in Finished(t) /\ k # blk[t] /\ k \in 1 .. req[t].count)
  BY <1>2, <1>3, <1>4
<1>6. \A k : Intended(t, k)' = Intended(t, k) /\ BlockOf(t, k)' = BlockOf(t, k)
  BY <1>1, <1>3, Zenon DEF Intended, BlockOf
<1>7. ASSUME NEW k, k = blk[t]
      PROVE  (Digest(BlockOf(t, k)) = Intended(t, k))'
  <2>1. here = BlockOf(t, k)
    BY <1>7, Zenon DEF FileBlock, BlockOf
  <2>. QED
    BY <1>6, <1>7, <2>1, Zenon
<1>8. ASSUME NEW k \in Finished(t), k # blk[t], k \in 1 .. req[t].count
      PROVE  (Digest(BlockOf(t, k)) = Intended(t, k))'
  <2>1. PICK fb \in Paths \X Blocks : fb = BlockOf(t, k)
    BY <1>1, <1>8, RequestBlocks, Zenon
  <2>2. fb # FileBlock(t)
    BY <1>2, <1>8, <2>1 DEF BlockOf, FileBlock
  <2>3. file_to_master'[fb] = file_to_master[fb]
    BY <2>2, MappingSteps, Zenon
  <2>4. Digest(fb)' = Digest(fb)
    BY <2>3, DigestKept, Zenon
  <2>5. Digest(fb) = Intended(t, k)
    BY <1>8, <2>1, Zenon DEF FileInv, BlocksRight
  <2>. QED
    BY <1>6, <2>1, <2>4, <2>5, Zenon
<1>. QED
  BY <1>5, <1>6, <1>7, <1>8, Zenon DEF BlocksRight

\* Every step of a thread keeps FileInv: one nested step per action.
LEMMA StepRight ==
  ASSUME TypeInv, RefInv, TypeInv', RefInv', FileInv
  PROVE  \A t \in Threads : Start(t) \/ Step(t) => FileInv'
<1>StraightKinds.
    ASSUME TypeInv, NEW t \in Threads,
           P1Lock(t) \/ P1Unlock(t) \/ Drain(t) \/ AppendSlots(t) \/ FlushRun(t)
           \/ FlushFail(t) \/ P3Lock(t) \/ P3Unlock(t) \/ RbLock(t) \/ RbUnlock(t) \/ RbRelease(t)
           \/ RmLock(t) \/ RmUnlock(t) \/ RmRelease(t)
    PROVE  Straight(t) \/ Flushes(t)
  <2> USE <1>StraightKinds
  <2>1. TypeOK /\ LoopShape(t)
    BY Parts, Zenon
  <2>2. DOMAIN pc = Threads /\ DOMAIN blk = Threads
    BY <2>1, Zenon DEF TypeOK
  <2>3. UNCHANGED <<file_to_master, req, plan>>
    BY Zenon DEF P1Lock, P1Unlock, Drain, AppendSlots, FlushRun, FlushFail, P3Lock, P3Unlock, RbLock, RbUnlock,
                 RbRelease, RmLock, RmUnlock, RmRelease, index, request
  <2>4. \/ pc[t] = "flush" /\ pc'[t] = "flush"
        \/ /\ <<pc[t], pc'[t]>> \in StraightSteps
           /\ blk'[t] = 1 \/ (blk' = blk /\ pc[t] \notin LoopSteps \cup {"flush"})
    <3>1. CASE P1Lock(t) \/ P3Lock(t) \/ RbLock(t) \/ RmLock(t)
      BY <2>2, <3>1, Zenon DEF P1Lock, P3Lock, RbLock, RmLock, Goto, StraightSteps, LoopSteps
    <3>2. CASE P1Unlock(t) \/ P3Unlock(t) \/ RbUnlock(t) \/ RmUnlock(t)
      BY <2>2, <3>2, Zenon DEF P1Unlock, P3Unlock, RbUnlock, RmUnlock, Goto, StraightSteps, LoopSteps
    <3>3. CASE Drain(t) \/ AppendSlots(t) \/ RbRelease(t) \/ RmRelease(t)
      BY <2>2, <3>3, Zenon DEF Drain, AppendSlots, RbRelease, RmRelease, Goto, StraightSteps, LoopSteps
    <3>4. CASE FlushRun(t) \/ FlushFail(t)
      BY <2>2, <3>4, Zenon DEF FlushRun, FlushFail, AfterFailure, Goto, StraightSteps, LoopSteps
    <3>. QED
      BY <3>1, <3>2, <3>3, <3>4, Zenon
  <2>. QED
    BY <2>1, <2>3, <2>4, Zenon DEF LoopShape, Straight, Flushes
<1>RenewKinds.
    ASSUME TypeInv, NEW t \in Threads, Start(t) \/ P3Release(t) \/ RbMisses(t) \/ SetSize(t)
    PROVE  Renews(t)
  <2> USE <1>RenewKinds
  <2>1. /\ DOMAIN pc = Threads /\ DOMAIN plan = Threads /\ DOMAIN req = Threads
        /\ pc[t] = "idle" => plan[t] = <<>>
    BY Parts, Zenon DEF TypeOK, PlanShape
  <2>2. CASE P3Release(t) \/ RbMisses(t) \/ SetSize(t)
    BY <2>1, <2>2, Zenon DEF P3Release, RbMisses, SetSize, Return, Goto, Renews, index
  <2>3. CASE Start(t)
    <3>1. plan' = plan /\ file_to_master' = file_to_master /\ pc[t] = "idle"
      BY <2>3, Zenon DEF Start, StartWrite, StartUnlink, StartTruncate, Arrive, index
    <3>2. CASE StartWrite(t)
      <4>1. PICK p \in Paths, s \in Blocks, d \in Payloads :
              Arrive(t, [op |-> "write", path |-> p, start |-> s, count |-> Len(d), buf |-> d], "p1lock")
        BY <3>2, Zenon DEF StartWrite
      <4>2. pc'[t] = "p1lock" /\ req'[t].buf = d
        BY <2>1, <4>1 DEF Arrive, Goto
      <4>. QED
        BY <2>1, <3>1, <4>2, Zenon DEF Renews
    <3>3. CASE StartUnlink(t) \/ StartTruncate(t)
      <4>1. pc'[t] \in {"rmlock", "setsize"}
        BY <2>1, <3>3, Zenon DEF StartUnlink, StartTruncate, Arrive, Goto
      <4>. QED
        BY <2>1, <3>1, <4>1, Zenon DEF Renews
    <3>. QED
      BY <2>3, <3>2, <3>3, Zenon DEF Start
  <2>. QED
    BY <2>2, <2>3, Zenon
\* Other threads: their pointers stay, and what they have mapped or removed is
\* theirs alone until they release the write lock.
<1>OtherRight.
    ASSUME TypeInv, AllLive, AllLive', FileInv, NEW t \in Threads, Start(t) \/ Step(t),
           NEW u \in Threads \ {t}, SameLocals(u)
    PROVE  PlanRight(u)' /\ BlocksRight(u)' /\ BufferRight(u)'
  <2> USE <1>OtherRight
  <2>1. PlanRight(u) /\ BlocksRight(u) /\ BufferRight(u)
    BY Zenon DEF FileInv
  <2>2. /\ pc'[u] = pc[u] /\ req'[u] = req[u] /\ blk'[u] = blk[u] /\ plan'[u] = plan[u]
        /\ Points(u)' = Points(u)
    BY OtherEntries, Zenon DEF SameLocals
  <2>3. ASSUME NEW j \in Points(u)
        PROVE  info'[plan'[u][j].info].hash = HashOf[req'[u].buf[j]]
    <3>1. info'[plan'[u][j].info].hash = info[plan[u][j].info].hash
      BY <2>2, EntryKept, Zenon
    <3>. QED
      BY <2>1, <2>2, <3>1, Zenon DEF PlanRight
  <2>4. Finished(u)' = Finished(u)
    BY <2>2, Zenon DEF Finished
  <2>5. ASSUME NEW k \in Finished(u)
        PROVE  (Digest(BlockOf(u, k)) = Intended(u, k))'
    <3>1. pc[u] \in WrSteps /\ pc[u] # "idle" /\ k \in 1 .. req[u].count
      BY <2>5, Zenon DEF Finished, WrSteps
    <3>2. pc[t] \notin WrSteps
      BY <3>1, NullAssumption, Zenon DEF TypeInv, LockInv
    <3>3. ~MapBlock(t) /\ ~RmBlock(t)
      BY <3>2, Zenon DEF MapBlock, RmBlock, WrSteps
    <3>4. PICK fb \in Paths \X Blocks : fb = BlockOf(u, k)
      BY <3>1, RequestBlocks, Zenon
    <3>5. fb = BlockOf(u, k)' /\ Intended(u, k)' = Intended(u, k)
      BY <2>2, <3>4, Zenon DEF BlockOf, Intended
    <3>6. file_to_master'[fb] = file_to_master[fb]
      BY <3>3, MappingSteps, Zenon
    <3>7. Digest(fb)' = Digest(fb)
      BY <3>6, DigestKept, Zenon
    <3>8. Digest(fb) = Intended(u, k)
      BY <2>1, <3>4, Zenon DEF BlocksRight
    <3>. QED
      BY <3>5, <3>7, <3>8, Zenon
  <2>6. BufferRight(u)'
    BY <2>1, <2>2, Zenon DEF BufferRight
  <2>. QED
    BY <2>2, <2>3, <2>4, <2>5, <2>6, Zenon DEF PlanRight, BlocksRight
<1>StraightRight.
    ASSUME TypeInv, AllLive, AllLive', FileInv, NEW t \in Threads, Start(t) \/ Step(t), Straight(t)
    PROVE  PlanRight(t)' /\ BlocksRight(t)' /\ BufferRight(t)'
  <2> USE <1>StraightRight
  <2>1. /\ plan'[t] = plan[t] /\ req'[t] = req[t] /\ <<pc[t], pc'[t]>> \in StraightSteps /\ blk'[t] = 1
    BY Zenon DEF Straight
  <2>2. Points(t)' = Points(t)
    BY <2>1, StraightEntries, Zenon
  <2>3. PlanRight(t)'
    BY <2>1, <2>2, PlanKept, Zenon
  <2>4. /\ pc'[t] \notin {"map", "p3unlock", "rmunlock"}
        /\ pc'[t] \in WriteSteps => pc[t] \in WriteSteps
    BY <2>1, SMTT(30) DEF StraightSteps, WriteSteps, PlannedSteps, AllocatedSteps
  <2>5. Finished(t)' = {}
    <3>1. {k \in 1 .. req'[t].count : k < blk'[t]} = {}
      BY ONLY <2>1
    <3>. QED
      BY <2>4, <3>1, Zenon DEF Finished
  <2>. QED
    BY <2>1, <2>3, <2>4, <2>5, Zenon DEF BlocksRight, BufferRight, FileInv
<1>FlushRight.
    ASSUME TypeInv, AllLive, AllLive', FileInv, NEW t \in Threads, Start(t) \/ Step(t), Flushes(t)
    PROVE  PlanRight(t)' /\ BlocksRight(t)' /\ BufferRight(t)'
  <2> USE <1>FlushRight
  <2>1. plan'[t] = plan[t] /\ req'[t] = req[t] /\ pc[t] = "flush" /\ pc'[t] = "flush"
    BY Zenon DEF Flushes
  <2>2. Points(t) = DOMAIN plan[t] /\ Points(t)' = DOMAIN plan[t]
    BY <2>1, Zenon DEF Points, Held
  <2>3. PlanRight(t)'
    BY <2>1, <2>2, PlanKept, Zenon
  <2>4. Finished(t)' = {}
    BY <2>1, Zenon DEF Finished
  <2>. QED
    BY <2>1, <2>3, <2>4, Zenon DEF BlocksRight, BufferRight, FileInv
<1>RenewRight.
    ASSUME NEW t \in Threads, Renews(t)
    PROVE  PlanRight(t)' /\ BlocksRight(t)' /\ BufferRight(t)'
  <2> USE <1>RenewRight
  <2>1. DOMAIN plan'[t] = {}
    <3>1. plan'[t] = <<>>
      BY Zenon DEF Renews
    <3>. QED
      BY <3>1
  <2>2. /\ pc'[t] \notin {"p1take", "map", "remove", "p3unlock", "rmunlock"}
        /\ pc'[t] \in {"idle", "p1lock", "rmlock", "setsize"}
    BY Zenon DEF Renews
  <2>3. Points(t)' = {}
    BY <2>1, <2>2, Zenon DEF Points, Held, Misses
  <2>4. Finished(t)' = {}
    BY <2>2, Zenon DEF Finished
  <2>5. pc'[t] \in WriteSteps => req'[t].buf \in Payloads
    BY Zenon DEF Renews, WriteSteps, PlannedSteps, AllocatedSteps
  <2>. QED
    BY <2>3, <2>4, <2>5, Zenon DEF PlanRight, BlocksRight, BufferRight
<1>P1HitRight.
    ASSUME TypeInv, RefInv, AllLive, AllLive', FileInv, NEW t \in Threads, Start(t) \/ Step(t), P1Hit(t)
    PROVE  PlanRight(t)' /\ BlocksRight(t)' /\ BufferRight(t)'
  <2> USE <1>P1HitRight
  <2>. DEFINE m == Existing(t, BlockHash(t))
              e == [kind |-> "HIT", info |-> m, rank |-> 0]
  <2>1. /\ pc[t] = "p1" /\ m # NULL /\ plan' = [plan EXCEPT ![t] = Append(@, e)] /\ Goto(t, "p1take")
        /\ info' = info /\ req' = req /\ pc[t] \in WriteSteps /\ blk' = blk
    BY Zenon DEF P1Hit, index, request, WriteSteps
  <2>2. pc'[t] = "p1take"
    BY <2>1, Parts, Zenon DEF Goto, TypeOK
  <2>3. info[m].hash = HashOf[req[t].buf[blk[t]]]
    <3>1. m = hash_to_master[BlockHash(t)] /\ BlockHash(t) \in Hashes
      BY <2>1, HitIsPublished, BlockHashType, Zenon
    <3>. QED
      BY <2>1, <3>1, RefParts, Zenon DEF OneInfoPerHash, BlockHash
  <2>4. e.info = m
    BY Zenon
  <2>. HIDE DEF m, e
  <2>5. /\ DOMAIN plan[t] = 1 .. blk[t] - 1 /\ DOMAIN plan'[t] = 1 .. blk[t] /\ blk[t] \in 1 .. MaxBlocks
        /\ plan'[t][blk[t]] = e /\ \A j \in DOMAIN plan[t] : plan'[t][j] = plan[t][j]
        /\ Points(t) = DOMAIN plan[t]
    BY <2>1, PlanGrows, Zenon
  <2>6. \A j \in 1 .. blk[t] : j \in DOMAIN plan[t] \/ j = blk[t]
    BY <2>5
  <2>7. Points(t)' \subseteq 1 .. blk[t]
    <3>1. blk[t] \in 1 .. blk[t]
      BY <2>5
    <3>. QED
      BY <2>1, <2>2, <2>5, <3>1, Zenon DEF Points, Held
  <2>8. PlanRight(t)'
    BY <2>1, <2>3, <2>4, <2>5, <2>6, <2>7, PlanKept, ZenonT(30)
  <2>. QED
    BY <2>1, <2>2, <2>8, NothingFinished, Zenon
<1>P1MissRight.
    ASSUME TypeInv, AllLive, AllLive', FileInv, NEW t \in Threads, Start(t) \/ Step(t), P1Miss(t)
    PROVE  PlanRight(t)' /\ BlocksRight(t)' /\ BufferRight(t)'
  <2> USE <1>P1MissRight
  <2>1. /\ pc[t] = "p1" /\ NextBlock(t, "p1", "p1unlock") /\ req' = req /\ pc[t] \in WriteSteps /\ TypeOK
    BY Parts, Zenon DEF P1Miss, request, WriteSteps
  <2>2. pc'[t] \in {"p1", "p1unlock"}
    BY <2>1, LoopStep, StepNames, Zenon
  <2>3. PICK m \in InfoIds :
          /\ info' = [info EXCEPT ![m] = [hash |-> BlockHash(t), masterBlockIndex |-> 0, refcount |-> 1]]
          /\ plan' = [plan EXCEPT ![t] = Append(@, [kind |-> "MISS", info |-> m, rank |-> miss_count[t] + 1])]
    BY Zenon DEF P1Miss
  <2>4. info'[m].hash = HashOf[req[t].buf[blk[t]]]
    BY <2>1, <2>3, Zenon DEF TypeOK, BlockHash
  <2>. DEFINE e == [kind |-> "MISS", info |-> m, rank |-> miss_count[t] + 1]
  <2>5. e.info = m /\ plan' = [plan EXCEPT ![t] = Append(@, e)]
    BY <2>3, Zenon
  <2>. HIDE DEF e
  <2>6. /\ DOMAIN plan[t] = 1 .. blk[t] - 1 /\ DOMAIN plan'[t] = 1 .. blk[t] /\ blk[t] \in 1 .. MaxBlocks
        /\ plan'[t][blk[t]] = e /\ \A j \in DOMAIN plan[t] : plan'[t][j] = plan[t][j]
        /\ Points(t) = DOMAIN plan[t]
    BY <2>1, <2>5, PlanGrows, Zenon
  <2>7. \A j \in 1 .. blk[t] : j \in DOMAIN plan[t] \/ j = blk[t]
    BY <2>6
  <2>8. Points(t)' \subseteq 1 .. blk[t]
    BY <2>2, <2>6, Zenon DEF Points, Held
  <2>9. PlanRight(t)'
    BY <2>1, <2>4, <2>5, <2>6, <2>7, <2>8, PlanKept, ZenonT(30)
  <2>. QED
    BY <2>1, <2>2, <2>9, NothingFinished, Zenon
<1>P1TakeRight.
    ASSUME TypeInv, AllLive, AllLive', FileInv, NEW t \in Threads, Start(t) \/ Step(t), P1Take(t)
    PROVE  PlanRight(t)' /\ BlocksRight(t)' /\ BufferRight(t)'
  <2> USE <1>P1TakeRight
  <2>1. /\ pc[t] = "p1take" /\ NextBlock(t, "p1", "p1unlock") /\ req' = req /\ plan' = plan
        /\ pc[t] \in WriteSteps /\ TypeOK
    BY Parts, Zenon DEF P1Take, request, WriteSteps
  <2>2. pc'[t] \in {"p1", "p1unlock"}
    BY <2>1, LoopStep, StepNames, Zenon
  <2>3. DOMAIN plan[t] \subseteq Points(t)
    <3>1. \A j \in DOMAIN plan[t] : j < blk[t] \/ j = blk[t]
      BY <2>1, Parts, LocalTypes, PlanRange DEF PlanShape
    <3>. QED
      BY <2>1, <3>1, Zenon DEF Points, Held
  <2>4. Points(t)' = DOMAIN plan[t]
    BY <2>1, <2>2, Zenon DEF Points, Held
  <2>5. PlanRight(t)'
    BY <2>1, <2>3, <2>4, PlanKept, Zenon
  <2>. QED
    BY <2>1, <2>2, <2>5, NothingFinished, Zenon
<1>RbHitRight.
    ASSUME TypeInv, AllLive, AllLive', FileInv, NEW t \in Threads, Start(t) \/ Step(t), RbHit(t)
    PROVE  PlanRight(t)' /\ BlocksRight(t)' /\ BufferRight(t)'
  <2> USE <1>RbHitRight
  <2>1. /\ pc[t] = "rbhits" /\ NextBlock(t, "rbhits", "rbunlock") /\ req' = req /\ plan' = plan
        /\ pc[t] \in WriteSteps
    BY Zenon DEF RbHit, request, WriteSteps, PlannedSteps, AllocatedSteps
  <2>2. pc'[t] \in {"rbhits", "rbunlock"} /\ Held(t)' \subseteq Held(t)
    BY <2>1, RbEntries, Zenon
  <2>3. Points(t)' = Held(t)' /\ Points(t) = Held(t)
    BY <2>1, <2>2, Zenon DEF Points
  <2>4. PlanRight(t)'
    BY <2>1, <2>2, <2>3, PlanKept, Zenon
  <2>. QED
    BY <2>1, <2>2, <2>4, NothingFinished, Zenon
<1>PublishRight.
    ASSUME TypeInv, RefInv, AllLive, AllLive', FileInv, NEW t \in Threads, Start(t) \/ Step(t), PublishBlock(t)
    PROVE  PlanRight(t)' /\ BlocksRight(t)' /\ BufferRight(t)'
  <2> USE <1>PublishRight
  <2>1. /\ TypeOK /\ pc[t] = "publish" /\ NextBlock(t, "publish", "map") /\ req' = req /\ pc[t] \in WriteSteps
    BY Parts, Zenon DEF PublishBlock, request, WriteSteps, PlannedSteps, AllocatedSteps
  <2>2. blk[t] \in DOMAIN plan[t] /\ plan[t][blk[t]].info \in InfoIds
    BY <2>1, LoopEntry, Zenon
  <2>3. pc'[t] = "publish" \/ (pc'[t] = "map" /\ blk'[t] = 1)
    BY <2>1, LoopStep, StepNames, Zenon
  <2>4. ASSUME plan' = plan PROVE PlanRight(t)'
    <3>1. Misses(t)' = Misses(t)
      BY <2>4, Zenon DEF Misses
    <3>2. Points(t)' = Points(t)
      BY <2>1, <2>4, <3>1, PublishEntries, Zenon
    <3>. QED
      BY <2>1, <2>4, <3>2, PlanKept, Zenon
  <2>5. ASSUME plan' # plan PROVE PlanRight(t)'
    <3>1. PICK m \in InfoIds : m = plan[t][blk[t]].info
      BY <2>2, Zenon
    <3>2. /\ plan[t][blk[t]].kind = "MISS" /\ Winner(info[m].hash) # NULL
          /\ plan' = [plan EXCEPT ![t][blk[t]].info = Winner(info[m].hash)]
      BY <2>5, <3>1, Zenon DEF PublishBlock
    <3>3. PICK w \in InfoIds : w = Winner(info[m].hash) /\ info[w].hash = info[m].hash
      BY <2>1, <3>2, RefParts, Zenon DEF Winner, TypeOK, OneInfoPerHash
    <3>4. plan \in [Threads -> Seq(PlanEntry)] /\ plan[t][blk[t]] \in PlanEntry
      BY <2>1, <2>2, PlanTypes, Zenon DEF TypeOK
    <3>5. plan'[t] = [plan[t] EXCEPT ![blk[t]] = [plan[t][blk[t]] EXCEPT !.info = w]]
      BY <3>2, <3>3, <3>4, Zenon
    <3>6. /\ DOMAIN plan'[t] = DOMAIN plan[t] /\ plan'[t][blk[t]].info = w /\ plan'[t][blk[t]].kind = "MISS"
          /\ \A j \in DOMAIN plan[t] \ {blk[t]} : plan'[t][j] = plan[t][j]
      BY <2>2, <3>2, <3>4, <3>5, Zenon DEF PlanEntry
    <3>7. Misses(t)' = Misses(t)
      BY <3>2, <3>6, Zenon DEF Misses
    <3>8. Points(t) = DOMAIN plan[t] /\ Points(t)' = DOMAIN plan[t]
      BY <2>1, <3>6, <3>7, PublishEntries, Zenon
    <3>9. info[w].hash # NULL /\ info'[w].hash # NULL /\ info[m].hash = HashOf[req[t].buf[blk[t]]]
      <4>1. info'[plan'[t][blk[t]].info].hash # NULL
        BY <2>2, <3>8, Zenon DEF AllLive
      <4>2. info[plan[t][blk[t]].info].hash # NULL
        BY <2>2, <3>8, Zenon DEF AllLive
      <4>3. info[plan[t][blk[t]].info].hash = HashOf[req[t].buf[blk[t]]]
        BY <2>2, <3>8, Zenon DEF FileInv, PlanRight
      <4>. QED
        BY <3>1, <3>3, <3>6, <4>1, <4>2, <4>3, Zenon
    <3>10. info'[w].hash = HashOf[req[t].buf[blk[t]]]
      BY <3>3, <3>9, HashKept, Zenon DEF KeepsHash
    <3>. QED
      BY <2>1, <3>6, <3>8, <3>10, PlanKept, ZenonT(30)
  <2>. QED
    BY <2>1, <2>3, <2>4, <2>5, NothingFinished, Zenon
<1>MapBlockRight.
    ASSUME TypeInv, AllLive, AllLive', FileInv, NEW t \in Threads, Start(t) \/ Step(t), MapBlock(t)
    PROVE  PlanRight(t)' /\ BlocksRight(t)' /\ BufferRight(t)'
  <2> USE <1>MapBlockRight
  <2>1. /\ TypeOK /\ pc[t] = "map" /\ NextBlock(t, "map", "p3unlock") /\ req' = req /\ plan' = plan
        /\ pc[t] \in WriteSteps
        /\ file_to_master' = [file_to_master EXCEPT ![FileBlock(t)] = plan[t][blk[t]].info]
    BY Parts, Zenon DEF MapBlock, request, WriteSteps, PlannedSteps, AllocatedSteps
  <2>2. pc'[t] \in {"map", "p3unlock"} /\ blk[t] \in Held(t) /\ Held(t)' \subseteq Held(t)
    BY <2>1, MapEntries, Zenon
  <2>3. Points(t)' = Held(t)' /\ Points(t) = Held(t)
    BY <2>1, <2>2, Zenon DEF Points
  <2>4. PlanRight(t)'
    BY <2>1, <2>2, <2>3, PlanKept, Zenon
  <2>5. BlocksRight(t)'
    <3>1. PICK here \in Paths \X Blocks : here = FileBlock(t)
      BY <2>1, FileBlockType, Zenon
    <3>2. PICK m \in InfoIds : m = plan[t][blk[t]].info
      BY <2>1, LoopEntry, Zenon
    <3>3. file_to_master'[here] = m /\ m # NULL
      BY <2>1, <3>1, <3>2, NullAssumption, Zenon DEF TypeOK
    <3>4. info'[m].hash # NULL
      BY <3>3, Zenon DEF AllLive
    <3>5. info[m].hash # NULL
      BY <2>2, <2>3, <3>2, Zenon DEF AllLive
    <3>6. info[m].hash = HashOf[req[t].buf[blk[t]]]
      BY <2>2, <2>3, <3>2, Zenon DEF FileInv, PlanRight
    <3>7. Digest(here)' = info'[m].hash
      BY <3>3, Zenon DEF Digest
    <3>8. Digest(here)' = Intended(t, blk[t])
      BY <2>1, <3>4, <3>5, <3>6, <3>7, HashKept, Zenon DEF KeepsHash, Intended
    <3>. QED
      BY <2>1, <3>1, <3>8, LoopFinishes, Zenon
  <2>6. BufferRight(t)'
    BY <2>1, Zenon DEF FileInv, BufferRight
  <2>. QED
    BY <2>4, <2>5, <2>6, Zenon
<1>RmBlockRight.
    ASSUME TypeInv, AllLive, AllLive', FileInv, NEW t \in Threads, Start(t) \/ Step(t), RmBlock(t)
    PROVE  PlanRight(t)' /\ BlocksRight(t)' /\ BufferRight(t)'
  <2> USE <1>RmBlockRight
  <2>1. /\ TypeOK /\ pc[t] = "remove" /\ NextBlock(t, "remove", "rmunlock") /\ req' = req /\ plan' = plan
        /\ file_to_master' = [file_to_master EXCEPT ![FileBlock(t)] = NULL]
    BY Parts, Zenon DEF RmBlock, request
  <2>2. pc'[t] \in {"remove", "rmunlock"}
    BY <2>1, LoopStep, StepNames, Zenon
  <2>3. DOMAIN plan'[t] = {}
    <3>1. plan[t] = <<>>
      BY <2>1, Parts, Zenon DEF PlanShape, RemoveSteps
    <3>. QED
      BY <2>1, <3>1
  <2>4. Points(t)' = {}
    BY <2>2, <2>3, Zenon DEF Points, Held
  <2>5. BlocksRight(t)'
    <3>1. PICK here \in Paths \X Blocks : here = FileBlock(t)
      BY <2>1, FileBlockType, Zenon
    <3>2. file_to_master'[here] = NULL
      BY <2>1, <3>1, Zenon DEF TypeOK
    <3>3. Digest(here)' = Intended(t, blk[t])
      BY <2>1, <3>2, Zenon DEF Digest, Intended
    <3>. QED
      BY <2>1, <3>1, <3>3, LoopFinishes, Zenon
  <2>6. pc'[t] \notin WriteSteps
    BY <2>2, Zenon DEF WriteSteps, PlannedSteps, AllocatedSteps
  <2>. QED
    BY <2>4, <2>5, <2>6, Zenon DEF PlanRight, BufferRight
<1>. SUFFICES ASSUME NEW t \in Threads, Start(t) \/ Step(t) PROVE FileInv'
  BY Zenon
<1>1. AllLive /\ AllLive'
  BY LiveNow, LiveNext, Zenon
<1>2. ASSUME NEW u \in Threads \ {t}
      PROVE  PlanRight(u)' /\ BlocksRight(u)' /\ BufferRight(u)'
  <2>1. SameLocals(u)
    BY Parts, OthersUnchanged, Zenon
  <2>. QED
    BY <1>1, <2>1, <1>OtherRight, Zenon
<1>3. PlanRight(t)' /\ BlocksRight(t)' /\ BufferRight(t)'
  <2>1. CASE Start(t) \/ P3Release(t) \/ RbMisses(t) \/ SetSize(t)
    BY <2>1, <1>RenewKinds, <1>RenewRight, Zenon
  <2>2. CASE P1Lock(t) \/ P1Unlock(t) \/ Drain(t) \/ AppendSlots(t) \/ FlushRun(t)
             \/ FlushFail(t) \/ P3Lock(t) \/ P3Unlock(t) \/ RbLock(t) \/ RbUnlock(t) \/ RbRelease(t)
             \/ RmLock(t) \/ RmUnlock(t) \/ RmRelease(t)
    <3>1. Straight(t) \/ Flushes(t)
      BY <2>2, <1>StraightKinds, Zenon
    <3>. QED
      BY <1>1, <3>1, <1>StraightRight, <1>FlushRight, Zenon
  <2>3. CASE P1Hit(t) \/ P1Miss(t) \/ P1Take(t)
    BY <1>1, <2>3, <1>P1HitRight, <1>P1MissRight, <1>P1TakeRight, Zenon
  <2>4. CASE PublishBlock(t) \/ MapBlock(t) \/ RmBlock(t) \/ RbHit(t)
    BY <1>1, <2>4, <1>PublishRight, <1>MapBlockRight, <1>RmBlockRight, <1>RbHitRight, Zenon
  <2>. QED
    BY <2>1, <2>2, <2>3, <2>4, Zenon DEF Step
<1>. QED
  BY <1>2, <1>3, Zenon DEF FileInv

\* A step that changes neither mappings nor plans keeps FileInv.
LEMMA StutterRight ==
  ASSUME FileInv, UNCHANGED <<file_to_master, info, pc, req, blk, plan>>
  PROVE  FileInv'
<1>1. \A u \in Threads : Held(u)' = Held(u)
  BY Zenon DEF Held, Misses
<1>2. \A u \in Threads : Points(u)' = Points(u) /\ Finished(u)' = Finished(u)
  BY <1>1, Zenon DEF Points, Finished
<1>3. /\ \A fb : Digest(fb)' = Digest(fb)
      /\ \A u, k : Intended(u, k)' = Intended(u, k) /\ BlockOf(u, k)' = BlockOf(u, k)
  BY Zenon DEF Digest, Intended, BlockOf
<1>4. ASSUME NEW u \in Threads
      PROVE  PlanRight(u)' /\ BlocksRight(u)' /\ BufferRight(u)'
  <2>1. PlanRight(u)'
    BY <1>2, Zenon DEF FileInv, PlanRight
  <2>2. BlocksRight(u)'
    BY <1>2, Zenon DEF FileInv, BlocksRight, Digest, Intended, BlockOf
  <2>3. BufferRight(u)'
    BY Zenon DEF FileInv, BufferRight
  <2>. QED
    BY <2>1, <2>2, <2>3, Zenon
<1>. QED
  BY <1>4, Zenon DEF FileInv

\* FileInv is inductive, relative to the invariants of the references.
LEMMA NextFiles ==
  ASSUME TypeInv, RefInv, TypeInv', RefInv', FileInv, [Next]_vars
  PROVE  FileInv'
<1>1. ASSUME Remount \/ Wait \/ UNCHANGED vars
      PROVE  FileInv'
  <2>1. UNCHANGED <<file_to_master, info, pc, req, blk, plan>>
    BY <1>1, Zenon DEF Remount, Wait, vars, index, request
  <2>. QED
    BY <2>1, StutterRight, Zenon
<1>. QED
  BY <1>1, StepRight, Zenon DEF Next

\* FileInv holds at first, when every thread is idle.
LEMMA InitFiles == Init => FileInv
<1>. SUFFICES ASSUME Init, NEW t \in Threads
              PROVE  PlanRight(t) /\ BlocksRight(t) /\ BufferRight(t)
  BY Zenon DEF FileInv
<1>1. pc[t] = "idle" /\ DOMAIN plan[t] = {}
  <2>1. pc[t] = "idle" /\ plan[t] = <<>>
    BY Zenon DEF Init
  <2>. QED
    BY <2>1
<1>2. Points(t) = {} /\ Finished(t) = {}
  BY <1>1, Zenon DEF Points, Held, Finished
<1>. QED
  BY <1>1, <1>2, Zenon DEF PlanRight, BlocksRight, BufferRight, WriteSteps, PlannedSteps, AllocatedSteps

=============================================================================
