---------------------------- MODULE DedupProofs -----------------------------
(***************************************************************************)
(* The deduplication module is correct for every value of the constants:   *)
(* its invariants hold in every state of every behaviour, and its files    *)
(* change as FileStore says.                                               *)
(***************************************************************************)
EXTENDS DedupRefProofs, DedupStoreProofs, FiniteSetTheorems, WellFoundedInduction

-----------------------------------------------------------------------------
(* What the files hold. *)

\* A mapped block reads as the content of its digest, an unmapped one as none.
ContentsRight ==
  \A fb \in Paths \X Blocks :
    IF file_to_master[fb] = NULL THEN FileContent(fb) = NULL /\ Digest(fb) = NULL
    ELSE FileContent(fb) \in Contents /\ HashOf[FileContent(fb)] = Digest(fb) /\ Digest(fb) # NULL

\* The content of a mapped block has the digest of its MasterInfo,
LEMMA ContentNow == TypeInv /\ RefInv /\ PublishedOnDisk => ContentsRight
<1>. SUFFICES ASSUME TypeInv, RefInv, PublishedOnDisk, NEW fb \in Paths \X Blocks
              PROVE  IF file_to_master[fb] = NULL THEN FileContent(fb) = NULL /\ Digest(fb) = NULL
                     ELSE /\ FileContent(fb) \in Contents /\ HashOf[FileContent(fb)] = Digest(fb)
                          /\ Digest(fb) # NULL
  BY Zenon DEF ContentsRight
<1>1. CASE file_to_master[fb] = NULL
  BY <1>1, Zenon DEF FileContent, Digest
<1>2. CASE file_to_master[fb] # NULL
  <2>1. PICK m \in InfoIds : m = file_to_master[fb] /\ Published(m) /\ info[m].hash # NULL /\ Digest(fb) = info[m].hash
    BY <1>2, MappedLive, Zenon
  <2>2. PICK h \in Hashes : hash_to_master[h] = m /\ h = info[m].hash
    BY <2>1, PublishedLive, Zenon DEF Published
  <2>3. /\ info[m].masterBlockIndex < Len(masterFILE) /\ masterFILE[info[m].masterBlockIndex + 1] # NULL
        /\ HashOf[masterFILE[info[m].masterBlockIndex + 1]] = h
    BY <1>2, <2>1, <2>2, Zenon DEF PublishedOnDisk
  <2>4. FileContent(fb) = masterFILE[info[m].masterBlockIndex + 1]
    BY <1>2, <2>1, <2>3, Zenon DEF FileContent
  <2>5. masterFILE[info[m].masterBlockIndex + 1] \in Contents
    <3>1. masterFILE \in Seq(Contents \cup {NULL}) /\ info[m].masterBlockIndex \in Nat
      BY InfoTypes, Zenon DEF TypeInv, TypeOK
    <3>2. info[m].masterBlockIndex + 1 \in 1 .. Len(masterFILE)
      BY <2>3, <3>1
    <3>3. masterFILE[info[m].masterBlockIndex + 1] \in Contents \cup {NULL}
      BY <3>1, <3>2, SeqElement, Zenon
    <3>. QED
      BY <2>3, <3>3, Zenon
  <2>. QED
    BY <1>2, <2>1, <2>2, <2>3, <2>4, <2>5, Zenon
<1>. QED
  BY <1>1, <1>2, Zenon

\* and so it is after a step.
LEMMA ContentNext == TypeInv' /\ RefInv' /\ PublishedOnDisk' => ContentsRight'
BY ContentNow, PTL

\* With no collision of digests, the digest says what the content is.
LEMMA SameContent ==
  ASSUME CollisionFree, ContentsRight, ContentsRight', NEW fb \in Paths \X Blocks, Digest(fb)' = Digest(fb)
  PROVE  FileContent(fb)' = FileContent(fb)
<1>1. IF file_to_master[fb] = NULL THEN FileContent(fb) = NULL /\ Digest(fb) = NULL
      ELSE FileContent(fb) \in Contents /\ HashOf[FileContent(fb)] = Digest(fb) /\ Digest(fb) # NULL
  BY Zenon DEF ContentsRight
<1>2. IF file_to_master'[fb] = NULL THEN FileContent(fb)' = NULL /\ Digest(fb)' = NULL
      ELSE FileContent(fb)' \in Contents /\ HashOf[FileContent(fb)'] = Digest(fb)' /\ Digest(fb)' # NULL
  BY Zenon DEF ContentsRight
<1>. QED
  BY <1>1, <1>2, Zenon DEF CollisionFree

\* With no collision of digests, the digest of a block gives its content.
LEMMA ContentOfDigest ==
  ASSUME CollisionFree, ContentsRight, NEW fb \in Paths \X Blocks
  PROVE  /\ \A c \in Contents : Digest(fb) = HashOf[c] => FileContent(fb) = c
         /\ Digest(fb) = NULL => FileContent(fb) = NULL
<1>1. \A c \in Contents : HashOf[c] # NULL
  BY HashOfAssumption, NullAssumption, Zenon
<1>2. IF file_to_master[fb] = NULL THEN FileContent(fb) = NULL /\ Digest(fb) = NULL
      ELSE FileContent(fb) \in Contents /\ HashOf[FileContent(fb)] = Digest(fb) /\ Digest(fb) # NULL
  BY Zenon DEF ContentsRight
<1>. QED
  BY <1>1, <1>2, Zenon DEF CollisionFree

\* What a file shows of a block that a thread under the write lock changes.
WriteOver == {"publish", "map", "p3unlock"}
RemoveOver == {"remove", "rmunlock"}
Over(u, fb) == pc[u] \in WriteOver \cup RemoveOver /\ Covers(u, fb)
Target(u, fb) == IF pc[u] \in WriteOver THEN req[u].buf[fb[2] - req[u].start + 1] ELSE NULL

FilesShown ==
  /\ Files = [fb \in Paths \X Blocks |-> Files[fb]]
  /\ \A fb \in Paths \X Blocks :
       /\ \A u \in Threads : Over(u, fb) => Files[fb] = Target(u, fb)
       /\ (\A u \in Threads : ~Over(u, fb)) => Files[fb] = FileContent(fb)

\* What Files shows, block by block,
LEMMA ShownNow == TypeInv => FilesShown
<1>. SUFFICES ASSUME TypeInv PROVE FilesShown
  BY Zenon
<1>1. Files = [fb \in Paths \X Blocks |-> Files[fb]]
  BY Zenon DEF Files
<1>2. ASSUME NEW fb \in Paths \X Blocks
      PROVE  Files[fb] = IF wrlock = NULL THEN FileContent(fb)
                         ELSE IF pc[wrlock] \in WriteOver /\ Covers(wrlock, fb)
                              THEN req[wrlock].buf[fb[2] - req[wrlock].start + 1]
                         ELSE IF pc[wrlock] \in RemoveOver /\ Covers(wrlock, fb) THEN NULL
                         ELSE FileContent(fb)
  BY Zenon DEF Files, WriteOver, RemoveOver
<1>3. ASSUME NEW fb \in Paths \X Blocks, NEW u \in Threads, Over(u, fb)
      PROVE  Files[fb] = Target(u, fb)
  <2>1. pc[u] \in WrSteps
    BY <1>3, Zenon DEF Over, WriteOver, RemoveOver, WrSteps
  <2>2. wrlock = u /\ wrlock # NULL
    BY <2>1, NullAssumption, Zenon DEF TypeInv, LockInv
  <2>. QED
    BY <1>2, <1>3, <2>2, Zenon DEF Over, Target, WriteOver, RemoveOver
<1>4. ASSUME NEW fb \in Paths \X Blocks, \A u \in Threads : ~Over(u, fb)
      PROVE  Files[fb] = FileContent(fb)
  <2>1. CASE wrlock = NULL
    BY <1>2, <2>1, Zenon
  <2>2. CASE wrlock # NULL
    <3>1. wrlock \in Threads
      BY <2>2, Zenon DEF TypeInv, TypeOK
    <3>. QED
      BY <1>2, <1>4, <2>2, <3>1, Zenon DEF Over
  <2>. QED
    BY <2>1, <2>2, Zenon
<1>. QED
  BY <1>1, <1>3, <1>4, Zenon DEF FilesShown

\* and after a step.
LEMMA ShownNext == TypeInv' => FilesShown'
BY ShownNow, PTL

-----------------------------------------------------------------------------
(* How far requests are. *)

PendingSteps == {"p1lock", "p1", "p1take", "p1unlock", "drain", "append", "flush", "p3lock", "rmlock"}

\* What FileStore calls the steps of a request.
LEMMA StatusValues ==
  /\ StatusAt("idle") = "idle"
  /\ \A s \in PendingSteps : StatusAt(s) = "pending"
  /\ \A s \in AppliedSteps : StatusAt(s) = "done"
  /\ \A s \in FailedSteps : StatusAt(s) = "failed"
<1>1. StatusAt("idle") = "idle"
  BY DEF StatusAt, AppliedSteps, FailedSteps
<1>2. ASSUME NEW s \in PendingSteps PROVE StatusAt(s) = "pending"
  BY DEF StatusAt, PendingSteps, AppliedSteps, FailedSteps
<1>3. ASSUME NEW s \in AppliedSteps PROVE StatusAt(s) = "done"
  BY DEF StatusAt, AppliedSteps, FailedSteps
<1>4. ASSUME NEW s \in FailedSteps PROVE StatusAt(s) = "failed"
  BY DEF StatusAt, AppliedSteps, FailedSteps
<1>. QED
  BY <1>1, <1>2, <1>3, <1>4, Zenon

\* A step of a thread concerns the status of its own request only.
LEMMA StatusStep ==
  ASSUME TypeOK, NEW t \in Threads, Start(t) \/ Step(t)
  PROVE  /\ Status[t] = StatusAt(pc[t])
         /\ Status' = [Status EXCEPT ![t] = StatusAt(pc'[t])]
         /\ StatusAt(pc'[t]) = StatusAt(pc[t]) => Status' = Status
<1>1. \A u \in Threads \ {t} : pc'[u] = pc[u]
  BY OthersUnchanged, Zenon DEF SameLocals
<1>2. Status = [u \in Threads |-> StatusAt(pc[u])] /\ Status' = [u \in Threads |-> StatusAt(pc'[u])]
  BY Zenon DEF Status
<1>. QED
  BY <1>1, <1>2, Zenon

\* A request that waits for its turn to change the mappings goes on waiting,
LEMMA PendingStays ==
  ASSUME TypeOK, NEW t \in Threads,
         P1Lock(t) \/ P1Hit(t) \/ P1Take(t) \/ P1Miss(t) \/ P1Unlock(t) \/ Drain(t) \/ AppendSlots(t) \/ FlushRun(t)
  PROVE  pc[t] \in PendingSteps /\ pc'[t] \in PendingSteps /\ req' = req
<1>1. DOMAIN pc = Threads
  BY Zenon DEF TypeOK
<1>2. CASE P1Lock(t) \/ P1Hit(t) \/ P1Unlock(t) \/ Drain(t) \/ AppendSlots(t)
  BY <1>1, <1>2, Zenon DEF P1Lock, P1Hit, P1Unlock, Drain, AppendSlots, Goto, request, PendingSteps
<1>3. CASE P1Take(t) \/ P1Miss(t)
  BY <1>1, <1>3, Zenon DEF P1Take, P1Miss, NextBlock, Goto, request, PendingSteps
<1>4. CASE FlushRun(t)
  BY <1>1, <1>4, Zenon DEF FlushRun, Goto, request, PendingSteps
<1>. QED
  BY <1>2, <1>3, <1>4, Zenon

\* one that changes them or has done so stays done,
LEMMA AppliedStays ==
  ASSUME TypeOK, NEW t \in Threads,
         PublishBlock(t) \/ MapBlock(t) \/ P3Unlock(t) \/ RmBlock(t) \/ RmUnlock(t) \/ RmRelease(t)
  PROVE  pc[t] \in AppliedSteps /\ pc'[t] \in AppliedSteps /\ req' = req
<1>1. DOMAIN pc = Threads
  BY Zenon DEF TypeOK
<1>2. CASE PublishBlock(t) \/ MapBlock(t) \/ RmBlock(t)
  BY <1>1, <1>2, Zenon DEF PublishBlock, MapBlock, RmBlock, NextBlock, Goto, request, AppliedSteps
<1>3. CASE P3Unlock(t) \/ RmUnlock(t) \/ RmRelease(t)
  BY <1>1, <1>3, Zenon DEF P3Unlock, RmUnlock, RmRelease, Goto, request, AppliedSteps
<1>. QED
  BY <1>2, <1>3, Zenon

\* and one that failed stays failed.
LEMMA FailedStays ==
  ASSUME TypeOK, NEW t \in Threads, RbLock(t) \/ RbHit(t) \/ RbUnlock(t) \/ RbRelease(t)
  PROVE  pc[t] \in FailedSteps /\ pc'[t] \in FailedSteps /\ req' = req
<1>1. DOMAIN pc = Threads
  BY Zenon DEF TypeOK
<1>. QED
  BY <1>1, Zenon DEF RbLock, RbHit, RbUnlock, RbRelease, NextBlock, Goto, request, FailedSteps

\* A removal carries no buffer.
RemovalsBare == \A t \in Threads : pc[t] = "rmlock" => req[t].buf = <<>>

\* Requests keep what they carry while they wait.
LEMMA NextBare ==
  ASSUME TypeOK, RemovalsBare, [Next]_vars
  PROVE  RemovalsBare'
<1>1. ASSUME Remount \/ Wait \/ UNCHANGED vars
      PROVE  RemovalsBare'
  <2>1. pc' = pc /\ req' = req
    BY <1>1, Zenon DEF Remount, Wait, vars, request
  <2>. QED
    BY <2>1, Zenon DEF RemovalsBare
<1>2. ASSUME NEW t \in Threads, Start(t) \/ Step(t)
      PROVE  RemovalsBare'
  <2>1. \A u \in Threads \ {t} : pc'[u] = pc[u] /\ req'[u] = req[u]
    BY <1>2, OthersUnchanged, Zenon DEF SameLocals
  <2>2. DOMAIN pc = Threads /\ DOMAIN req = Threads
    BY Zenon DEF TypeOK
  <2>3. pc'[t] = "rmlock" => req'[t].buf = <<>>
    <3>1. CASE StartWrite(t)
      BY <2>2, <3>1, Zenon DEF StartWrite, Arrive, Goto
    <3>2. CASE StartUnlink(t) \/ StartTruncate(t)
      <4>1. PICK r, s : Arrive(t, r, s) /\ r.buf = <<>>
        <5>1. CASE StartUnlink(t)
          <6>1. PICK p \in Paths :
                  Arrive(t, [op |-> "unlink", path |-> p, start |-> 0, count |-> file_to_sizes[p], buf |-> <<>>],
                         IF file_to_sizes[p] > 0 THEN "rmlock" ELSE "setsize")
            BY <5>1, Zenon DEF StartUnlink
          <6>. DEFINE q == [op |-> "unlink", path |-> p, start |-> 0, count |-> file_to_sizes[p], buf |-> <<>>]
          <6>2. q.buf = <<>>
            OBVIOUS
          <6>. QED
            BY <6>1, <6>2, Zenon
        <5>2. CASE StartTruncate(t)
          <6>1. PICK p \in Paths, size \in Blocks :
                  Arrive(t, [op |-> "truncate", path |-> p, start |-> size,
                             count |-> file_to_sizes[p] - size, buf |-> <<>>], "rmlock")
            BY <5>2, Zenon DEF StartTruncate
          <6>. DEFINE q == [op |-> "truncate", path |-> p, start |-> size, count |-> file_to_sizes[p] - size, buf |-> <<>>]
          <6>2. q.buf = <<>>
            OBVIOUS
          <6>. QED
            BY <6>1, <6>2, Zenon
        <5>. QED
          BY <3>2, <5>1, <5>2, Zenon
      <4>2. req' = [req EXCEPT ![t] = r]
        BY <4>1, Zenon DEF Arrive
      <4>. QED
        BY <2>2, <4>1, <4>2, Zenon
    <3>3. CASE P1Lock(t) \/ P1Hit(t) \/ P1Take(t) \/ P1Miss(t) \/ P1Unlock(t) \/ Drain(t) \/ AppendSlots(t)
      BY <2>2, <3>3, Zenon DEF P1Lock, P1Hit, P1Take, P1Miss, P1Unlock, Drain, AppendSlots, NextBlock, Goto
    <3>4. CASE FlushRun(t) \/ FlushFail(t)
      BY <2>2, <3>4, Zenon DEF FlushRun, FlushFail, AfterFailure, Goto
    <3>5. CASE P3Lock(t) \/ P3Release(t) \/ RbMisses(t) \/ RmLock(t) \/ SetSize(t)
      BY <2>2, <3>5, Zenon DEF P3Lock, P3Release, RbMisses, RmLock, SetSize, Return, Goto
    <3>6. CASE RbLock(t) \/ RbHit(t) \/ RbUnlock(t) \/ RbRelease(t)
      BY <3>6, FailedStays, Zenon DEF FailedSteps
    <3>7. CASE PublishBlock(t) \/ MapBlock(t) \/ P3Unlock(t) \/ RmBlock(t) \/ RmUnlock(t) \/ RmRelease(t)
      BY <3>7, AppliedStays, Zenon DEF AppliedSteps
    <3>. QED
      BY <1>2, <3>1, <3>2, <3>3, <3>4, <3>5, <3>6, <3>7, Zenon DEF Start, Step
  <2>. QED
    BY <2>1, <2>3, Zenon DEF RemovalsBare
<1>. QED
  BY <1>1, <1>2, Zenon DEF Next

-----------------------------------------------------------------------------
(* Every step is a step of FileStore, or leaves the files as they are. *)

\* Another thread shows what it showed.
LEMMA OtherOver ==
  ASSUME TypeOK, NEW t \in Threads, Start(t) \/ Step(t), NEW u \in Threads \ {t}, NEW fb
  PROVE  Over(u, fb)' = Over(u, fb) /\ Target(u, fb)' = Target(u, fb)
<1>1. SameLocals(u)
  BY OthersUnchanged, Zenon
<1>2. pc'[u] = pc[u] /\ req'[u] = req[u]
  BY <1>1, Zenon DEF SameLocals
<1>. QED
  BY <1>2, Zenon DEF Over, Covers, Target

\* A block at which the thread that moves goes on showing what it showed.
LEMMA SameAt ==
  ASSUME CollisionFree, TypeInv, AllLive, AllLive', ContentsRight, ContentsRight', FilesShown, FilesShown',
         NEW t \in Threads, Start(t) \/ Step(t), NEW fb \in Paths \X Blocks,
         Over(t, fb)' <=> Over(t, fb), Over(t, fb) => Target(t, fb)' = Target(t, fb),
         Over(t, fb) \/ file_to_master'[fb] = file_to_master[fb]
  PROVE  Files'[fb] = Files[fb]
<1>1. \A u \in Threads : /\ Over(u, fb)' <=> Over(u, fb)
                         /\ Over(u, fb) => Target(u, fb)' = Target(u, fb)
  BY Parts, OtherOver, Zenon
<1>2. CASE \E u \in Threads : Over(u, fb)
  <2>1. PICK u \in Threads : Over(u, fb)
    BY <1>2, Zenon
  <2>2. Files[fb] = Target(u, fb)
    BY <2>1, Zenon DEF FilesShown
  <2>3. Files'[fb] = Target(u, fb)'
    BY <1>1, <2>1, Zenon DEF FilesShown
  <2>. QED
    BY <1>1, <2>1, <2>2, <2>3, Zenon
<1>3. CASE \A u \in Threads : ~Over(u, fb)
  <2>1. Files[fb] = FileContent(fb)
    BY <1>3, Zenon DEF FilesShown
  <2>2. Files'[fb] = FileContent(fb)'
    BY <1>1, <1>3, Zenon DEF FilesShown
  <2>3. file_to_master'[fb] = file_to_master[fb]
    BY <1>3, Zenon
  <2>4. FileContent(fb)' = FileContent(fb)
    BY <2>3, DigestKept, SameContent, Zenon
  <2>. QED
    BY <2>1, <2>2, <2>4, Zenon
<1>. QED
  BY <1>2, <1>3, Zenon

\* Files with the same blocks are the same files.
LEMMA SameFiles ==
  ASSUME FilesShown, FilesShown', \A fb \in Paths \X Blocks : Files'[fb] = Files[fb]
  PROVE  Files' = Files
<1>1. Files = [fb \in Paths \X Blocks |-> Files[fb]] /\ Files' = [fb \in Paths \X Blocks |-> Files'[fb]]
  BY Zenon DEF FilesShown
<1>. QED
  BY <1>1, Zenon

\* The step that releases the write lock: what was announced is there.
LEMMA UnlockFiles ==
  ASSUME CollisionFree, TypeInv, AllLive, AllLive', ContentsRight, ContentsRight', FilesShown, FilesShown', FileInv,
         NEW t \in Threads, P3Unlock(t) \/ RmUnlock(t)
  PROVE  Files' = Files
<1>1. /\ pc[t] \in {"p3unlock", "rmunlock"} /\ file_to_master' = file_to_master /\ req' = req /\ TypeOK
      /\ pc[t] \in WriteOver \cup RemoveOver
  BY Parts, Zenon DEF P3Unlock, RmUnlock, index, request, WriteOver, RemoveOver
<1>2. pc'[t] \in {"p3release", "rmrelease"} /\ pc'[t] \notin WriteOver \cup RemoveOver
  <2>1. pc'[t] \in {"p3release", "rmrelease"}
    BY <1>1, Zenon DEF P3Unlock, RmUnlock, Goto, TypeOK
  <2>. QED
    BY <2>1, Zenon DEF WriteOver, RemoveOver
<1>3. Start(t) \/ Step(t)
  BY Zenon DEF Step
<1>4. ASSUME NEW fb \in Paths \X Blocks, ~Covers(t, fb)
      PROVE  Files'[fb] = Files[fb]
  <2>1. ~Over(t, fb) /\ ~Over(t, fb)'
    BY <1>2, <1>4, Zenon DEF Over
  <2>. QED
    BY <1>1, <1>3, <2>1, SameAt, Zenon
<1>5. ASSUME NEW fb \in Paths \X Blocks, Covers(t, fb)
      PROVE  Files'[fb] = Files[fb]
  <2>1. /\ req[t].start \in Nat /\ req[t].count \in Nat /\ fb[2] \in Blocks /\ fb = <<fb[1], fb[2]>>
        /\ fb[1] = req[t].path /\ fb[2] \in req[t].start .. req[t].start + req[t].count - 1
    BY <1>1, <1>5, LocalTypes DEF Covers
  <2>2. PICK k \in 1 .. req[t].count : k = fb[2] - req[t].start + 1 /\ fb[2] = req[t].start + k - 1
    BY <2>1
  <2>3. fb = BlockOf(t, k) /\ k \in Finished(t)
    BY <1>1, <2>1, <2>2, Zenon DEF BlockOf, Finished
  <2>4. Digest(fb) = Intended(t, k)
    BY <2>3, Zenon DEF FileInv, BlocksRight
  <2>5. FileContent(fb) = Target(t, fb)
    <3>1. CASE pc[t] = "p3unlock"
      <4>1. req[t].buf \in Seq(Contents) /\ req[t].count = Len(req[t].buf)
        BY <1>1, <3>1, Parts, LocalTypes, Zenon DEF RequestShape, PlannedSteps, AllocatedSteps
      <4>2. req[t].buf[k] \in Contents
        BY <4>1, SeqElement, Zenon
      <4>3. Digest(fb) = HashOf[req[t].buf[k]] /\ Target(t, fb) = req[t].buf[k]
        BY <2>2, <2>4, <3>1, Zenon DEF Intended, Target, WriteOver
      <4>. QED
        BY <4>2, <4>3, ContentOfDigest, Zenon
    <3>2. CASE pc[t] = "rmunlock"
      BY <2>4, <3>2, ContentOfDigest, Zenon DEF Intended, Target, WriteOver
    <3>. QED
      BY <1>1, <3>1, <3>2, Zenon
  <2>6. Files[fb] = Target(t, fb)
    BY <1>1, <1>5, Zenon DEF FilesShown, Over
  <2>7. \A u \in Threads : ~Over(u, fb)'
    <3>1. \A u \in Threads \ {t} : pc[u] \notin WrSteps
      BY <1>1, NullAssumption, Zenon DEF TypeInv, LockInv, WrSteps
    <3>2. \A u \in Threads \ {t} : ~Over(u, fb)
      BY <3>1, Zenon DEF Over, WriteOver, RemoveOver, WrSteps
    <3>. QED
      BY <1>1, <1>2, <1>3, <3>2, OtherOver, Zenon DEF Over
  <2>8. Files'[fb] = FileContent(fb)'
    BY <2>7, Zenon DEF FilesShown
  <2>9. FileContent(fb)' = FileContent(fb)
    BY <1>1, <1>3, DigestKept, SameContent, Zenon
  <2>. QED
    BY <2>5, <2>6, <2>8, <2>9, Zenon
<1>. QED
  BY <1>4, <1>5, SameFiles, Zenon

\* The steps that get the write lock to write or to remove.
LEMMA LockFiles ==
  ASSUME CollisionFree, TypeInv, AllLive, AllLive', ContentsRight, ContentsRight', FilesShown, FilesShown', FileInv,
         RemovalsBare, NEW t \in Threads, P3Lock(t) \/ RmLock(t)
  PROVE  FS!Effect(t)
<1>1. /\ pc[t] \in {"p3lock", "rmlock"} /\ file_to_master' = file_to_master /\ req' = req /\ TypeOK
      /\ pc[t] \notin WriteOver \cup RemoveOver
      /\ pc[t] = "p3lock" => pc'[t] \in WriteOver
      /\ pc[t] = "rmlock" => pc'[t] \in RemoveOver /\ pc'[t] \notin WriteOver
  <2>1. TypeOK
    BY Parts, Zenon
  <2>. QED
    BY <2>1, Zenon DEF P3Lock, RmLock, index, request, WriteOver, RemoveOver, Goto, TypeOK
<1>2. Start(t) \/ Step(t)
  BY Zenon DEF Step
<1>3. ASSUME NEW fb \in Paths \X Blocks
      PROVE  Files'[fb] = IF Covers(t, fb) THEN Target(t, fb)' ELSE Files[fb]
  <2>1. CASE Covers(t, fb)
    <3>1. Over(t, fb)'
      BY <1>1, <2>1, Zenon DEF Over, Covers
    <3>. QED
      BY <2>1, <3>1, Zenon DEF FilesShown
  <2>2. CASE ~Covers(t, fb)
    <3>1. ~Over(t, fb) /\ ~Over(t, fb)'
      BY <1>1, <2>2, Zenon DEF Over, Covers
    <3>2. Files'[fb] = Files[fb]
      BY <1>1, <1>2, <3>1, SameAt, Zenon
    <3>. QED
      BY <2>2, <3>2, Zenon
  <2>. QED
    BY <2>1, <2>2, Zenon
<1>4. Files' = [fb \in Paths \X Blocks |-> IF Covers(t, fb) THEN Target(t, fb)' ELSE Files[fb]]
  <2>1. Files' = [fb \in Paths \X Blocks |-> Files'[fb]]
    BY Zenon DEF FilesShown
  <2>. QED
    BY <1>3, <2>1, Zenon
<1>5. \A fb : Covers(t, fb) <=> FS!InRange(fb, req[t])
  BY Zenon DEF Covers, FS!InRange
<1>6. \A fb : Target(t, fb)' = FS!Left(fb, req[t])
  <2>1. CASE pc[t] = "p3lock"
    <3>1. req[t].buf \in Payloads
      BY <2>1, Zenon DEF FileInv, BufferRight, WriteSteps, PlannedSteps, AllocatedSteps
    <3>2. req[t].buf # <<>>
      BY <3>1, PayloadsAssumption, Zenon
    <3>. QED
      BY <1>1, <2>1, <3>2, Zenon DEF Target, FS!Left
  <2>2. CASE pc[t] = "rmlock"
    <3>1. req[t].buf = <<>>
      BY <2>2, Zenon DEF RemovalsBare
    <3>. QED
      BY <1>1, <2>2, <3>1, Zenon DEF Target, FS!Left
  <2>. QED
    BY <1>1, <2>1, <2>2, Zenon
<1>7. Files' = [fb \in FS!AllBlocks |-> IF FS!InRange(fb, req[t]) THEN FS!Left(fb, req[t]) ELSE Files[fb]]
  BY <1>4, <1>5, <1>6, Zenon DEF FS!AllBlocks, Blocks
<1>8. Status[t] = "pending" /\ Status' = [Status EXCEPT ![t] = "done"]
  <2>1. pc[t] \in PendingSteps /\ pc'[t] \in AppliedSteps
    BY <1>1, Zenon DEF PendingSteps, AppliedSteps, WriteOver, RemoveOver
  <2>. QED
    BY <1>1, <1>2, <2>1, StatusStep, StatusValues, Zenon
<1>. QED
  BY <1>1, <1>7, <1>8, Zenon DEF FS!Effect

\* The loops under the write lock, whose blocks show what they will hold.
LEMMA LoopFiles ==
  ASSUME CollisionFree, TypeInv, AllLive, AllLive', ContentsRight, ContentsRight', FilesShown, FilesShown',
         NEW t \in Threads, PublishBlock(t) \/ MapBlock(t) \/ RmBlock(t)
  PROVE  Files' = Files
<1>1. TypeOK /\ (Start(t) \/ Step(t)) /\ req' = req
  BY Parts, Zenon DEF Step, PublishBlock, MapBlock, RmBlock, request
<1>2. \/ pc[t] \in WriteOver /\ pc'[t] \in WriteOver
      \/ /\ pc[t] \in RemoveOver /\ pc'[t] \in RemoveOver
         /\ pc[t] \notin WriteOver /\ pc'[t] \notin WriteOver
  <2>1. CASE PublishBlock(t)
    BY <1>1, <2>1, Parts, LoopStep, StepNames, Zenon DEF PublishBlock, WriteOver
  <2>2. CASE MapBlock(t)
    BY <1>1, <2>2, Parts, LoopStep, StepNames, Zenon DEF MapBlock, WriteOver
  <2>3. CASE RmBlock(t)
    <3>1. pc[t] = "remove" /\ pc'[t] \in {"remove", "rmunlock"}
      BY <1>1, <2>3, LoopStep, StepNames, Zenon DEF RmBlock
    <3>. QED
      BY <3>1, Zenon DEF WriteOver, RemoveOver
  <2>. QED
    BY <2>1, <2>2, <2>3, Zenon
<1>3. ASSUME NEW fb \in Paths \X Blocks
      PROVE  Files'[fb] = Files[fb]
  <2>1. (Over(t, fb)' <=> Over(t, fb)) /\ Target(t, fb)' = Target(t, fb)
    BY <1>1, <1>2, Zenon DEF Over, Covers, Target
  <2>2. Over(t, fb) \/ file_to_master'[fb] = file_to_master[fb]
    <3>1. CASE fb = FileBlock(t) /\ pc[t] \in {"map", "remove"}
      <4>1. /\ req[t].start \in Nat /\ req[t].count \in Nat /\ blk[t] \in Nat /\ 0 < blk[t] /\ blk[t] <= req[t].count
        BY <3>1, Parts, LocalTypes, Zenon DEF LoopShape, LoopSteps
      <4>2. Covers(t, fb)
        BY <3>1, <4>1 DEF Covers, FileBlock
      <4>. QED
        BY <1>2, <4>2, Zenon DEF Over
    <3>2. CASE ~(fb = FileBlock(t) /\ pc[t] \in {"map", "remove"})
      <4>1. (MapBlock(t) \/ RmBlock(t)) => pc[t] \in {"map", "remove"}
        BY Zenon DEF MapBlock, RmBlock
      <4>. QED
        BY <1>1, <3>2, <4>1, MappingSteps, Zenon
    <3>. QED
      BY <3>1, <3>2, Zenon
  <2>. QED
    BY <1>1, <2>1, <2>2, SameAt, Zenon
<1>. QED
  BY <1>3, SameFiles, Zenon

\* Every other step of a thread changes nothing that the files show.
LEMMA UntouchedFiles ==
  ASSUME CollisionFree, TypeInv, AllLive, AllLive', ContentsRight, ContentsRight', FilesShown, FilesShown',
         NEW t \in Threads, Start(t) \/ Step(t), ~MapBlock(t), ~RmBlock(t),
         pc[t] \notin WriteOver \cup RemoveOver, pc'[t] \notin WriteOver \cup RemoveOver
  PROVE  Files' = Files
<1>1. file_to_master' = file_to_master
  BY MappingSteps, Zenon
<1>2. ASSUME NEW fb \in Paths \X Blocks
      PROVE  Files'[fb] = Files[fb]
  <2>1. ~Over(t, fb) /\ ~Over(t, fb)'
    BY Zenon DEF Over
  <2>. QED
    BY <1>1, <2>1, SameAt, Zenon
<1>. QED
  BY <1>2, SameFiles, Zenon

\* The steps that neither begin nor end with mappings under change.
LEMMA UntouchedSteps ==
  ASSUME TypeInv, NEW t \in Threads,
         Start(t) \/ P1Lock(t) \/ P1Hit(t) \/ P1Take(t) \/ P1Miss(t) \/ P1Unlock(t) \/ Drain(t) \/ AppendSlots(t)
         \/ FlushRun(t) \/ FlushFail(t) \/ P3Release(t) \/ RbLock(t) \/ RbHit(t) \/ RbUnlock(t) \/ RbRelease(t)
         \/ RbMisses(t) \/ RmRelease(t) \/ SetSize(t)
  PROVE  pc[t] \notin WriteOver \cup RemoveOver /\ pc'[t] \notin WriteOver \cup RemoveOver
<1>1. TypeOK /\ DOMAIN pc = Threads
  BY Parts, Zenon DEF TypeOK
<1>2. CASE Start(t)
  BY <1>1, <1>2, Zenon DEF Start, StartWrite, StartUnlink, StartTruncate, Arrive, Goto, WriteOver, RemoveOver
<1>3. CASE P1Lock(t) \/ P1Hit(t) \/ P1Unlock(t) \/ Drain(t) \/ AppendSlots(t) \/ FlushFail(t)
  BY <1>1, <1>3, Zenon DEF P1Lock, P1Hit, P1Unlock, Drain, AppendSlots, FlushFail, AfterFailure, Goto, WriteOver, RemoveOver
<1>4. CASE P3Release(t) \/ RbLock(t) \/ RbUnlock(t) \/ RbRelease(t) \/ RbMisses(t) \/ RmRelease(t) \/ SetSize(t)
  BY <1>1, <1>4, Zenon DEF P3Release, RbLock, RbUnlock, RbRelease, RbMisses, RmRelease, SetSize, Return, Goto,
                           WriteOver, RemoveOver
<1>5. CASE FlushRun(t)
  BY <1>1, <1>5, Zenon DEF FlushRun, Goto, WriteOver, RemoveOver
<1>6. CASE P1Take(t) \/ P1Miss(t)
  BY <1>1, <1>6, Zenon DEF P1Take, P1Miss, NextBlock, Goto, WriteOver, RemoveOver
<1>7. CASE RbHit(t)
  BY <1>1, <1>7, Zenon DEF RbHit, NextBlock, Goto, WriteOver, RemoveOver
<1>. QED
  BY <1>2, <1>3, <1>4, <1>5, <1>6, <1>7, Zenon

\* A request arrives.
LEMMA StartImplements ==
  ASSUME TypeInv, NEW t \in Threads, Start(t), Files' = Files
  PROVE  FS!Begin(t)
<1>1. TypeOK /\ DOMAIN pc = Threads /\ pc[t] = "idle" /\ BoundsAssumption
  BY Parts, BoundsAssumption, Zenon DEF TypeOK, Start, StartWrite, StartUnlink, StartTruncate, Arrive
<1>2. Status[t] = "idle" /\ Status' = [Status EXCEPT ![t] = StatusAt(pc'[t])]
  BY <1>1, StatusStep, StatusValues, Zenon
<1>3. PICK r \in FS!Writes \cup FS!Removals :
        /\ r.start + r.count <= MaxBlocks /\ req' = [req EXCEPT ![t] = r]
        /\ StatusAt(pc'[t]) = IF r.count = 0 THEN "done" ELSE "pending"
  <2>1. CASE StartWrite(t)
    <3>1. PICK p \in Paths, s \in Blocks, d \in Payloads :
            /\ s + Len(d) <= MaxBlocks
            /\ Arrive(t, [op |-> "write", path |-> p, start |-> s, count |-> Len(d), buf |-> d], "p1lock")
      BY <2>1, Zenon DEF StartWrite
    <3>. DEFINE r == [op |-> "write", path |-> p, start |-> s, count |-> Len(d), buf |-> d]
    <3>2. r \in FS!Writes
      BY DEF FS!Writes, Blocks
    <3>3. Len(d) # 0
      BY PayloadsAssumption
    <3>4. StatusAt(pc'[t]) = "pending"
      BY <1>1, <3>1, StatusValues, Zenon DEF Arrive, Goto, PendingSteps
    <3>5. req' = [req EXCEPT ![t] = r]
      BY <3>1, Zenon DEF Arrive
    <3>6. r.start + r.count <= MaxBlocks /\ r.count # 0
      BY <3>1, <3>3, Zenon
    <3>. QED
      BY <3>2, <3>4, <3>5, <3>6, Zenon
  <2>2. CASE StartUnlink(t)
    <3>1. PICK p \in Paths :
            /\ file_to_sizes[p] # NULL
            /\ Arrive(t, [op |-> "unlink", path |-> p, start |-> 0, count |-> file_to_sizes[p], buf |-> <<>>],
                      IF file_to_sizes[p] > 0 THEN "rmlock" ELSE "setsize")
      BY <2>2, Zenon DEF StartUnlink
    <3>. DEFINE n == file_to_sizes[p]
                r == [op |-> "unlink", path |-> p, start |-> 0, count |-> n, buf |-> <<>>]
    <3>2. n \in 0 .. MaxBlocks
      BY <1>1, <3>1, Zenon DEF TypeOK
    <3>3. 0 \in 0 .. MaxBlocks /\ 0 + n <= MaxBlocks /\ (n > 0 <=> n # 0)
      BY <3>2, BoundsAssumption
    <3>4. r \in FS!Removals
      BY <3>2, <3>3 DEF FS!Removals
    <3>5. StatusAt(pc'[t]) = IF n = 0 THEN "done" ELSE "pending"
      BY <1>1, <3>1, <3>3, StatusValues, Zenon DEF Arrive, Goto, PendingSteps, AppliedSteps
    <3>6. req' = [req EXCEPT ![t] = r]
      BY <3>1, Zenon DEF Arrive
    <3>7. r.start + r.count <= MaxBlocks /\ r.count = n
      BY <3>3
    <3>. QED
      BY <3>3, <3>4, <3>5, <3>6, <3>7, Zenon
  <2>3. CASE StartTruncate(t)
    <3>1. PICK p \in Paths, size \in Blocks :
            /\ file_to_sizes[p] # NULL /\ size < file_to_sizes[p]
            /\ Arrive(t, [op |-> "truncate", path |-> p, start |-> size,
                          count |-> file_to_sizes[p] - size, buf |-> <<>>], "rmlock")
      BY <2>3, Zenon DEF StartTruncate
    <3>. DEFINE n == file_to_sizes[p] - size
                r == [op |-> "truncate", path |-> p, start |-> size, count |-> n, buf |-> <<>>]
    <3>2. file_to_sizes[p] \in 0 .. MaxBlocks
      BY <1>1, <3>1, Zenon DEF TypeOK
    <3>3. size \in 0 .. MaxBlocks /\ n \in 0 .. MaxBlocks /\ size + n <= MaxBlocks /\ n # 0
      BY <3>1, <3>2, BoundsAssumption DEF Blocks
    <3>4. r \in FS!Removals
      BY <3>3 DEF FS!Removals
    <3>5. StatusAt(pc'[t]) = "pending"
      BY <1>1, <3>1, StatusValues, Zenon DEF Arrive, Goto, PendingSteps
    <3>6. req' = [req EXCEPT ![t] = r]
      BY <3>1, Zenon DEF Arrive
    <3>7. r.start + r.count <= MaxBlocks /\ r.count = n
      BY <3>3
    <3>. QED
      BY <3>3, <3>4, <3>5, <3>6, <3>7, Zenon
  <2>. QED
    BY <2>1, <2>2, <2>3, Zenon DEF Start
<1>. QED
  BY <1>2, <1>3, Zenon DEF FS!Begin

\* A pwrite fails, or a request returns.
LEMMA EndImplements ==
  ASSUME TypeInv, FileInv, NEW t \in Threads, FlushFail(t) \/ P3Release(t) \/ RbMisses(t) \/ SetSize(t),
         Files' = Files
  PROVE  FS!Fail(t) \/ FS!End(t)
<1>1. TypeOK /\ DOMAIN pc = Threads /\ (Start(t) \/ Step(t))
  BY Parts, Zenon DEF TypeOK, Step
<1>2. Status[t] = StatusAt(pc[t]) /\ Status' = [Status EXCEPT ![t] = StatusAt(pc'[t])]
  BY <1>1, StatusStep, Zenon
<1>3. CASE FlushFail(t)
  <2>1. pc[t] = "flush" /\ pc'[t] = "rblock" /\ req' = req /\ WithIOError
    BY <1>1, <1>3, Zenon DEF FlushFail, AfterFailure, Goto, request
  <2>2. req[t].buf \in Payloads
    BY <2>1, Zenon DEF FileInv, BufferRight, WriteSteps, PlannedSteps, AllocatedSteps
  <2>3. req[t].buf # <<>>
    BY <2>2, PayloadsAssumption, Zenon
  <2>4. StatusAt(pc[t]) = "pending" /\ StatusAt(pc'[t]) = "failed"
    BY <2>1, StatusValues, Zenon DEF PendingSteps, FailedSteps
  <2>. QED
    BY <1>2, <2>1, <2>3, <2>4, Zenon DEF FS!Fail
<1>4. CASE P3Release(t) \/ RbMisses(t) \/ SetSize(t)
  <2>1. /\ pc[t] \in {"p3release", "rbmisses", "setsize"} /\ pc'[t] = "idle"
        /\ req' = [req EXCEPT ![t] = FS!NoRequest]
    BY <1>1, <1>4, Zenon DEF P3Release, RbMisses, SetSize, Return, Goto, NoRequest, FS!NoRequest
  <2>2. StatusAt(pc[t]) \in {"done", "failed"} /\ StatusAt(pc'[t]) = "idle"
    BY <2>1, StatusValues, Zenon DEF AppliedSteps, FailedSteps
  <2>. QED
    BY <1>2, <2>1, <2>2, Zenon DEF FS!End
<1>. QED
  BY <1>3, <1>4, Zenon

\* Every step of Dedup is one of FileStore, or none.
LEMMA NextImplements ==
  ASSUME CollisionFree, TypeInv, RefInv, PublishedOnDisk, FileInv, RemovalsBare, TypeInv', RefInv', PublishedOnDisk',
         [Next]_vars
  PROVE  [FS!Next]_(FS!vars)
<1>1. AllLive /\ AllLive' /\ ContentsRight /\ ContentsRight' /\ FilesShown /\ FilesShown'
  BY LiveNow, LiveNext, ContentNow, ContentNext, ShownNow, ShownNext, Zenon
<1>2. ASSUME Remount \/ Wait \/ UNCHANGED vars
      PROVE  UNCHANGED FS!vars
  <2>1. UNCHANGED <<file_to_master, info, masterFILE, wrlock, pc, req>>
    BY <1>2, Zenon DEF Remount, Wait, vars, index, store, lock, request
  <2>2. \A fb \in Paths \X Blocks : Files'[fb] = Files[fb]
    BY <2>1, Zenon DEF Files, FileContent, Covers
  <2>3. Files' = Files
    BY <1>1, <2>2, SameFiles, Zenon
  <2>4. Status' = Status
    BY <2>1, Zenon DEF Status
  <2>. QED
    BY <2>1, <2>3, <2>4, Zenon DEF FS!vars
<1>3. ASSUME NEW t \in Threads, Start(t) \/ Step(t)
      PROVE  \/ FS!Begin(t) \/ FS!Effect(t) \/ FS!Fail(t) \/ FS!End(t)
             \/ Files' = Files /\ req' = req /\ Status' = Status
  <2>t. TypeOK
    BY Parts, Zenon
  <2>1. CASE P3Lock(t) \/ RmLock(t)
    BY <1>1, <2>1, LockFiles, Zenon
  <2>2. CASE P3Unlock(t) \/ RmUnlock(t) \/ PublishBlock(t) \/ MapBlock(t) \/ RmBlock(t)
    <3>1. Files' = Files
      BY <1>1, <2>2, UnlockFiles, LoopFiles, Zenon
    <3>2. req' = req /\ StatusAt(pc'[t]) = StatusAt(pc[t])
      BY <2>t, <2>2, AppliedStays, StatusValues, Zenon
    <3>. QED
      BY <1>3, <2>t, <3>1, <3>2, StatusStep, Zenon
  <2>3. ASSUME \/ Start(t) \/ P1Lock(t) \/ P1Hit(t) \/ P1Take(t) \/ P1Miss(t) \/ P1Unlock(t) \/ Drain(t)
               \/ AppendSlots(t) \/ FlushRun(t) \/ FlushFail(t) \/ P3Release(t) \/ RbLock(t) \/ RbHit(t)
               \/ RbUnlock(t) \/ RbRelease(t) \/ RbMisses(t) \/ RmRelease(t) \/ SetSize(t)
        PROVE  Files' = Files
    <3>1. pc[t] \notin WriteOver \cup RemoveOver /\ pc'[t] \notin WriteOver \cup RemoveOver
      BY <2>3, UntouchedSteps, Zenon
    <3>2. ~MapBlock(t) /\ ~RmBlock(t)
      BY <3>1, Zenon DEF MapBlock, RmBlock, WriteOver, RemoveOver
    <3>. QED
      BY <1>1, <1>3, <3>1, <3>2, UntouchedFiles, Zenon
  <2>4. CASE Start(t)
    BY <2>3, <2>4, StartImplements, Zenon
  <2>5. CASE FlushFail(t) \/ P3Release(t) \/ RbMisses(t) \/ SetSize(t)
    BY <2>3, <2>5, EndImplements, Zenon
  <2>6. CASE \/ P1Lock(t) \/ P1Hit(t) \/ P1Take(t) \/ P1Miss(t) \/ P1Unlock(t) \/ Drain(t) \/ AppendSlots(t)
             \/ FlushRun(t) \/ RbLock(t) \/ RbHit(t) \/ RbUnlock(t) \/ RbRelease(t) \/ RmRelease(t)
    <3>1. req' = req /\ StatusAt(pc'[t]) = StatusAt(pc[t])
      BY <2>t, <2>6, PendingStays, FailedStays, AppliedStays, StatusValues, Zenon
    <3>. QED
      BY <1>3, <2>t, <2>3, <2>6, <3>1, StatusStep, Zenon
  <2>. QED
    BY <1>3, <2>1, <2>2, <2>4, <2>5, <2>6, Zenon DEF Step
<1>. QED
  BY <1>2, <1>3, Zenon DEF Next, FS!Next, FS!vars

\* All files are empty at first, and nobody is at work.
LEMMA InitImplements == Init => FS!Init /\ RemovalsBare
<1>. SUFFICES ASSUME Init
              PROVE  /\ Files = [fb \in FS!AllBlocks |-> NULL] /\ req = [t \in Threads |-> FS!NoRequest]
                     /\ Status = [t \in Threads |-> "idle"] /\ RemovalsBare
  BY Zenon DEF FS!Init
<1>1. /\ wrlock = NULL /\ \A fb \in Paths \X Blocks : file_to_master[fb] = NULL
      /\ req = [t \in Threads |-> NoRequest] /\ \A t \in Threads : pc[t] = "idle"
  BY Zenon DEF Init
<1>2. \A fb \in Paths \X Blocks : Files[fb] = NULL
  BY <1>1, Zenon DEF Files, FileContent
<1>3. Files = [fb \in Paths \X Blocks |-> Files[fb]]
  BY Zenon DEF Files
<1>4. Files = [fb \in FS!AllBlocks |-> NULL]
  BY <1>2, <1>3, Zenon DEF FS!AllBlocks, Blocks
<1>5. Status = [t \in Threads |-> "idle"]
  BY <1>1, StatusValues, Zenon DEF Status
<1>6. RemovalsBare
  BY <1>1, Zenon DEF RemovalsBare
<1>. QED
  BY <1>1, <1>4, <1>5, <1>6, Zenon DEF NoRequest, FS!NoRequest

-----------------------------------------------------------------------------
(* The laws the steps are proved from. *)

\* A non-empty set of naturals has a least element, so Min picks a member.
LEMMA MinMember ==
  ASSUME NEW S \in SUBSET Nat, S # {}
  PROVE  Min(S) \in S /\ \A y \in S : Min(S) <= y
<1>. DEFINE R == {ss \in Nat \X Nat : ss[1] < ss[2]}
<1>1. IsWellFoundedOn(R, Nat)
  BY NatLessThanWellFounded DEF OpToRel
<1>. HIDE DEF R
<1>2. PICK x \in S : \A y \in S : ~(<<y, x>> \in R)
  BY <1>1, WFMin, Zenon
<1>3. ASSUME NEW y \in S PROVE x <= y
  <2>1. ~(<<y, x>> \in R)
    BY <1>2
  <2>2. y \in Nat /\ x \in Nat
    OBVIOUS
  <2>3. <<y, x>> \in R <=> y < x
    BY <2>2, Zenon DEF R
  <2>. QED
    BY <2>1, <2>2, <2>3
<1>. QED
  BY <1>3, Zenon DEF Min

\* A non-empty bounded set of naturals has a greatest element.
LEMMA MaxMember ==
  ASSUME NEW S \in SUBSET Nat, S # {}, NEW n \in Nat, \A y \in S : y <= n
  PROVE  Max(S) \in S /\ \A y \in S : y <= Max(S)
<1>. DEFINE T == {n - y : y \in S}
<1>1. T \in SUBSET Nat
  OBVIOUS
<1>a. T # {}
  <2>1. PICK s \in S : TRUE
    BY Zenon
  <2>2. n - s \in T
    BY <2>1
  <2>. QED
    BY <2>2
<1>2. Min(T) \in T /\ \A z \in T : Min(T) <= z
  BY <1>1, <1>a, MinMember, Zenon
<1>3. PICK x \in S : \A y \in S : n - x <= n - y
  BY <1>2, Zenon
<1>4. \A y \in S : x >= y
  BY <1>3
<1>. QED
  BY <1>4, Zenon DEF Max

\* The laws of least and greatest elements hold.
LEMMA MinMaxHold == MinMaxLaws
  BY MinMember, MaxMember, Zenon DEF MinMaxLaws

\* The pairs the indexes and the plans range over are finitely many: finitely
\* many files and threads, blocks up to a bound.
LEMMA CountingHolds == CountingLaws
<1>1. IsFiniteSet(Blocks) /\ IsFiniteSet(1 .. MaxBlocks)
  BY FS_Interval, BoundsAssumption DEF Blocks
<1>2. IsFiniteSet(Paths \X Blocks) /\ IsFiniteSet(Threads \X (1 .. MaxBlocks))
  BY <1>1, FS_Product, FiniteAssumption, Zenon
<1>3. \A S : IsFiniteSet(S) =>
             /\ Cardinality(S) \in Nat
             /\ Cardinality(S) = 0 <=> S = {}
             /\ Cardinality(S) = 1 <=> \E x : S = {x}
  BY FS_CardinalityType, FS_EmptySet, FS_Singleton, Zenon
<1>4. \A S, x : IsFiniteSet(S) /\ x \notin S => Cardinality(S \cup {x}) = Cardinality(S) + 1
  BY FS_AddElement, Zenon
<1>5. \A S, x : IsFiniteSet(S) /\ x \in S => Cardinality(S \ {x}) = Cardinality(S) - 1
  BY FS_RemoveElement, Zenon
<1>6. /\ \A S \in SUBSET (Paths \X Blocks) : IsFiniteSet(S)
      /\ \A S \in SUBSET (Threads \X (1 .. MaxBlocks)) : IsFiniteSet(S)
  BY <1>2, FS_Subset, Zenon
<1>. QED
  BY <1>3, <1>4, <1>5, <1>6, Zenon DEF CountingLaws

-----------------------------------------------------------------------------
(* The theorems. *)

\* The types, the lock discipline and the shape of the locals of every thread
\* hold in every state, whatever the number of threads, files and blocks.
THEOREM TypeInvariance == Spec => []TypeInv
<1>1. TypeInv /\ [Next]_vars => TypeInv'
  BY MinMaxHold, NextTypeInv, Zenon
<1>. QED
  BY <1>1, InitTypeInv, PTL DEF Spec

\* The index, the storage and the locals keep their types: no lookup leaves
\* its table, no slot of master_blks[] is read past its end.
THEOREM TypeCorrectness == Spec => []TypeOK
<1>1. TypeInv => TypeOK
  BY Zenon DEF TypeInv
<1>. QED
  BY <1>1, TypeInvariance, PTL

\* metadata_rwlock excludes: no thread changes the index while another one
\* changes it or looks something up in it.
THEOREM Exclusion == Spec => []MutualExclusion
<1>1. TypeInv => MutualExclusion
  BY NullAssumption DEF TypeInv, LockInv, MutualExclusion
<1>. QED
  BY <1>1, TypeInvariance, PTL

\* The references: RefcountExact and OneInfoPerHash with the pointers of every
\* plan in flight, when no request writes the same block twice.
THEOREM RefInvariance ==
  ASSUME DistinctPayloads
  PROVE  Spec => []RefInv
<1>1. Init => RefInv
  BY CountingHolds, InitRefs, Zenon
<1>2. TypeInv /\ RefInv /\ [Next]_vars => RefInv'
  BY CountingHolds, NextRefs, Zenon
<1>. QED
  BY <1>1, <1>2, TypeInvariance, PTL DEF Spec

\* The refcount of a MasterInfo is the number of blocks and plans that point to
\* it, between any two steps of any threads, and it is freed with the last one:
\* no pointer dangles and no MasterInfo leaks.
THEOREM ReferencesCounted ==
  ASSUME DistinctPayloads
  PROVE  Spec => []RefcountExact
<1>1. RefInv => RefcountExact
  BY Zenon DEF RefInv
<1>. QED
  BY <1>1, RefInvariance, PTL

\* Every mapped block points to the one MasterInfo that the index has for its
\* digest: two writes that race with the same new block end up sharing it.
THEOREM IndexHasNoDuplicates ==
  ASSUME DistinctPayloads
  PROVE  Spec => []OneInfoPerHash
<1>1. RefInv => OneInfoPerHash
  BY Zenon DEF RefInv
<1>. QED
  BY <1>1, RefInvariance, PTL

\* The slots of masterFILE: who holds each of them, where a plan in flight will
\* put its blocks and what has reached the disk, when no request writes the same
\* block twice and no remount follows a failed write.
THEOREM SlotInvariance ==
  ASSUME DistinctPayloads, ~(WithIOError /\ WithRemount)
  PROVE  Spec => []SlotInv
<1>1. Init => SlotInv
  BY InitSlots, Zenon
<1>2. TypeInv /\ RefInv /\ SlotInv /\ [Next]_vars => SlotInv'
  BY MinMaxHold, CountingHolds, NextSlots, Zenon
<1>. QED
  BY <1>1, <1>2, TypeInvariance, RefInvariance, PTL DEF Spec

\* Every slot below the append point has exactly one owner between any two
\* steps of any threads: allocate_batch_storage_first hands none out twice, and
\* the releases and the rollback lose none.
THEOREM SlotsHaveOneOwner ==
  ASSUME DistinctPayloads, ~(WithIOError /\ WithRemount)
  PROVE  Spec => []OneOwnerPerSlot
<1>1. TypeInv /\ SlotInv => OneOwnerPerSlot
  <2>. SUFFICES ASSUME TypeInv, SlotInv, NEW s \in 0 .. nextBlockIndex - 1
                PROVE  Cardinality(Owners(s)) = 1
    BY Zenon DEF OneOwnerPerSlot
  <2>1. PICK x : Owners(s) = {x}
    BY OneOwner, Zenon
  <2>. QED
    BY <2>1, FS_Singleton, Zenon
<1>. QED
  BY <1>1, SlotInvariance, TypeInvariance, PTL

\* A slot of the free list is below the append point, so no slot is handed out
\* both by the free list and by fetch_add on nextBlockIndex.
THEOREM FreeListBelowAppendPoint ==
  ASSUME DistinctPayloads, ~(WithIOError /\ WithRemount)
  PROVE  Spec => []NoDoubleAllocation
<1>1. TypeInv /\ SlotInv => NoDoubleAllocation
  BY FreeBelow, Zenon
<1>. QED
  BY <1>1, SlotInvariance, TypeInvariance, PTL

\* publish_plan enters a block in hash_to_master only after flush_plan wrote it,
\* and nothing overwrites its slot while it is there: a reader that finds the
\* digest finds the content.
THEOREM PublishedAfterFlush ==
  ASSUME DistinctPayloads, ~(WithIOError /\ WithRemount)
  PROVE  Spec => []PublishedOnDisk
<1>1. SlotInv => PublishedOnDisk
  BY Zenon DEF SlotInv, Stored
<1>. QED
  BY <1>1, SlotInvariance, PTL

\* With the inode lock of the kernel and writes that leave no hole, exactly
\* the blocks below the logical size of a file at rest are mapped: read_dedup
\* may take a failed lookup for the end of the file, and unlink forgets none.
THEOREM MappingsMatchSizes ==
  ASSUME SerialPaths, ~WithHoles
  PROVE  Spec => []MappedBelowSize
<1>1. SizeInv => MappedBelowSize
  BY Zenon DEF SizeInv, MappedBelowSize, Mapped, Below
<1>2. TypeInv /\ SizeInv /\ [Next]_vars => SizeInv'
  BY NextSizeInv, Zenon
<1>. QED
  BY <1>1, <1>2, InitSizeInv, TypeInvariance, PTL DEF Spec

\* Through all passes, races, rollbacks and slot reuse the files change exactly
\* as FileStore says: each request replaces the blocks it names by what it
\* carries, in one step between its arrival and its return, at the moment Passe 3
\* or remove_blocks_dedup_batch gets the write lock; a write whose pwrite failed
\* replaces none, and nothing else changes any block.  No digest stands for two
\* contents, no request writes the same block twice and no remount follows a
\* failed write.
THEOREM ImplementsFiles ==
  ASSUME CollisionFree, DistinctPayloads, ~(WithIOError /\ WithRemount)
  PROVE  Spec => ImplementsFileStore
<1>1. TypeInv /\ RefInv /\ TypeInv' /\ RefInv' /\ FileInv /\ [Next]_vars => FileInv'
  BY NextFiles, Zenon
<1>2. Spec => []FileInv
  BY <1>1, InitFiles, TypeInvariance, RefInvariance, PTL DEF Spec
<1>3. TypeInv /\ RemovalsBare /\ [Next]_vars => RemovalsBare'
  BY NextBare, Zenon DEF TypeInv
<1>4. Spec => []RemovalsBare
  BY <1>3, InitImplements, TypeInvariance, PTL DEF Spec
<1>5. TypeInv /\ RefInv /\ PublishedOnDisk /\ FileInv /\ RemovalsBare /\ TypeInv' /\ RefInv' /\ PublishedOnDisk'
      /\ [Next]_vars => [FS!Next]_(FS!vars)
  BY NextImplements, Zenon
<1>. QED
  BY <1>2, <1>4, <1>5, InitImplements, TypeInvariance, RefInvariance, PublishedAfterFlush, PTL
     DEF Spec, ImplementsFileStore, FS!Spec

=============================================================================
