------------------------------- MODULE Dedup -------------------------------
(***************************************************************************)
(* The deduplication engine of src/dedup.c over the index of               *)
(* src/metaindex.c: the three-pass write_dedup with its rollback, and      *)
(* remove_blocks_dedup_batch as xmp_unlink and xmp_truncate call it.       *)
(* A thread of the FUSE pool serves one request at a time.                 *)
(*                                                                         *)
(* metadata_rwlock is modelled explicitly and a loop that runs under it    *)
(* takes one step per block.  A section under freelist_mutex touches only  *)
(* free_block_list and locals of its thread, so it is one step.            *)
(* Blocks, sizes and offsets count in units of BLOCK_SIZE.                 *)
(***************************************************************************)
EXTENDS Integers, Sequences, FiniteSets, FiniteSetsExt

CONSTANTS
  Threads,       \* threads that serve write, unlink and truncate
  Readers,       \* threads that serve read; here only holders of the lock
  Paths,         \* names of files
  Contents,      \* what a block can hold
  Hashes,        \* SHA-512 digests
  HashOf,        \* the digest of each content
  InfoIds,       \* heap addresses a MasterInfo can get
  NULL,          \* the null pointer, an absent entry, a block never written
  MaxBlocks,     \* bound: blocks of one file
  MaxRequests,   \* bound: requests that arrive
  Payloads,      \* bound: the buffers a write request carries
  WithRemoval,   \* whether unlink and truncate requests arrive
  WithHoles,     \* whether a write may start beyond the end of its file
  WithIOError,   \* whether a pwrite on masterFILE may fail
  WithRemount,   \* whether the file system is unmounted and mounted again
  SerialPaths    \* whether the kernel serialises the changes of one file

ASSUME HashOfAssumption == HashOf \in [Contents -> Hashes]
ASSUME NullAssumption == NULL \notin InfoIds \cup Hashes \cup Contents \cup Threads \cup Paths \cup Int
ASSUME FiniteAssumption == IsFiniteSet(Threads) /\ IsFiniteSet(Paths)
ASSUME BoundsAssumption == MaxBlocks \in Nat /\ MaxRequests \in Nat
ASSUME PayloadsAssumption == Payloads \subseteq Seq(Contents) \ {<<>>}
ASSUME ReadersAssumption == Readers \cap Threads = {}
ASSUME SwitchesAssumption ==
  /\ WithRemoval \in BOOLEAN /\ WithHoles \in BOOLEAN
  /\ WithIOError \in BOOLEAN /\ WithRemount \in BOOLEAN
  /\ SerialPaths \in BOOLEAN

VARIABLES
  hash_to_master,    \* Index: digest -> MasterInfo* or NULL
  file_to_master,    \* Index: <<path, block>> -> MasterInfo* or NULL
  file_to_sizes,     \* Index: path -> logical size or NULL
  info,              \* the MasterInfo at each heap address
  free_block_list,   \* Index: the LIFO list of free slots
  nextBlockIndex,    \* Context: where the next append goes
  masterFILE,        \* the blocks of /masterFILE; slot s is masterFILE[s+1]
  rdlock, wrlock,    \* metadata_rwlock: its readers, and its writer or NULL
  arrived,           \* how many requests have arrived
  pc, req, blk,      \* per thread: step, request, loop counter
  plan,              \* per thread: plan[] of write_dedup
  miss_count,        \* per thread: miss_count of write_dedup
  out,               \* per thread: master_blks[] of write_dedup
  rel                \* per thread: the local list of slots to release

index == <<hash_to_master, file_to_master, info>>
store == <<free_block_list, nextBlockIndex, masterFILE>>
lock == <<rdlock, wrlock>>
request == <<req, arrived>>
vars == <<index, file_to_sizes, store, lock, request, pc, blk, plan, miss_count, out, rel>>

Blocks == 0 .. MaxBlocks - 1

\* A MasterInfo.  A freed address keeps no hash.
MasterInfo == [hash : Hashes \cup {NULL}, masterBlockIndex : Nat, refcount : Int]
Freed == [hash |-> NULL, masterBlockIndex |-> 0, refcount |-> 0]
Live(m) == info[m].hash # NULL

\* rank is the position of a MISS among the MISSes of the plan: the counter m
\* that hands out master_blks[] after the allocation.
PlanEntry == [kind : {"HIT", "MISS"}, info : InfoIds, rank : Nat]
Misses(t) == {j \in DOMAIN plan[t] : plan[t][j].kind = "MISS"}
MasterBlk(t, j) == out[t][plan[t][j].rank]

NoRequest == [op |-> "none", path |-> NULL, start |-> 0, count |-> 0, buf |-> <<>>]

Init ==
  /\ hash_to_master = [h \in Hashes |-> NULL]
  /\ file_to_master = [fb \in Paths \X Blocks |-> NULL]
  /\ file_to_sizes = [p \in Paths |-> NULL]
  /\ info = [m \in InfoIds |-> Freed]
  /\ free_block_list = <<>>
  /\ nextBlockIndex = 0
  /\ masterFILE = <<>>
  /\ rdlock = {} /\ wrlock = NULL
  /\ arrived = 0
  /\ pc = [t \in Threads |-> "idle"]
  /\ req = [t \in Threads |-> NoRequest]
  /\ blk = [t \in Threads |-> 1]
  /\ plan = [t \in Threads |-> <<>>]
  /\ miss_count = [t \in Threads |-> 0]
  /\ out = [t \in Threads |-> <<>>]
  /\ rel = [t \in Threads |-> <<>>]

-----------------------------------------------------------------------------
(* Steps shared by the operations. *)

Goto(t, step) == pc' = [pc EXCEPT ![t] = step]

\* A for loop over the blocks of the request: again for the next one, or after.
NextBlock(t, again, after) ==
  IF blk[t] < req[t].count
  THEN blk' = [blk EXCEPT ![t] = @ + 1] /\ Goto(t, again)
  ELSE blk' = [blk EXCEPT ![t] = 1] /\ Goto(t, after)

RdLock(t) == wrlock = NULL /\ rdlock' = rdlock \cup {t} /\ UNCHANGED wrlock
RdUnlock(t) == rdlock' = rdlock \ {t} /\ UNCHANGED wrlock
WrLockDespiteReaders(t) == wrlock = NULL /\ wrlock' = t /\ UNCHANGED rdlock
WrLock(t) == wrlock = NULL /\ rdlock = {} /\ wrlock' = t /\ UNCHANGED rdlock
WrUnlock(t) == wrlock' = NULL /\ UNCHANGED rdlock

\* The file block that the loop is at.
FileBlock(t) == <<req[t].path, req[t].start + blk[t] - 1>>

\* __atomic_fetch_sub of a reference and, when it was the last one, the
\* cleanup: slot to the local list, hash out of the index, MasterInfo freed.
DropReference(t, m) ==
  IF info[m].refcount = 1
  THEN /\ rel' = [rel EXCEPT ![t] = <<info[m].masterBlockIndex>> \o @]
       /\ hash_to_master' = [hash_to_master EXCEPT ![info[m].hash] = NULL]
       /\ info' = [info EXCEPT ![m] = Freed]
  ELSE /\ info' = [info EXCEPT ![m].refcount = @ - 1]
       /\ UNCHANGED <<rel, hash_to_master>>

\* The local list goes in front of the free list, under freelist_mutex.
ReleaseSlots(t) ==
  /\ free_block_list' = rel[t] \o free_block_list
  /\ rel' = [rel EXCEPT ![t] = <<>>]

Return(t) ==
  /\ Goto(t, "idle")
  /\ req' = [req EXCEPT ![t] = NoRequest]
  /\ blk' = [blk EXCEPT ![t] = 1]
  /\ plan' = [plan EXCEPT ![t] = <<>>]
  /\ miss_count' = [miss_count EXCEPT ![t] = 0]
  /\ out' = [out EXCEPT ![t] = <<>>]

\* A request arrives.  The kernel holds the inode lock of a file for write,
\* truncate and unlink, which SerialPaths stands for.
Arrive(t, r, step) ==
  /\ pc[t] = "idle"
  /\ arrived < MaxRequests
  /\ SerialPaths => \A u \in Threads : req[u].path # r.path
  /\ arrived' = arrived + 1
  /\ req' = [req EXCEPT ![t] = r]
  /\ Goto(t, step)

\* What the index and masterFILE say a file block holds; nothing past the end.
FileContent(fb) ==
  LET m == file_to_master[fb]
  IN  IF m # NULL /\ info[m].masterBlockIndex < Len(masterFILE)
      THEN masterFILE[info[m].masterBlockIndex + 1] ELSE NULL

SizeOf(p) == IF file_to_sizes[p] = NULL THEN 0 ELSE file_to_sizes[p]

-----------------------------------------------------------------------------
(* write_dedup. *)

\* A write of a non-empty, aligned buffer; other sizes return at once.
StartWrite(t) ==
  /\ \E p \in Paths, s \in Blocks, d \in Payloads :
       /\ s + Len(d) <= MaxBlocks
       /\ WithHoles \/ s <= SizeOf(p)
       /\ Arrive(t, [op |-> "write", path |-> p, start |-> s, count |-> Len(d), buf |-> d], "p1lock")
  /\ UNCHANGED <<index, file_to_sizes, store, lock, blk, plan, miss_count, out, rel>>

P1Lock(t) ==
  /\ pc[t] = "p1lock"
  /\ RdLock(t)
  /\ Goto(t, "p1")
  /\ UNCHANGED <<index, file_to_sizes, store, request, blk, plan, miss_count, out, rel>>

\* The index first, then pending_hashes: the MISSes of this batch.
Existing(t, h) ==
  LET pending == {j \in Misses(t) : info[plan[t][j].info].hash = h}
  IN  IF hash_to_master[h] # NULL THEN hash_to_master[h]
      ELSE IF pending # {} THEN plan[t][CHOOSE j \in pending : TRUE].info
      ELSE NULL

BlockHash(t) == HashOf[req[t].buf[blk[t]]]

\* A HIT keeps the pointer it found, then takes its reference by fetch_add.
P1Hit(t) ==
  LET m == Existing(t, BlockHash(t)) IN
  /\ pc[t] = "p1"
  /\ m # NULL
  /\ plan' = [plan EXCEPT ![t] = Append(@, [kind |-> "HIT", info |-> m, rank |-> 0])]
  /\ Goto(t, "p1take")
  /\ UNCHANGED <<index, file_to_sizes, store, lock, request, blk, miss_count, out, rel>>

P1Take(t) ==
  /\ pc[t] = "p1take"
  /\ info' = [info EXCEPT ![plan[t][blk[t]].info].refcount = @ + 1]
  /\ NextBlock(t, "p1", "p1unlock")
  /\ UNCHANGED <<hash_to_master, file_to_master, file_to_sizes, store, lock, request, plan, miss_count, out, rel>>

P1Miss(t) ==
  /\ pc[t] = "p1"
  /\ Existing(t, BlockHash(t)) = NULL
  /\ \E m \in InfoIds :
       /\ ~Live(m)
       /\ info' = [info EXCEPT ![m] = [hash |-> BlockHash(t), masterBlockIndex |-> 0, refcount |-> 1]]
       /\ plan' = [plan EXCEPT ![t] =
                     Append(@, [kind |-> "MISS", info |-> m, rank |-> miss_count[t] + 1])]
  /\ miss_count' = [miss_count EXCEPT ![t] = @ + 1]
  /\ NextBlock(t, "p1", "p1unlock")
  /\ UNCHANGED <<hash_to_master, file_to_master, file_to_sizes, store, lock, request, out, rel>>

P1Unlock(t) ==
  /\ pc[t] = "p1unlock"
  /\ RdUnlock(t)
  /\ Goto(t, IF miss_count[t] > 0 THEN "drain" ELSE "p3lock")
  /\ UNCHANGED <<index, file_to_sizes, store, request, blk, plan, miss_count, out, rel>>

\* allocate_batch_storage_first: the free list from its head, under
\* freelist_mutex ...
TakenAll(t) == Len(free_block_list)
Taken(t) == Min({miss_count[t], Len(free_block_list)})

Drain(t) ==
  /\ pc[t] = "drain"
  /\ out' = [out EXCEPT ![t] = SubSeq(free_block_list, 1, Taken(t))]
  /\ free_block_list' = SubSeq(free_block_list, Taken(t) + 1, Len(free_block_list))
  /\ Goto(t, "append")
  /\ UNCHANGED <<index, file_to_sizes, nextBlockIndex, masterFILE, lock, request, blk, plan, miss_count, rel>>

\* ... and the remainder by one fetch_add on nextBlockIndex.  Then every MISS
\* gets its slot, in its PlanEntry and in its pending MasterInfo.
AppendSlots(t) ==
  LET remaining == miss_count[t] - Len(out[t])
      slots == out[t] \o [k \in 1 .. remaining |-> nextBlockIndex + k - 1]
      own(m) == {j \in Misses(t) : plan[t][j].info = m}
  IN
  /\ pc[t] = "append"
  /\ nextBlockIndex' = nextBlockIndex + remaining
  /\ out' = [out EXCEPT ![t] = slots]
  /\ info' = [m \in InfoIds |->
                IF own(m) = {} THEN info[m]
                ELSE [info[m] EXCEPT !.masterBlockIndex = slots[plan[t][Max(own(m))].rank]]]
  /\ Goto(t, "flush")
  /\ UNCHANGED <<hash_to_master, file_to_master, file_to_sizes, free_block_list, masterFILE,
                 lock, request, blk, plan, miss_count, rel>>

\* flush_plan: the MISSes from blk on, and the run that starts at the first.
Unflushed(t) == {j \in Misses(t) : j >= blk[t]}
RunStart(t) == Min(Unflushed(t))
InRunOfAnySlots(t, e) == \A j \in RunStart(t) .. e : j \in Misses(t)
InRun(t, e) == \A j \in RunStart(t) .. e :
                 j \in Misses(t) /\ MasterBlk(t, j) = MasterBlk(t, RunStart(t)) + j - RunStart(t)
RunEndBefore(t) == RunStart(t) - 1
RunEnd(t) == Max({e \in Unflushed(t) : InRun(t, e)})

\* pwrite of data at slot; a gap beyond the end of the file is a hole.
PWrite(file, slot, data) ==
  [k \in 1 .. Max({Len(file), slot + Len(data)}) |->
     IF k \in slot + 1 .. slot + Len(data) THEN data[k - slot]
     ELSE IF k <= Len(file) THEN file[k] ELSE NULL]

FlushRun(t) ==
  /\ pc[t] = "flush"
  /\ masterFILE' = PWrite(masterFILE, MasterBlk(t, RunStart(t)),
                          SubSeq(req[t].buf, RunStart(t), RunEnd(t)))
  /\ IF \E j \in Misses(t) : j > RunEnd(t)
     THEN blk' = [blk EXCEPT ![t] = RunEnd(t) + 1] /\ UNCHANGED pc
     ELSE blk' = [blk EXCEPT ![t] = 1] /\ Goto(t, "p3lock")
  /\ UNCHANGED <<index, file_to_sizes, free_block_list, nextBlockIndex, lock, request, plan, miss_count, out, rel>>

\* A pwrite that fails or is short: some blocks of the run reach the disk and
\* the next one may be torn.  A torn block at the end of masterFILE is no
\* whole block of it.
FailureIgnored == "p3lock"
AfterFailure == "rblock"

FlushFail(t) ==
  LET slot == MasterBlk(t, RunStart(t))
      data == SubSeq(req[t].buf, RunStart(t), RunEnd(t))
  IN
  /\ pc[t] = "flush"
  /\ WithIOError
  /\ \E n \in 0 .. Len(data) - 1, torn \in BOOLEAN :
       LET file == IF n = 0 THEN masterFILE ELSE PWrite(masterFILE, slot, SubSeq(data, 1, n))
       IN  masterFILE' = IF torn /\ slot + n < Len(file)
                         THEN [file EXCEPT ![slot + n + 1] = NULL] ELSE file
  /\ Goto(t, AfterFailure)
  /\ blk' = [blk EXCEPT ![t] = 1]
  /\ UNCHANGED <<index, file_to_sizes, free_block_list, nextBlockIndex, lock, request, plan, miss_count, out, rel>>

P3Lock(t) ==
  /\ pc[t] = "p3lock"
  /\ WrLock(t)
  /\ Goto(t, "publish")
  /\ UNCHANGED <<index, file_to_sizes, store, request, blk, plan, miss_count, out, rel>>

\* The first loop of Passe 3: a HIT is skipped; a MISS whose hash was inserted
\* by another thread meanwhile gives way to it; any other MISS is inserted.
\* What is left of a freed MasterInfo is no key of the index.
NoDoubleCheck(h) == NULL
Winner(h) == IF h \in Hashes THEN hash_to_master[h] ELSE NULL

PublishBlock(t) ==
  LET entry == plan[t][blk[t]]
      h == info[entry.info].hash
      winner == Winner(h)
  IN
  /\ pc[t] = "publish"
  /\ \/ /\ entry.kind = "HIT"
        /\ UNCHANGED <<hash_to_master, info, plan, rel>>
     \/ /\ entry.kind = "MISS" /\ winner # NULL
        /\ rel' = [rel EXCEPT ![t] = <<MasterBlk(t, blk[t])>> \o @]
        /\ info' = [info EXCEPT ![winner].refcount = @ + 1, ![entry.info] = Freed]
        /\ plan' = [plan EXCEPT ![t][blk[t]].info = winner]
        /\ UNCHANGED hash_to_master
     \/ /\ entry.kind = "MISS" /\ winner = NULL
        /\ hash_to_master' = [hash_to_master EXCEPT ![h] = entry.info]
        /\ UNCHANGED <<info, plan, rel>>
  /\ NextBlock(t, "publish", "map")
  /\ UNCHANGED <<file_to_master, file_to_sizes, store, lock, request, miss_count, out>>

\* The second loop: the mapping of each block, an overwritten one dropped.
OverwriteIgnored(t) == NULL
Overwritten(t) == file_to_master[FileBlock(t)]

MapBlock(t) ==
  LET old == Overwritten(t) IN
  /\ pc[t] = "map"
  /\ IF old = NULL THEN UNCHANGED <<rel, hash_to_master, info>> ELSE DropReference(t, old)
  /\ file_to_master' = [file_to_master EXCEPT ![FileBlock(t)] = plan[t][blk[t]].info]
  /\ NextBlock(t, "map", "p3unlock")
  /\ UNCHANGED <<file_to_sizes, store, lock, request, plan, miss_count, out>>

\* The logical size grows to the end of the write, never shrinks.
EndOfLastBlock(t) == req[t].start + req[t].count - 1
NewEnd(t) == req[t].start + req[t].count

P3Unlock(t) ==
  /\ pc[t] = "p3unlock"
  /\ file_to_sizes' = [file_to_sizes EXCEPT ![req[t].path] =
                         Max({SizeOf(req[t].path), NewEnd(t)})]
  /\ WrUnlock(t)
  /\ Goto(t, "p3release")
  /\ UNCHANGED <<index, store, request, blk, plan, miss_count, out, rel>>

P3Release(t) ==
  /\ pc[t] = "p3release"
  /\ ReleaseSlots(t)
  /\ Return(t)
  /\ UNCHANGED <<index, file_to_sizes, nextBlockIndex, masterFILE, lock, arrived>>

-----------------------------------------------------------------------------
(* rollback_allocations. *)

RbLock(t) ==
  /\ pc[t] = "rblock"
  /\ WrLock(t)
  /\ Goto(t, "rbhits")
  /\ UNCHANGED <<index, file_to_sizes, store, request, blk, plan, miss_count, out, rel>>

RevertsNothing(t) == FALSE
Reverts(t) == plan[t][blk[t]].kind = "HIT"

RbHit(t) ==
  /\ pc[t] = "rbhits"
  /\ IF Reverts(t) THEN DropReference(t, plan[t][blk[t]].info)
     ELSE UNCHANGED <<rel, hash_to_master, info>>
  /\ NextBlock(t, "rbhits", "rbunlock")
  /\ UNCHANGED <<file_to_master, file_to_sizes, store, lock, request, plan, miss_count, out>>

RbUnlock(t) ==
  /\ pc[t] = "rbunlock"
  /\ WrUnlock(t)
  /\ Goto(t, "rbrelease")
  /\ UNCHANGED <<index, file_to_sizes, store, request, blk, plan, miss_count, out, rel>>

RbRelease(t) ==
  /\ pc[t] = "rbrelease"
  /\ ReleaseSlots(t)
  /\ Goto(t, "rbmisses")
  /\ UNCHANGED <<index, file_to_sizes, nextBlockIndex, masterFILE, lock, request, blk, plan, miss_count, out>>

\* Every slot of the batch is prepended, and every pending MasterInfo freed.
NothingReturned(t) == <<>>
Returned(t) == [k \in 1 .. Len(out[t]) |-> out[t][Len(out[t]) + 1 - k]]

RbMisses(t) ==
  /\ pc[t] = "rbmisses"
  /\ free_block_list' = Returned(t) \o free_block_list
  /\ info' = [m \in InfoIds |->
                IF \E j \in Misses(t) : plan[t][j].info = m THEN Freed ELSE info[m]]
  /\ Return(t)
  /\ UNCHANGED <<hash_to_master, file_to_master, file_to_sizes, nextBlockIndex, masterFILE, lock, arrived, rel>>

-----------------------------------------------------------------------------
(* xmp_unlink and xmp_truncate around remove_blocks_dedup_batch.  The size is *)
(* read in a read-locked section of its own.  A request that finds nothing to *)
(* remove leaves the index alone and is no step here.                         *)

StartUnlink(t) ==
  /\ WithRemoval
  /\ wrlock = NULL
  /\ \E p \in Paths :
       /\ file_to_sizes[p] # NULL
       /\ Arrive(t, [op |-> "unlink", path |-> p, start |-> 0, count |-> file_to_sizes[p], buf |-> <<>>],
                 IF file_to_sizes[p] > 0 THEN "rmlock" ELSE "setsize")
  /\ UNCHANGED <<index, file_to_sizes, store, lock, blk, plan, miss_count, out, rel>>

StartTruncate(t) ==
  /\ WithRemoval
  /\ wrlock = NULL
  /\ \E p \in Paths, size \in Blocks :
       /\ file_to_sizes[p] # NULL /\ size < file_to_sizes[p]
       /\ Arrive(t, [op |-> "truncate", path |-> p, start |-> size,
                     count |-> file_to_sizes[p] - size, buf |-> <<>>], "rmlock")
  /\ UNCHANGED <<index, file_to_sizes, store, lock, blk, plan, miss_count, out, rel>>

RmLock(t) ==
  /\ pc[t] = "rmlock"
  /\ WrLock(t)
  /\ Goto(t, "remove")
  /\ UNCHANGED <<index, file_to_sizes, store, request, blk, plan, miss_count, out, rel>>

RmBlock(t) ==
  LET m == file_to_master[FileBlock(t)] IN
  /\ pc[t] = "remove"
  /\ IF m = NULL THEN UNCHANGED <<rel, hash_to_master, info>> ELSE DropReference(t, m)
  /\ file_to_master' = [file_to_master EXCEPT ![FileBlock(t)] = NULL]
  /\ NextBlock(t, "remove", "rmunlock")
  /\ UNCHANGED <<file_to_sizes, store, lock, request, plan, miss_count, out>>

RmUnlock(t) ==
  /\ pc[t] = "rmunlock"
  /\ WrUnlock(t)
  /\ Goto(t, "rmrelease")
  /\ UNCHANGED <<index, file_to_sizes, store, request, blk, plan, miss_count, out, rel>>

RmRelease(t) ==
  /\ pc[t] = "rmrelease"
  /\ ReleaseSlots(t)
  /\ Goto(t, "setsize")
  /\ UNCHANGED <<index, file_to_sizes, nextBlockIndex, masterFILE, lock, request, blk, plan, miss_count, out>>

\* The brief write-locked section that drops or lowers the logical size.
SetSize(t) ==
  LET p == req[t].path
      lower == file_to_sizes[p] # NULL /\ req[t].start < file_to_sizes[p]
  IN
  /\ pc[t] = "setsize"
  /\ wrlock = NULL /\ rdlock = {}
  /\ file_to_sizes' = [file_to_sizes EXCEPT ![p] =
                         IF req[t].op = "unlink" THEN NULL
                         ELSE IF lower THEN req[t].start ELSE @]
  /\ Return(t)
  /\ UNCHANGED <<index, store, lock, arrived, rel>>

-----------------------------------------------------------------------------
(* xmp_destroy and xmp_init with no request in flight.  The index is saved    *)
(* and loaded as it is; the append point is taken from the size of the file.  *)

AppendPointOneShort == Max({0, Len(masterFILE) - 1})
AppendPoint == Len(masterFILE)

Quiescent == \A t \in Threads : pc[t] = "idle"

Remount ==
  /\ WithRemount
  /\ Quiescent
  /\ nextBlockIndex' = AppendPoint
  /\ UNCHANGED <<index, file_to_sizes, free_block_list, masterFILE, lock, request, pc, blk,
                 plan, miss_count, out, rel>>

\* Nothing in flight: the daemon waits for requests.
Wait == Quiescent /\ UNCHANGED vars

Step(t) ==
  \/ P1Lock(t) \/ P1Hit(t) \/ P1Take(t) \/ P1Miss(t) \/ P1Unlock(t)
  \/ Drain(t) \/ AppendSlots(t) \/ FlushRun(t) \/ FlushFail(t)
  \/ P3Lock(t) \/ PublishBlock(t) \/ MapBlock(t) \/ P3Unlock(t) \/ P3Release(t)
  \/ RbLock(t) \/ RbHit(t) \/ RbUnlock(t) \/ RbRelease(t) \/ RbMisses(t)
  \/ RmLock(t) \/ RmBlock(t) \/ RmUnlock(t) \/ RmRelease(t) \/ SetSize(t)

Start(t) == StartWrite(t) \/ StartUnlink(t) \/ StartTruncate(t)

Next == (\E t \in Threads : Start(t) \/ Step(t)) \/ Remount \/ Wait

Spec == Init /\ [][Next]_vars

\* A thread that has a request and is not waiting for a lock is run.
FairSpec == Spec /\ \A t \in Threads : WF_vars(Step(t))

=============================================================================
