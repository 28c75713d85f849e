----------------------------- MODULE DedupRead -----------------------------
(***************************************************************************)
(* read_dedup of src/dedup.c beside the engine of Dedup: Readers serve     *)
(* read requests while Threads change files.  The lookups run under the    *)
(* read lock and copy slot numbers; the preads that follow run unlocked.   *)
(***************************************************************************)
EXTENDS Dedup, SequencesExt

VARIABLES
  rpc, rreq,     \* per reader: step and request
  pairs,         \* per reader: BlockPair pairs[], position in the request and slot
  done,          \* per reader: group_start, how many pairs have been read
  rbuf,          \* per reader: the blocks of buf filled so far
  seen           \* history: what each requested block held during the read

rvars == <<rpc, rreq, pairs, done, rbuf>>
allvars == <<vars, rvars, seen>>

NoRead == [path |-> NULL, start |-> 0, count |-> 0]

ReadInit ==
  /\ Init
  /\ rpc = [r \in Readers |-> "idle"]
  /\ rreq = [r \in Readers |-> NoRead]
  /\ pairs = [r \in Readers |-> <<>>]
  /\ done = [r \in Readers |-> 0]
  /\ rbuf = [r \in Readers |-> <<>>]
  /\ seen = [r \in Readers |-> <<>>]

\* History: the contents of the blocks that are being read, before and after
\* every step.
Requested(r) == [k \in 1 .. rreq[r].count |-> FileContent(<<rreq[r].path, rreq[r].start + k - 1>>)]
Observe ==
  seen' = [r \in Readers |->
             [k \in 1 .. rreq'[r].count |->
                (IF k \in DOMAIN seen[r] THEN seen[r][k] ELSE {}) \cup {Requested(r)'[k]}]]

\* num_blocks > 0 and whole blocks; other sizes return at once.
StartRead(r) ==
  /\ rpc[r] = "idle"
  /\ arrived < MaxRequests
  /\ arrived' = arrived + 1
  /\ \E p \in Paths, s \in Blocks, n \in 1 .. MaxBlocks :
       /\ s + n <= MaxBlocks
       /\ rreq' = [rreq EXCEPT ![r] = [path |-> p, start |-> s, count |-> n]]
  /\ rpc' = [rpc EXCEPT ![r] = "lock"]
  /\ UNCHANGED <<index, file_to_sizes, store, lock, req, pc, blk, plan, miss_count, out, rel,
                 pairs, done, rbuf>>

ReadLock(r) ==
  /\ rpc[r] = "lock"
  /\ RdLock(r)
  /\ rpc' = [rpc EXCEPT ![r] = "lookup"]
  /\ UNCHANGED <<index, file_to_sizes, store, request, pc, blk, plan, miss_count, out, rel,
                 rreq, pairs, done, rbuf>>

\* The lookups, up to the first block that has no mapping.
Lookup(r) ==
  LET k == Len(pairs[r])
      m == file_to_master[<<rreq[r].path, rreq[r].start + k>>]
  IN
  /\ rpc[r] = "lookup"
  /\ IF k < rreq[r].count /\ m # NULL
     THEN /\ pairs' = [pairs EXCEPT ![r] = Append(@, [logical |-> k + 1, slot |-> info[m].masterBlockIndex])]
          /\ UNCHANGED rpc
     ELSE UNCHANGED pairs /\ rpc' = [rpc EXCEPT ![r] = "unlock"]
  /\ UNCHANGED <<vars, rreq, done, rbuf>>

\* Unlock, then sort by slot: insertion_sort up to the threshold, qsort
\* above it.  What is read does not depend on the order of equal slots.  The
\* buffer for the groups may not be there.
BySlot(a, b) == a.slot < b.slot \/ (a.slot = b.slot /\ a.logical <= b.logical)
Sorted(ps) == SetToSortSeq(ToSet(ps), BySlot)

ReadUnlock(r) ==
  /\ rpc[r] = "unlock"
  /\ RdUnlock(r)
  /\ pairs' = [pairs EXCEPT ![r] = Sorted(@)]
  /\ \E step \in IF pairs[r] = <<>> THEN {"return"} ELSE {"pread", "enomem"} :
       rpc' = [rpc EXCEPT ![r] = step]
  /\ UNCHANGED <<index, file_to_sizes, store, request, pc, blk, plan, miss_count, out, rel,
                 rreq, done, rbuf>>

\* The end of the group of consecutive slots that follows the pairs read.
GroupEnd(r) ==
  Max({e \in done[r] + 1 .. Len(pairs[r]) :
         \A j \in done[r] + 1 .. e - 1 : pairs[r][j + 1].slot = pairs[r][j].slot + 1})

\* One pread per group, from the slot of its first pair; a group that
\* does not lie within masterFILE reads short, which is -EIO.
FirstFetched(r, j) == 0
Fetched(r, j) == pairs[r][j].slot - pairs[r][done[r] + 1].slot
ReadGroup(r) ==
  LET first == done[r] + 1
      base == pairs[r][first].slot
      size == GroupEnd(r) - done[r]
  IN
  /\ rpc[r] = "pread"
  /\ IF base + size <= Len(masterFILE)
     THEN /\ rbuf' = [rbuf EXCEPT ![r] =
                        [k \in DOMAIN @ \cup {pairs[r][j].logical : j \in first .. GroupEnd(r)} |->
                           IF k \in DOMAIN @ THEN @[k]
                           ELSE LET j == CHOOSE j \in first .. GroupEnd(r) : pairs[r][j].logical = k
                                IN  SubSeq(masterFILE, base + 1, base + size)[Fetched(r, j) + 1]]]
          /\ done' = [done EXCEPT ![r] = GroupEnd(r)]
          /\ rpc' = [rpc EXCEPT ![r] = IF GroupEnd(r) = Len(pairs[r]) THEN "return" ELSE "pread"]
     ELSE rpc' = [rpc EXCEPT ![r] = "eio"] /\ UNCHANGED <<rbuf, done>>
  /\ UNCHANGED <<vars, rreq, pairs>>

ReadReturn(r) ==
  /\ rpc[r] \in {"return", "eio", "enomem"}
  /\ rpc' = [rpc EXCEPT ![r] = "idle"]
  /\ rreq' = [rreq EXCEPT ![r] = NoRead]
  /\ pairs' = [pairs EXCEPT ![r] = <<>>]
  /\ done' = [done EXCEPT ![r] = 0]
  /\ rbuf' = [rbuf EXCEPT ![r] = <<>>]
  /\ UNCHANGED vars

ReadStep(r) == ReadLock(r) \/ Lookup(r) \/ ReadUnlock(r) \/ ReadGroup(r) \/ ReadReturn(r)

ReadNext ==
  /\ \/ Next /\ UNCHANGED rvars
     \/ \E r \in Readers : StartRead(r) \/ ReadStep(r)
  /\ Observe

ReadSpec == ReadInit /\ [][ReadNext]_allvars

-----------------------------------------------------------------------------
(* Properties. *)

\* A block that holds one content from the start of a read to its end, like
\* all blocks of the request before it, is returned with that content.  A read
\* returns less than was asked only if a block was missing at some moment, and
\* it never fails with -EIO: the slot of a mapped block lies within masterFILE,
\* and masterFILE does not shrink.  Without memory it fails before it reads.
StableBlocksAreRead ==
  \A r \in Readers : rpc[r] \in {"return", "eio"} =>
    /\ rpc[r] # "eio"
    /\ \A k \in 1 .. rreq[r].count :
         (\A j \in 1 .. k : Cardinality(seen[r][j]) = 1 /\ NULL \notin seen[r][j]) =>
           k \in DOMAIN rbuf[r] /\ seen[r][k] = {rbuf[r][k]}
    /\ Cardinality(DOMAIN rbuf[r]) < rreq[r].count =>
         NULL \in seen[r][Cardinality(DOMAIN rbuf[r]) + 1]

\* What a read returns for a block is something that block held at some
\* moment of the read ("preads ... thread-safe").
ReadsWhatWasThere ==
  \A r \in Readers : rpc[r] = "return" =>
    \A k \in DOMAIN rbuf[r] : rbuf[r][k] \in seen[r][k]

=============================================================================
