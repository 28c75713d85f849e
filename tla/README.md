# A TLA+ model of the deduplicating archival file system

The repository is a FUSE file system in C that stores every distinct 4 KiB block
once, in `/masterFILE`, and keeps in memory which file block refers to which
slot. This directory holds TLA+ modules that model its engine, TLC
configurations that check them on small instances, and TLAPS proofs.

## The system: parts, state, operations

| part | source | state | operations |
|---|---|---|---|
| FUSE handlers | `src/passthrough.c` | `Context`: index, `masterFd`, `nextBlockIndex` | `xmp_write`, `xmp_read`, `xmp_unlink`, `xmp_truncate`, `xmp_getattr`, `xmp_init`, `xmp_destroy`, and handlers that pass through |
| engine | `src/dedup.c` | none of its own; a `PlanEntry` array per write | `write_dedup` (passes 1, 1.5, 2, 3), `allocate_batch_storage_first`, `flush_plan`, `rollback_allocations`, `remove_blocks_dedup_batch`, `read_dedup` |
| metadata index | `src/metaindex.c` | `hash_to_master`, `file_to_master`, `file_to_sizes`, `free_block_list`, refcounts, `metadata_rwlock`, `freelist_mutex` | lookups, inserts, removals, `index_init`, `index_destroy` |
| persistence | `src/persistence.c` | five table files | save at unmount, load at mount, through a buffer |
| hashing | `src/hashing.c` | none | SHA-512 of a block |
| lower file system | external, used by `src/passthrough.c` | names, inodes, sizes | every handler passes names and sizes through to it |
| system call counters | `bpf_programs/syscounter/` | three eBPF maps | programs on enter and exit of calls and on fork, the report |
| page cache statistics | `bpf_programs/cachestat/cachestat*.c` | three counters, a map of pids | choice of programs for a kernel, rows, sums, JSON file |
| tracing helpers | `bpf_programs/cachestat/trace_helpers.c` | symbol tables of the kernel and of processes | load, sort, search, cache |
| benchmarks | `benchmarks/` | result files | workloads, reports |

Requests run on a pool of FUSE threads. What makes the engine hard: HITs raise
refcounts under the *read* lock while other threads do the same; a write decides
in pass 1, under the read lock, what it does in pass 3, under the write lock,
and everything may have changed in between; slots go from the free list to a
write, to the index and back under a second lock; a failed `pwrite` undoes a
half-done batch while others build on its HITs; a read uses slot numbers after
it has let go of the lock.

Around the engine: the tables are saved one after the other through a small
buffer, and the daemon may end between any two writes; the index is keyed by
path while the lower file system knows inodes; the eBPF programs of several
CPUs change the same map entries while a reporter copies them.

## Modules

| module | what it is |
|---|---|
| `Dedup` | the engine and the index: writes, rollback, unlink, truncate, remount |
| `DedupProps` | the properties of `Dedup`, and the inductive invariant `TypeInv` |
| `DedupRead` | `Dedup` with readers that run `read_dedup` |
| `FileStore` | the abstract specification: requests that arrive, change their blocks in one step or fail, and return |
| `DedupFiles` | the refinement mapping from `Dedup` to `FileStore` |
| `TableFiles` | `Dedup` with `index_destroy` and `index_init` file by file, crashes, failing opens |
| `BufferedIO` | `buffered_write`, `buffered_read` and the list save and load above them |
| `Namespace` | the FUSE handlers over a tree of paths, inodes and handles, beside the index |
| `SysCounter` | the programs, maps and report of syscounter |
| `CacheStat` | the choice of programs, the counters and the loop of cachestat |
| `AddressSearch` | the binary search that the symbol tables share |
| `Ksyms`, `ProcSyms` | the symbols of the kernel, and of processes with their cache |
| `Symbols` | a tracer that uses both tables |
| `MC...` | instances for TLC |
| `DedupTypeProofs`, `DedupRefProofs`, `DedupSlotProofs`, `DedupStoreProofs` | the steps of `Dedup` keep its inductive invariants |
| `DedupProofs` | the steps of `Dedup` are steps of `FileStore`; the theorems about `Dedup` |
| `NamespaceProofs`, `BufferedIOProofs`, `KsymsProofs` | proofs about `Namespace`, `BufferedIO` and `Ksyms` |

### How Dedup corresponds to the code

A thread has a step `pc[t]`; an action is the code between two accesses to
state that others see.

- **Passe 1** `P1Lock`, per block `P1Hit` (the pointer) and `P1Take` (its
  reference) or `P1Miss`, `P1Unlock`. `Existing` looks in `hash_to_master` and
  then among the MISSes of the plan, which is what `pending_hashes` holds.
- **Passe 1.5** `Drain` is the section under `freelist_mutex`; `AppendSlots` is
  the `fetch_add` with the loop that fills in `master_blk`. Between the two other
  threads run. `rank` in a plan entry is the counter `m` of that loop.
- **Passe 2** `FlushRun` writes one run; `FlushFail` is a `pwrite` that fails or
  is short, possibly tearing a block.
- **Passe 3** `P3Lock`, `PublishBlock` per block (the double check), `MapBlock`
  per block (an overwritten block dropped), `P3Unlock` (with the size),
  `P3Release`.
- **Rollback** `RbLock`, `RbHit` per block, `RbUnlock`, `RbRelease`, `RbMisses`.
- **unlink and truncate** `StartUnlink` / `StartTruncate` read the size,
  `RmLock`, `RmBlock` per block, `RmUnlock`, `RmRelease` are
  `remove_blocks_dedup_batch`, `SetSize` is the last locked section.
- **Remount** unmounts and mounts with no request in flight; the append point is
  the size of `masterFILE`, as in `xmp_init`.

Data is abstracted to what the properties tell apart: a block is a model value,
a digest its image under the constant function `HashOf`, offsets and sizes count
in blocks, the heap is a set of addresses `InfoIds` whose freed members may be
handed out again. What is left in a freed `MasterInfo` is no key of the index.
`SerialPaths` stands for the inode lock that the kernel holds for `write`,
`truncate` and `unlink` of one file.

`DedupFiles` maps `Dedup` to `FileStore` thread by thread. The request is the same
record in both. Its status is `pending` from its arrival, `done` from the step in
which `P3Lock` or `RmLock` takes the write lock, `failed` from a failing flush, and
`idle` after its return. `Files` is what the mappings lead to, with the blocks of
the request that holds the write lock as they will be. So each change of a file
is the change of one request, to what it carries, at one step, and each request
makes it once or, if it failed, never.

`DedupRead` adds `StartRead`, `ReadLock`, `Lookup` per block, `ReadUnlock` with
the sort and the allocation of the buffer, which may fail with `-ENOMEM`,
`ReadGroup` per `pread`, `ReadReturn`. The history variable `seen`
collects what each requested block held while the read ran.

### How the other modules correspond to the code

- **BufferedIO** A cell is one unit that a caller hands over (the length, a
  field or a character of a path). `CopyChunk` and `FlushAndCopy` are the turns
  of `buffered_write`'s loop, `FinalFlush` the end of `gslist_save`; `Refill` and
  the reads of fields are `buffered_read` under `gslist_load`. A `pwrite` or
  `pread` moves any number of cells up to what was asked. `faulty` remembers that
  a `pwrite` failed or was short.
- **TableFiles** `Serve` is a step of `Dedup`. The save is one action per file
  and per cut, in the order of `index_destroy`; `Mount` is `index_init` with the
  append point of `xmp_init`. A `Crash` may come at any step, and any open and
  allocation may fail. `faults` counts these, `mixed` says that a save could not
  open the values file and went on, `reused` and `written` are history too.
- **Namespace** One action per handler, since the kernel holds the inode and the
  directory. A path is the sequence of names from the root; names are made in
  directories, and a rename of a directory moves every path below it, with the
  handles open there, while the index keeps its keys. Sizes are in bytes. `posix`
  keeps what POSIX says each inode holds, `odd` counts the requests that are not
  plain: a link, a rename when a path at or below either name has metadata, a truncating
  open of a path with metadata, a growing truncate, an unaligned write, a failing
  lower call. An unlink of an open file is libfuse's rename to `.fuse_hidden`
  in the same directory.
- **SysCounter** Each map helper and each atomic add is a step, and each of the
  three maps has its capacity. A killed task leaves its entry in
  `enter_timestamps`. `due` are the calls that should be counted, `lost` those whose
  insert met an entry, `dropped` those that found a map full; `early` says that a
  call came before all programs were attached. A report copies key after key
  while keys are added; `counted` is what the map held when it began.
- **CacheStat** A kernel is the record of what `main` asks of it; `todo` holds the
  adds that the programs of a process still make. `main`'s steps are `phase`.
- **Ksyms, ProcSyms** Lines of `/proc/kallsyms` and of a maps file are added one by
  one; capacities grow by a third from `MinCap`; a lookup is the source's binary search,
  compared with a search through all symbols. A load of a file's symbols succeeds,
  cannot open the file, or fails in `dso__add_syms`: then the fields of the dso are
  freed and not cleared (`freed`), and what later lookups read there is left open.

## Runs

| run | instance | states | properties |
|---|---|---|---|
| `concurrent` | 2 threads, 2 files of 2 blocks, 2 contents, 4 requests, remounts | 262k | `TypeInv`, `MutualExclusion`, `RefcountExact`, `OneInfoPerHash`, `PublishedOnDisk`, `OneOwnerPerSlot`, `NoDoubleAllocation`, `MappedBelowSize` |
| `refinement` | 2 threads on 1 file, no inode lock, holes, failing `pwrite`s, 3 requests | 121k | `RefcountExact`, `OneOwnerPerSlot`, `ImplementsFileStore` |
| `reads` | 1 reader, 1 writer with failing `pwrite`s and repeated blocks, 4 requests | 601k | `StableBlocksAreRead`, `RefcountExact` |
| `liveness` | 2 threads, 1 file of 2 blocks, failing `pwrite`s, 2 requests, weak fairness | 215k | `EveryRequestReturns` |
| `buffered_io` | buffer of 3 cells, all lists of up to 2 elements | 81k | `FileThenBuffer`, `FillWithinBuffer`, `LoadsAPrefix`, `RoundTrip` |
| `table_files` | 1 thread, 2 files of 1 block, 3 requests, 3 mounts, 2 crashes or failures of any open or allocation | 789k | `ConsistentAcrossMounts`, `MappingsTrue`, `AppendsPastTheIndex`, `MountRestores` |
| `namespace` | 4 paths in 2 levels, 2 handles, 2 inodes, files of 2 blocks of 2 bytes, 1 odd request | 240k | `ContentPreserved`, `ReportedSizeTrue`, `DeletedFilesCleaned`, `ReadsEndBeforeEOF` |
| `sys_counter` | 2 tasks, 2 commands, 3 kinds of calls, 2 calls, maps with room for 1 or 2 | 945k | `CountsNeverExceed`, `CountersExact`, `ReportedTimesCoverCounts`, `TotalsInBetween` |
| `cache_stat` | 8 kernels, 3 processes, every failure, 1 event of each kind | 387k | `CountedOnce`, `ReportedWithinEvents`, `DirtiesConserved`, `JsonIsSumOfRows`, `InterruptEnds` |
| `symbols` | 4 lines of kernel symbols, 2 processes, 3 maps files, failing loads | 155k | `WithinCapacity`, `LookupsRight`, `AnswersRight`, `AnswersStay` |

The properties in words:

- `RefcountExact`: a refcount is the number of mappings and of plan entries in
  flight that hold the `MasterInfo`; freed exactly when there is none. This is
  both "no dangling pointer" and "no leak".
- `OneInfoPerHash`: a mapped block points to the one `MasterInfo` in
  `hash_to_master` for its digest.
- `PublishedOnDisk`: an entry of `hash_to_master` points to a slot that holds a
  block with that digest.
- `OneOwnerPerSlot`: every slot below the append point is in the free list, in
  the index, reserved by a write or being released, exactly once.
- `NoDoubleAllocation`: no free slot is at or past the append point.
- `MappedBelowSize`: with no change of a file in flight, exactly the blocks
  below its logical size are mapped.
- `ImplementsFileStore`: a request changes exactly the blocks it names, to what it
  carries, once, in the step in which it gets the write lock; a write that fails
  changes none; nothing else changes what a file holds.
- `StableBlocksAreRead`: a read never fails with `-EIO`, and returns the blocks that
  do not change while it runs, in their places.
- `FileThenBuffer`, `RoundTrip`, `LoadsAPrefix`: nothing is lost or reordered on
  the way through the buffer; without a failed write a list comes back whole,
  with one its beginning does.
- `MountRestores`, `ConsistentAcrossMounts`: without failures a mount goes on with
  what was saved. `MappingsTrue`, `AppendsPastTheIndex`: with them, no file block
  leads to bytes never written to it unless its slot was reused or a save could
  not open the values file, and the append point lies past every mapped slot.
- `ContentPreserved`, `ReportedSizeTrue`, `DeletedFilesCleaned`: after plain
  requests files are what POSIX says. `ReadsEndBeforeEOF` holds after any.
- `CountsNeverExceed`, `CountersExact`, `ReportedTimesCoverCounts`: no call counts
  twice, none is missing but a lost first one and those that found a map full, and a
  report has the time of each call that it counts. `TotalsInBetween`: the sums of a
  table printed while calls go on lie between what was counted when the
  report began and what was due.
- `ReportedWithinEvents`, `DirtiesConserved`: three counters are exchanged one after
  the other while programs add; the sums stay within what happened and lose
  no `mark_buffer_dirty`. `CountedOnce`: one program per event, except two for a
  dirtied folio where `folio_account_dirtied` can be traced in both ways.
- `LookupsRight`, `AnswersRight`, `AnswersStay`: searches find what a search through
  all symbols finds; a cached answer does not change. Answers out of a dso that a
  failing load freed are the exception, and the only one.

Two runs end in a violation, each of a statement in the code's comments:

- `duplicate_race`: a batch with a repeated new block loses the double check;
  the HIT on its own pending MISS maps a freed `MasterInfo`
  (`dedup.c:612`, against the comment at 590).
- `read_race`: a slot is reused between lookup and `pread` (`dedup.c:144`,
  against the comment at 111).

### What the passing runs leave out, and how to see it

Each of these is a behaviour of the code that a property excludes by a condition
or an instance by a constant. Changing it as told makes TLC show the behaviour.

| behaviour | source | change |
|---|---|---|
| slots of a failed append are free beyond the end of `masterFILE`; the next mount appends there, against `dedup.c:400` | `passthrough.c:113` | `concurrent` with `WithIOError = TRUE`: `NoDoubleAllocation` |
| holes below the logical size are read as the end of the file, against `dedup.c:90` | `dedup.c:98` | `concurrent` with `WithHoles = TRUE`: `MappedBelowSize` |
| a repeated block in a batch beside another writer | `dedup.c:612` | run `duplicate_race` |
| after a short flush the buffer takes more than it has room for | `persistence.c:54`, `84` | `FillWithinBuffer` without `~faulty` |
| the values file cannot be opened, the tables can | `persistence.c:400` | `MappingsTrue` without `~mixed` |
| after a crash a free list older than the tables hands out mapped slots | `metaindex.c:199` | `MappingsTrue` without `reused` |
| rename of a file with metadata or of a directory above one, link, `O_TRUNC`, unlink of an open file, unaligned offset, failing unlink, growing truncate | `passthrough.c:301`, `344`, `354`, `484`, `dedup.c:477` | the properties of `Namespace` without `odd = 0` |
| of two first calls under a key one is not counted | `syscounter.bpf.c:120` | `CountersExact` without `lost` |
| with a full map calls are not counted | `syscounter.bpf.c:24`, `32` | `CountersExact` without `dropped` |
| an enter recorded before the exit program of its call is attached stays, and a later exit without an enter of its own uses it | `syscounter.bpf.c:183` | `CountsNeverExceed` without `early` |
| with fentry on `folio_account_dirtied` its kprobe stays loaded too | `cachestat.c:255` | `CountedOnce` without `DirtiedTwice` |
| a dso whose symbols could not be added is freed and still used | `trace_helpers.c:533` | `AnswersRight` without `Anything` |

In an earlier form of this project three questions had runs of their own: two threads on one
file without the inode lock, failing `pwrite`s of two threads (both now in
`refinement`, on one file), and repeated blocks with failing `pwrite`s (now in
`reads`). Failing `pwrite`s of two threads on two different files have no run any
more, nor have the first two rows of the table above, which once ended in
violations of their own.

### Bounds

`MaxBlocks` bounds a file, `MaxRequests` the requests of a behaviour, `Payloads`
the buffers. Two contents in two-block files are enough for sharing within and
across files, overwrites of shared and of unshared blocks, runs that are broken
by a HIT or by reused slots, and a batch that takes one slot from the free list
and one by append. Four requests allow write, write, remove and a write that
reuses slots while another thread is at work. Four addresses are enough for two
batches of two pending blocks; a run never waits for one. `liveness`, where
symmetry would not be sound, has two requests: two writes of up to two blocks at once,
or a write and a removal after it.

`BufferSize` 3 is no multiple of what an element takes (2 cells for a slot, 4 or
5 for a block index), so that elements are cut at every place. `MaxMounts` 3 allows a save over an older save
and a mount after it, `MaxFaults` 2 a failure after a crash. `MaxInodes` and `MaxOdd` bound what is made and what is not
plain; two names at the root and one below each are enough for renames onto a file, into and out
of a directory, and of a directory with a file in it. `MaxCalls` 2 with two tasks
reaches the race of first counts. `MaxEntered` 1 and `Capacities` 1 and 2 let each
map fill up before the second call. Two tasks allow one fork at most. `MaxEvents` 1 per kind lets an add fall between
any two exchanges. `MaxLines` 4 with `MinCap` 3 makes the arrays grow; `MaxExecs`
changes the maps once under the cache.

### Fairness

`FairSpec` of `Dedup` asks weak fairness of each thread's steps: the operating
system runs a thread that can run. Nothing is assumed of the order in which the
rwlock is granted. With finitely many requests a waiting writer is served in the
end; that readers arriving without end may starve a writer (glibc prefers readers
by default) is outside this statement. `BufferedIO` is one thread and asks
`WF_vars(Next)`; `CacheStat` asks weak fairness of `main`'s steps and none of the
programs or of Ctrl-C.

## Proofs

All theorems are for every value of the constants: any number of threads, files,
blocks, requests and mounts, any payloads, and with or without failures unless a
condition below says otherwise. They rest on the assumptions named in the modules:
for `Dedup` the type of `HashOf`, `NULL` apart from everything else, natural bounds,
non-empty payloads, finitely many threads and files; for `Namespace` blocks of at
least one byte, paths that are non-empty sequences of components, hidden paths apart from the others, and `NULL` apart from numbers
and contents; for `BufferedIO` a non-empty buffer; for `Ksyms` a first capacity of at least 3.

| theorem | states | condition |
|---|---|---|
| `TypeInvariance`, `TypeCorrectness` | `TypeInv`, `TypeOK` | |
| `Exclusion` | `MutualExclusion` | |
| `RefInvariance`, `ReferencesCounted`, `IndexHasNoDuplicates` | `RefInv`, `RefcountExact`, `OneInfoPerHash` | `DistinctPayloads` |
| `SlotInvariance`, `SlotsHaveOneOwner`, `FreeListBelowAppendPoint`, `PublishedAfterFlush` | `SlotInv`, `OneOwnerPerSlot`, `NoDoubleAllocation`, `PublishedOnDisk` | `DistinctPayloads`, `~(WithIOError /\ WithRemount)` |
| `ImplementsFiles` | `ImplementsFileStore` | the same two and `CollisionFree` |
| `MappingsMatchSizes` | `MappedBelowSize` | `SerialPaths`, `~WithHoles` |
| `NamespaceInvariance`, `ReadsEnd`, `SizesTrue`, `ContentsKept`, `DeletedFilesGone` | `NsInv`, `ReadsEndBeforeEOF`, `ReportedSizeTrue`, `ContentPreserved`, `DeletedFilesCleaned` | |
| `NoCellLost`, `BufferNotOverrun` | `FileThenBuffer`, `FillWithinBuffer` | |
| `ArraysNeverOverflow` | `WithinCapacity` | |

The conditions are those of the code, not of the proofs; without each of them the
statement is false:

- `DistinctPayloads`: no request writes the same block twice. Run
  `duplicate_race` shows what happens otherwise.
- `~(WithIOError /\ WithRemount)`: no remount in a behaviour with failed writes. After a
  failed append the free list holds slots past the end of `masterFILE`, and
  `xmp_init` takes that end for the append point.
- `CollisionFree`: no digest stands for two contents. A HIT on an equal digest
  maps the other content.
- `SerialPaths`: the inode lock of the kernel; `~WithHoles`: no write starts
  past the end of its file.

### The engine

No property of the engine is inductive alone. There are five invariants, each
relative to the ones before it.

- `TypeInv`: that a position of `master_blks[]` exists, that a loop stays within the
  buffer and that a run is not empty depend on the step a thread is at. Beside
  `TypeOK` it has `LockInv` (who holds `metadata_rwlock` at which step) and, for every
  thread, `Shape`, which ties request, loop counter, plan and slots to the step.
- `RefInv` adds to `RefcountExact` and `OneInfoPerHash` what the pointers of a plan in
  flight lead to (`PointersRight`): a HIT to a published `MasterInfo`, a MISS that is
  not yet published to one that no index and no other plan knows. Without it
  the reference that pass 3 hands over, or the rollback drops, could be one of a
  `MasterInfo` freed in the meantime.
- `SizeInv` says of a file that is being changed which blocks are mapped while
  the loop runs, and that one thread at a time changes it.
- `SlotInv` is `Placed` (the MISSes of a plan and the positions of `master_blks[]`
  correspond, a pending `MasterInfo` has the slot of its block), `Owned` (the free
  list, the index, the writes and the releases hold disjoint lists without
  repetitions, together all slots below the append point) and `Stored`
  (`PublishedOnDisk`; what a write has flushed and not yet published is on
  disk; `masterFILE` ends at the append point but for what is being flushed).
  That a published block is on disk depends on nobody else writing to its
  slot, which is `Owned`, which depends on the plan naming the slots it was
  given, which is `Placed`.
- `FileInv`, for the refinement, says that every entry of a plan points to a
  `MasterInfo` with the digest of its block, and that the blocks a loop is done
  with have the digest they are to have. The content of a mapped block follows
  from its digest by `PublishedOnDisk`.

In the refinement, `LockFiles` shows that the step that gets the write lock is the
`Effect` of that thread's request in `FileStore`, `LoopFiles` and `UnlockFiles` that the
loop and the release of the lock change nothing `Files` shows, `UntouchedFiles` the
same of every other step. `StartImplements` and `EndImplements` are the arrival and
the return, `StatusStep` and the lemmas after it say how far each step takes a
request: no step leads from `done` or `failed` back to `pending`. `RemovalsBare`, an invariant of
its own, says that the request of a removal has an empty buffer, by which
`FileStore` tells it from a write.

`DedupTypeProofs` has what the invariants share (sequences, shapes from step to
step, the counting of references) and the steps for `TypeInv` and `SizeInv`;
`DedupRefProofs` those for `RefInv` and `FileInv`;
`DedupSlotProofs` those for `Placed` and `Owned`; `DedupStoreProofs` those for
`Stored`; `DedupProofs` the refinement and the theorems. The proof that the steps keep an invariant
has one case per action; what only one such proof uses is nested in it. Facts
about `Min`, `Max` and `Cardinality` are hypotheses of the steps (`MinMaxLaws`,
`CountingLaws`), derived in `DedupProofs` from the library's theorems on
well-foundedness and finite sets.

### The handlers, the buffer, the symbols

`NamespaceProofs`: `NsInv` says that no block is mapped beyond the size recorded
for its path, and that after plain requests only (`odd = 0`) every inode has
one name, every handle is at a file that its path still names, and the
tables agree with what POSIX says the file holds: a whole number of blocks, all
mapped and no other, with the recorded size. A path without file has
nothing recorded. The first part is all `ReadsEndBeforeEOF` needs, and holds after
odd requests too; the other three properties are instances of the second. A plain
rename moves paths that have nothing recorded: `MovedBack` shows that a path leads
back to where it came from, so that no two paths arrive at the same place
(`MoveEffect`, `MoveHandle`), and `MovePlain` that what arrives agrees with the index, which has
nothing for it either. What a directory rename does to files with metadata is
outside these theorems, as it is outside the properties.

`BufferedIOProofs`: `BufInv` adds to the two properties that in write mode the
file offset is the length of the file, so that a `pwrite` appends, and that the
buffer is overrun only after a failure; the lemmas about cutting and appending
sequences carry the steps.

`KsymsProofs`: growth by a third, rounded down, adds an element only from 3
on; the code starts at 1024. `CapInv` therefore adds that the capacity of `syms`
is 0 or at least `MinCap`.

### Only model-checked

- `EveryRequestReturns`, `RoundTrip`, `InterruptEnds`: liveness under fairness, out
  of the provers' reach.
- `LoadsAPrefix`, `LookupsRight`, `AnswersRight`, `TotalsInBetween`, `DirtiesConserved`:
  they say what a recursive function, a search or a sum over a set computes,
  which would need induction over data.
- `StableBlocksAreRead`, the properties of `TableFiles`, and those of `SysCounter`,
  `CacheStat` and `Symbols` not named above: each needs an inductive invariant of its own
  over the whole state of its component. No proof has been attempted.

## Not modelled

- SHA-512, GLib, libfuse, libbpf and the kernel: external, modelled by how the
  code uses them. `HashOf` has no collisions in the instances.
- `write_elem`, `read_elem`, `remove_block_dedup`, and the handlers `utimens`,
  `fallocate`, xattr, `lseek` and `copy_file_range`: without a caller, compiled out
  or not registered.
- In `syscounter.c` the capacity of `pid_list` (`MAX_PIDS` rows): the rows are a set.
  That a deleted entry of `enter_timestamps` may be reused while its time is still
  to be read (`syscounter.bpf.c:115`) depends on the kernel and is left out.
- Which forks are traced is modelled as the code does it, by tids, so that the children of a
  thread other than the first of its process are not (`syscounter.bpf.c:350`); no
  property speaks of it.
- Command lines, tables of names and the layout of output in the measuring tools.
- In `trace_helpers.c` the partitions, the histograms and the image of the vDSO,
  and all of `uprobe_helpers.c`: vendored code nothing in the repository calls.
- The benchmark and report scripts: no shared state.
