----------------------------- MODULE TableFiles -----------------------------
(***************************************************************************)
(* The five table files: index_destroy saves the index through             *)
(* src/persistence.c, file by file, and index_init loads it again.  The    *)
(* engine between a mount and the next unmount is Dedup.                   *)
(*                                                                         *)
(* A file is what a load gets out of it.  The values and the free list are *)
(* written in their order, so a cut leaves a prefix; a hash table is       *)
(* written in the order of its iteration, so a cut leaves any part of it.  *)
(* The daemon may end at any step, the opens of FailingOpens may fail and  *)
(* so may the allocation of a buffer.                                      *)
(***************************************************************************)
EXTENDS DedupProps, SequencesExt

CONSTANTS
  MaxMounts,       \* bound: mounts
  MaxFaults,       \* bound: crashes, failed opens and failed allocations
  FailingOpens     \* the files whose open may fail; "load": those of a load

ASSUME FaultsAssumption ==
  /\ MaxMounts \in Nat /\ MaxFaults \in Nat
  /\ FailingOpens \subseteq {"load", "hash", "file", "values", "sizes", "free"}

VARIABLES
  step,      \* "up", "down", or the step of index_destroy
  disk,      \* the five files
  order,     \* values of ghash_save_indexed_pair: the MasterInfos in order
  mounts,    \* how many mounts there were
  saved,     \* history: the view of the index when index_destroy began; NULL
             \* once something failed
  faults,    \* history: crashes, failed opens and failed allocations
  mixed,     \* history: a save could not open the values and went on
  reused,    \* history: slots of masterFILE whose block was replaced
  written    \* history: the contents that writes to each file block carried

history == <<reused, written>>
files == <<step, disk, order, mounts, saved, faults, mixed, history>>

FileBlocks == Paths \X Blocks
NoEntries(S) == [x \in S |-> NULL]

Empty == [hash |-> NoEntries(Hashes), file |-> NoEntries(FileBlocks), values |-> <<>>,
          sizes |-> NoEntries(Paths), free |-> <<>>]

\* The daemon's memory is gone, or new: no thread is at work.
NoThreadAtWork ==
  /\ pc' = [t \in Threads |-> "idle"] /\ req' = [t \in Threads |-> NoRequest]
  /\ blk' = [t \in Threads |-> 1] /\ plan' = [t \in Threads |-> <<>>]
  /\ miss_count' = [t \in Threads |-> 0]
  /\ out' = [t \in Threads |-> <<>>] /\ rel' = [t \in Threads |-> <<>>]
  /\ rdlock' = {} /\ wrlock' = NULL

\* The index as its users see it: what each key leads to, and which keys of
\* the two tables share a MasterInfo.
Behind(table) == [k \in DOMAIN table |-> IF table[k] = NULL THEN NULL ELSE info[table[k]]]
View == [hash |-> Behind(hash_to_master), file |-> Behind(file_to_master),
         shared |-> {hf \in Hashes \X FileBlocks : /\ file_to_master[hf[2]] # NULL
                                                   /\ file_to_master[hf[2]] = hash_to_master[hf[1]]},
         sizes |-> file_to_sizes, free |-> free_block_list]

TInit ==
  /\ Init
  /\ step = "up" /\ disk = Empty /\ order = <<>>
  /\ mounts = 1 /\ saved = NULL /\ faults = 0 /\ mixed = FALSE
  /\ reused = {} /\ written = [fb \in FileBlocks |-> {}]

-----------------------------------------------------------------------------
(* While mounted. *)

Replaced == {k - 1 : k \in {j \in DOMAIN masterFILE : masterFILE'[j] # masterFILE[j]}}

Carried(r, fb) ==
  IF r.op = "write" /\ r.path = fb[1] /\ fb[2] \in r.start .. r.start + r.count - 1
  THEN {r.buf[fb[2] - r.start + 1]} ELSE {}

Serve ==
  /\ step = "up"
  /\ \E t \in Threads : Start(t) \/ Step(t)
  /\ reused' = reused \cup Replaced
  /\ written' = [fb \in FileBlocks |-> written[fb] \cup UNION {Carried(req'[t], fb) : t \in Threads}]
  /\ UNCHANGED <<step, disk, order, mounts, saved, faults, mixed>>

-----------------------------------------------------------------------------
(* index_destroy. *)

\* collect_value_index over both tables: each MasterInfo once, in the order
\* the iterations meet them.
Referenced == {m \in InfoIds : \/ \E h \in Hashes : hash_to_master[h] = m
                               \/ \E fb \in FileBlocks : file_to_master[fb] = m}

BeginSave ==
  /\ step = "up" /\ Quiescent
  /\ order' \in SetToSeqs(Referenced)
  /\ saved' = IF faults > 0 THEN NULL ELSE View
  /\ step' = "open_hash"
  /\ UNCHANGED <<vars, disk, mounts, faults, mixed, history>>

\* What save_indexed_entry writes for a MasterInfo: its place in the values.
IndexIn(m) == IF m = NULL THEN NULL ELSE (CHOOSE i \in DOMAIN order : order[i] = m) - 1
Indexed(table) == [k \in DOMAIN table |-> IndexIn(table[k])]

Encoded ==
  [hash |-> Indexed(hash_to_master), file |-> Indexed(file_to_master),
   values |-> [i \in DOMAIN order |-> info[order[i]]],
   sizes |-> file_to_sizes, free |-> free_block_list]

\* The opens, in their order: the step after a success, the step after a
\* failure, and whether a buffer is allocated then.
SecondTableLate ==
  [open_hash |-> [of |-> "hash", next |-> "open_values", skip |-> "open_sizes", alloc |-> FALSE],
   open_values |-> [of |-> "values", next |-> "write_values", skip |-> "write_hash", alloc |-> TRUE]]
PairOpens ==
  [open_hash |-> [of |-> "hash", next |-> "open_file", skip |-> "open_sizes", alloc |-> FALSE],
   open_file |-> [of |-> "file", next |-> "open_values", skip |-> "open_sizes", alloc |-> TRUE],
   open_values |-> [of |-> "values", next |-> "write_values", skip |-> "write_hash", alloc |-> TRUE]]
Opens ==
  PairOpens @@
  [open_sizes |-> [of |-> "sizes", next |-> "write_sizes", skip |-> "open_free", alloc |-> TRUE],
   open_free |-> [of |-> "free", next |-> "write_free", skip |-> "down", alloc |-> TRUE]]

\* The writes, in their order.
Writes ==
  [write_values |-> [of |-> "values", next |-> "write_hash"],
   write_hash |-> [of |-> "hash", next |-> "write_file"],
   write_file |-> [of |-> "file", next |-> "open_sizes"],
   write_sizes |-> [of |-> "sizes", next |-> "open_free"],
   write_free |-> [of |-> "free", next |-> "down"]]

\* The daemon ends; its memory, the index included, is gone.
Exit ==
  /\ step' = "down" /\ order' = <<>>
  /\ hash_to_master' = Empty.hash /\ file_to_master' = Empty.file
  /\ info' = [m \in InfoIds |-> Freed]
  /\ file_to_sizes' = Empty.sizes /\ free_block_list' = Empty.free /\ nextBlockIndex' = 0
  /\ NoThreadAtWork
  /\ UNCHANGED <<masterFILE, arrived>>

Goes(next) ==
  IF next = "down" THEN Exit ELSE step' = next /\ UNCHANGED <<vars, order>>

Fault == faults < MaxFaults /\ faults' = faults + 1 /\ saved' = NULL

\* open with O_TRUNC; a failure is not reported to index_destroy.
Open ==
  /\ step \in DOMAIN Opens
  /\ LET o == Opens[step] IN
     \/ /\ disk' = [disk EXCEPT ![o.of] = Empty[o.of]]
        /\ Goes(o.next)
        /\ UNCHANGED <<saved, faults, mixed>>
     \/ /\ o.alloc
        /\ disk' = [disk EXCEPT ![o.of] = Empty[o.of]]
        /\ Goes(o.skip)
        /\ Fault /\ UNCHANGED mixed
     \/ /\ o.of \in FailingOpens
        /\ Goes(o.skip)
        /\ UNCHANGED disk
        /\ Fault /\ mixed' = (mixed \/ o.of = "values")
  /\ UNCHANGED <<mounts, history>>

WriteOut ==
  /\ step \in DOMAIN Writes
  /\ disk' = [disk EXCEPT ![Writes[step].of] = Encoded[Writes[step].of]]
  /\ Goes(Writes[step].next)
  /\ UNCHANGED <<mounts, saved, faults, mixed, history>>

-----------------------------------------------------------------------------
(* The end of the daemon, and index_init. *)

\* What a write of v that was cut off can leave in file f.
PartsOf(f, v) ==
  IF f \in {"values", "free"} THEN {SubSeq(v, 1, k) : k \in 0 .. Len(v)}
  ELSE {[x \in DOMAIN v |-> IF x \in S THEN v[x] ELSE NULL] : S \in SUBSET DOMAIN v}

Crash ==
  /\ step # "down"
  /\ IF step \in DOMAIN Writes
     THEN LET f == Writes[step].of
          IN  \E v \in PartsOf(f, Encoded[f]) : disk' = [disk EXCEPT ![f] = v]
     ELSE UNCHANGED disk
  /\ Exit
  /\ Fault
  /\ UNCHANGED <<mounts, mixed, history>>

\* An entry whose index is not below values->len is left out.
ResolvesButLast(values, idx) == idx # NULL /\ idx + 1 < Len(values)
Resolves(values, idx) == idx # NULL /\ idx < Len(values)

\* Where the decoded MasterInfos lie on the heap: one for both tables.
Address(i) == SetToSeq(InfoIds)[i]
Pointers(values, table) ==
  [k \in DOMAIN table |-> IF Resolves(values, table[k]) THEN Address(table[k] + 1) ELSE NULL]

\* gslist_load appends what it reads.
LoadedBackwards(list) == Reverse(list)
LoadedList(list) == list

\* A load whose open fails gets an empty table.
LoadedFrom(f) == {disk[f]} \cup (IF "load" \in FailingOpens THEN {Empty[f]} ELSE {})

Failed(f, v) == IF v = disk[f] THEN 0 ELSE 1

Mount ==
  /\ step = "down" /\ mounts < MaxMounts
  /\ \E v \in LoadedFrom("values"), h \in LoadedFrom("hash"), f \in LoadedFrom("file"),
        s \in LoadedFrom("sizes"), l \in LoadedFrom("free") :
       /\ hash_to_master' = Pointers(v, h)
       /\ file_to_master' = Pointers(v, f)
       /\ info' = [m \in InfoIds |->
            LET at == {i \in DOMAIN v : /\ Address(i) = m
                                        /\ \/ \E k \in DOMAIN h : h[k] = i - 1
                                           \/ \E k \in DOMAIN f : f[k] = i - 1}
            IN  IF at = {} THEN Freed ELSE v[CHOOSE i \in at : TRUE]]
       /\ file_to_sizes' = s
       /\ free_block_list' = LoadedList(l)
       /\ faults' = faults + Failed("values", v) + Failed("hash", h) + Failed("file", f)
                           + Failed("sizes", s) + Failed("free", l)
       /\ faults' <= MaxFaults
  /\ nextBlockIndex' = AppendPoint
  /\ NoThreadAtWork
  /\ step' = "up" /\ mounts' = mounts + 1 /\ saved' = NULL
  /\ UNCHANGED <<masterFILE, arrived, disk, order, mixed, history>>

\* Mounted with nothing to do, or not mounted any more.
Idle == (step = "down" \/ (step = "up" /\ Quiescent)) /\ UNCHANGED <<vars, files>>

TNext == Serve \/ BeginSave \/ Open \/ WriteOut \/ Crash \/ Mount \/ Idle

TSpec == TInit /\ [][TNext]_<<vars, files>>

-----------------------------------------------------------------------------
(* Properties. *)

\* Unless something failed, index_init gives back the index that index_destroy
\* was given: every entry, its refcount and slot, the sharing of MasterInfos
\* between the two tables, the sizes and the free list in its LIFO order.
MountRestores == [][Mount /\ faults' = 0 => View' = saved]_<<vars, files>>

\* Unless something failed, the requests served after a mount keep the tables
\* consistent as those before it did: refcounts count the mappings and each
\* slot has one owner, with blocks of several mounts sharing slots.
ConsistentAcrossMounts == step = "up" /\ faults = 0 => RefcountExact /\ OneOwnerPerSlot

\* Wherever the daemon ended and whichever opens failed, the values' own in a
\* save excepted, a file block that is mapped after a load leads to a block
\* that was written to it, as long as no other block was put into its slot: no
\* file shows a block of another file, because both tables are truncated before
\* the values they index are rewritten.  When save_values_array cannot open its
\* file, ghash_save_indexed_pair goes on and the tables index older values.
MappingsTrue ==
  step = "up" /\ ~mixed =>
    \A fb \in FileBlocks :
      LET m == file_to_master[fb] IN
      m # NULL /\ info[m].masterBlockIndex \notin reused => FileContent(fb) \in written[fb]

\* The append point of xmp_init lies past every slot that any loaded table
\* leads to, also when masterFILE grew after the tables were saved.
AppendsPastTheIndex ==
  step = "up" => \A m \in Referenced : info[m].masterBlockIndex < nextBlockIndex

=============================================================================
