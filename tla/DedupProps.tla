----------------------------- MODULE DedupProps -----------------------------
(***************************************************************************)
(* What must hold of Dedup, and the invariant its proofs are by induction  *)
(* on.                                                                     *)
(***************************************************************************)
EXTENDS Dedup

Steps == {"idle", "p1lock", "p1", "p1take", "p1unlock", "drain", "append", "flush",
          "p3lock", "publish", "map", "p3unlock", "p3release",
          "rblock", "rbhits", "rbunlock", "rbrelease", "rbmisses",
          "rmlock", "remove", "rmunlock", "rmrelease", "setsize"}

Requests == [op : {"none", "write", "unlink", "truncate"}, path : Paths \cup {NULL},
             start : Nat, count : Nat, buf : Seq(Contents)]

\* The types of the index, of the storage and of what the threads hold.
TypeOK ==
  /\ hash_to_master \in [Hashes -> InfoIds \cup {NULL}]
  /\ file_to_master \in [Paths \X Blocks -> InfoIds \cup {NULL}]
  /\ file_to_sizes \in [Paths -> 0 .. MaxBlocks \cup {NULL}]
  /\ info \in [InfoIds -> MasterInfo]
  /\ free_block_list \in Seq(Nat)
  /\ nextBlockIndex \in Nat
  /\ masterFILE \in Seq(Contents \cup {NULL})
  /\ rdlock \subseteq Threads \cup Readers
  /\ wrlock \in Threads \cup {NULL}
  /\ arrived \in 0 .. MaxRequests
  /\ pc \in [Threads -> Steps]
  /\ req \in [Threads -> Requests]
  /\ blk \in [Threads -> Nat]
  /\ plan \in [Threads -> Seq(PlanEntry)]
  /\ miss_count \in [Threads -> Nat]
  /\ out \in [Threads -> Seq(Nat)]
  /\ rel \in [Threads -> Seq(Nat)]

\* metadata_rwlock does its work: while a thread changes the index, no other
\* thread changes it or looks something up in it.
RdSteps == {"p1", "p1take", "p1unlock"}
WrSteps == {"publish", "map", "p3unlock", "rbhits", "rbunlock", "remove", "rmunlock"}

MutualExclusion ==
  \A t, u \in Threads :
    t # u /\ pc[t] \in WrSteps => pc[u] \notin WrSteps \cup RdSteps

\* The entries of its plan through which a thread holds a reference: Passe 1
\* takes that of a HIT after it found it, Passe 3 hands them over to file_to_master one by one, a rollback gives the
\* HITs back one by one and then the MISSes together.
Held(t) ==
  CASE pc[t] = "p1take" -> {j \in DOMAIN plan[t] : j < blk[t]}
    [] pc[t] = "map" -> {j \in DOMAIN plan[t] : j >= blk[t]}
    [] pc[t] = "rbhits" -> {j \in DOMAIN plan[t] : j \in Misses(t) \/ j >= blk[t]}
    [] pc[t] \in {"rbunlock", "rbrelease", "rbmisses"} -> Misses(t)
    [] pc[t] \in {"p3unlock", "p3release"} -> {}
    [] OTHER -> DOMAIN plan[t]

MappedTo(m) == {fb \in Paths \X Blocks : file_to_master[fb] = m}
HeldBy(m) == {tj \in Threads \X (1 .. MaxBlocks) :
                tj[2] \in Held(tj[1]) /\ plan[tj[1]][tj[2]].info = m}

\* The refcount of every MasterInfo is the number of its holders, in
\* file_to_master and in the plans in flight.  A freed one has none, so no
\* pointer dangles; a live one has some, so none leaks.
RefcountExact ==
  \A m \in InfoIds :
    /\ info[m].refcount = Cardinality(MappedTo(m)) + Cardinality(HeldBy(m))
    /\ Live(m) <=> info[m].refcount > 0

\* No duplicates in the index: a mapped block points to the one MasterInfo
\* that hash_to_master has for its hash (the double check of Passe 3).
OneInfoPerHash ==
  /\ \A h \in Hashes : hash_to_master[h] # NULL => info[hash_to_master[h]].hash = h
  /\ \A fb \in Paths \X Blocks :
       LET m == file_to_master[fb]
       IN  m # NULL => \E h \in Hashes : hash_to_master[h] = m

\* Second aim of the three passes: an entry of hash_to_master always points
\* to a block that reached masterFILE, with the content that was hashed.
PublishedOnDisk ==
  \A h \in Hashes :
    LET m == hash_to_master[h]
    IN  m # NULL => /\ info[m].masterBlockIndex < Len(masterFILE)
                    /\ masterFILE[info[m].masterBlockIndex + 1] # NULL
                    /\ HashOf[masterFILE[info[m].masterBlockIndex + 1]] = h

\* The positions of master_blks[] whose slots a write still has to place.
Reserved(t) ==
  CASE pc[t] = "publish" -> {plan[t][j].rank : j \in {k \in Misses(t) : k >= blk[t]}}
    [] pc[t] \in {"map", "p3unlock", "p3release"} -> {}
    [] OTHER -> DOMAIN out[t]

\* The owners of slot s of each kind: places in the free list, entries of
\* hash_to_master, places in a write and in the local list of a release.
FreeOwners(s) == {<<"free", k>> : k \in {j \in DOMAIN free_block_list : free_block_list[j] = s}}
IndexOwners(s) ==
  {<<"index", h>> : h \in {g \in Hashes : /\ hash_to_master[g] # NULL
                                          /\ info[hash_to_master[g]].masterBlockIndex = s}}
WriteOwners(t, s) == {<<"write", t, k>> : k \in {j \in Reserved(t) : out[t][j] = s}}
ReleaseOwners(t, s) == {<<"release", t, k>> : k \in {j \in DOMAIN rel[t] : rel[t][j] = s}}
ThreadOwners(s) == UNION {WriteOwners(t, s) \cup ReleaseOwners(t, s) : t \in Threads}
Owners(s) == FreeOwners(s) \cup IndexOwners(s) \cup ThreadOwners(s)

\* Every slot below the append point has exactly one owner: the free list, a
\* published MasterInfo, a write that reserved it or a thread releasing it.
\* No slot is handed out twice and none leaks.
OneOwnerPerSlot == \A s \in 0 .. nextBlockIndex - 1 : Cardinality(Owners(s)) = 1

\* An index is never both in the free list and at or past the append point
\* (the note on nextBlockIndex of rollback_allocations).
NoDoubleAllocation == \A k \in DOMAIN free_block_list : free_block_list[k] < nextBlockIndex

\* Outside a change of the file, exactly the blocks below its logical size
\* are mapped, so a lookup that fails is the end of the file (read_dedup) and
\* a removal of 0 .. size-1 forgets none (xmp_unlink).
MappedBelowSize ==
  \A p \in Paths :
    (\A t \in Threads : req[t].path # p) =>
      \A b \in Blocks : file_to_master[<<p, b>>] # NULL <=> b < SizeOf(p)

\* No request makes another one wait for ever: each returns.
EveryRequestReturns == \A t \in Threads : pc[t] # "idle" ~> pc[t] = "idle"

-----------------------------------------------------------------------------
(* The invariant that makes TypeOK and MutualExclusion inductive. *)

\* A thread holds metadata_rwlock exactly in the steps that need it.
LockInv ==
  /\ \A t \in Threads : /\ t \in rdlock <=> pc[t] \in RdSteps
                        /\ t = wrlock <=> pc[t] \in WrSteps
  /\ wrlock # NULL => rdlock = {}

RemoveSteps == {"rmlock", "remove", "rmunlock", "rmrelease", "setsize"}
AllocatedSteps == {"flush", "p3lock", "publish", "map", "p3unlock", "p3release",
                   "rblock", "rbhits", "rbunlock", "rbrelease", "rbmisses"}
PlannedSteps == {"p1unlock", "drain", "append"} \cup AllocatedSteps
LoopSteps == {"p1", "p1take", "publish", "map", "rbhits", "remove"}

\* The request of a thread at work lies within the file; that of a write is
\* its buffer.
RequestShape(t) ==
  /\ pc[t] # "idle" => req[t].path \in Paths /\ req[t].start + req[t].count <= MaxBlocks
  /\ pc[t] \in PlannedSteps \cup {"p1lock", "p1", "p1take"} => req[t].count = Len(req[t].buf) /\ req[t].count > 0
  /\ pc[t] \in {"rmlock", "remove"} => req[t].count > 0

\* A loop counter is within its loop and starts at 1.
LoopShape(t) ==
  /\ blk[t] > 0
  /\ pc[t] \in LoopSteps => blk[t] <= req[t].count
  /\ pc[t] \notin LoopSteps \cup {"flush"} => blk[t] = 1

\* A plan grows with the loop of Passe 1 and is complete after it; its MISSes
\* have ranks within miss_count.
PlanShape(t) ==
  /\ pc[t] \in RemoveSteps \cup {"idle", "p1lock"} => plan[t] = <<>> /\ miss_count[t] = 0
  /\ pc[t] = "p1" => Len(plan[t]) = blk[t] - 1
  /\ pc[t] = "p1take" => Len(plan[t]) = blk[t]
  /\ pc[t] \in PlannedSteps => Len(plan[t]) = req[t].count
  /\ \A j \in Misses(t) : plan[t][j].rank \in 1 .. miss_count[t]
  /\ miss_count[t] > 0 => Misses(t) # {}
  /\ pc[t] \in {"drain", "append", "flush"} => miss_count[t] > 0

\* The allocation gives one slot per MISS, and a flush has a MISS to write.
SlotShape(t) ==
  /\ pc[t] \notin AllocatedSteps \cup {"append"} => out[t] = <<>>
  /\ pc[t] = "append" => Len(out[t]) <= miss_count[t]
  /\ pc[t] \in AllocatedSteps => Len(out[t]) = miss_count[t]
  /\ pc[t] = "flush" => Unflushed(t) # {}

Shape(t) == RequestShape(t) /\ LoopShape(t) /\ PlanShape(t) /\ SlotShape(t)

\* The inductive invariant: types, locks and locals agree with the steps.
TypeInv == TypeOK /\ LockInv /\ \A t \in Threads : Shape(t)

=============================================================================
