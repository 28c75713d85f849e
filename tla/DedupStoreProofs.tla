-------------------------- MODULE DedupStoreProofs --------------------------
(***************************************************************************)
(* What masterFILE holds in the slots of published blocks and of blocks    *)
(* that were flushed, and with that the whole of SlotInv: its first state, *)
(* its steps, and what it says of the owners of a slot.                    *)
(***************************************************************************)
EXTENDS DedupSlotProofs

-----------------------------------------------------------------------------
(* What masterFILE holds. *)

\* Whatever slot s holds, it holds after the step.
Keeps(s) == \A h : OnDisk(s, h) => OnDisk(s, h)'

\* A flushed block lies in a slot that its write still holds.
LEMMA FlushedHeld ==
  ASSUME TypeInv, NEW t \in Threads, SlotsPlaced(t), NoRepeats(out[t]), NEW j \in Flushed(t)
  PROVE  j \in Misses(t) /\ MasterBlk(t, j) \in Slots("write", t)
<1>1. /\ pc[t] \in {"flush", "p3lock", "publish"}
      /\ pc[t] # "flush" => j \in Pending(t)
      /\ pc[t] = "flush" => j \in Misses(t)
  BY DEF Flushed
<1>2. j \in Misses(t)
  BY <1>1, EntryRange, Zenon
<1>3. pc[t] \in AllocatedSteps /\ pc[t] \notin PlacedSteps
  BY <1>1 DEF AllocatedSteps, PlacedSteps
<1>4. plan[t][j].rank \in DOMAIN out[t]
  BY <1>2, <1>3, OwnSlots, ZenonT(30)
<1>5. CASE pc[t] # "publish"
  <2>1. Slots("write", t) = Range(out[t])
    BY <1>3, <1>5, WriteSlots, ZenonT(30)
  <2>. QED
    BY <1>2, <1>4, <2>1, ZenonT(30) DEF Range, MasterBlk
<1>6. CASE pc[t] = "publish"
  <2>1. "publish" # "flush"
    OBVIOUS
  <2>2. plan[t][j].rank \in Reserved(t)
    BY <1>1, <1>6, <2>1, ZenonT(30) DEF Reserved, Pending
  <2>3. Slots("write", t) = {out[t][i] : i \in Reserved(t)}
    BY SlotSets, Zenon
  <2>. QED
    BY <1>2, <2>2, <2>3, ZenonT(30) DEF MasterBlk
<1>. QED
  BY <1>5, <1>6, Zenon

\* A thread that does not move keeps what it flushed.
LEMMA OtherFlushed ==
  ASSUME NEW u \in Threads, SameLocals(u)
  PROVE  /\ Flushed(u)' = Flushed(u) /\ Unflushed(u)' = Unflushed(u)
         /\ \A j : MasterBlk(u, j)' = MasterBlk(u, j) /\ req'[u] = req[u]
<1>1. pc'[u] = pc[u] /\ blk'[u] = blk[u] /\ plan'[u] = plan[u] /\ out'[u] = out[u] /\ req'[u] = req[u]
  BY Zenon DEF SameLocals
<1>2. Misses(u)' = Misses(u) /\ Pending(u)' = Pending(u)
  BY <1>1, OtherEntries, Zenon DEF Misses
<1>3. Unflushed(u)' = Unflushed(u)
  BY <1>1, <1>2, Zenon DEF Unflushed
<1>4. Flushed(u)' = Flushed(u)
  BY <1>1, <1>2, <1>3, ZenonT(30) DEF Flushed
<1>. QED
  BY <1>1, <1>3, <1>4, ZenonT(30) DEF MasterBlk

\* The slots of the index and of the other threads keep their content.
LEMMA StoredStep ==
  ASSUME TypeInv, Placed, Owned, Stored, NEW t \in Threads, \A u \in Threads \ {t} : SameLocals(u), IndexKept,
         \A s \in Slots("index", NULL) : Keeps(s),
         \A u \in Threads \ {t} : \A s \in Slots("write", u) : Keeps(s),
         \A h \in Hashes : hash_to_master'[h] # NULL =>
           hash_to_master'[h] = hash_to_master[h] \/ OnDisk(IndexSlot(h), h)',
         \A j \in Flushed(t)' : OnDisk(MasterBlk(t, j), HashOf[req[t].buf[j]])',
         WrittenBelow'
  PROVE  Stored'
<1>1. ASSUME NEW h \in Hashes, hash_to_master'[h] # NULL
      PROVE  OnDisk(IndexSlot(h), h)'
  <2>1. CASE hash_to_master'[h] = hash_to_master[h]
    <3>1. PICK s : s = IndexSlot(h)
      BY Zenon
    <3>2. h \in InIndex /\ IndexSlot(h)' = s
      BY <1>1, <2>1, <3>1, ZenonT(30) DEF InIndex, IndexSlot, IndexKept
    <3>3. s \in Slots("index", NULL)
      BY <3>1, <3>2, SlotSets, ZenonT(30)
    <3>4. OnDisk(s, h)
      BY <1>1, <2>1, <3>1, ZenonT(30) DEF Stored, PublishedOnDisk, OnDisk, IndexSlot
    <3>5. OnDisk(s, h)'
      BY <3>3, <3>4, Zenon DEF Keeps
    <3>. QED
      BY <3>2, <3>5, Zenon DEF OnDisk
  <2>. QED
    BY <1>1, <2>1, Zenon
<1>2. PublishedOnDisk'
  BY <1>1, Zenon DEF PublishedOnDisk, OnDisk, IndexSlot
<1>3. ASSUME NEW u \in Threads, NEW j \in Flushed(u)'
      PROVE  OnDisk(MasterBlk(u, j), HashOf[req[u].buf[j]])'
  <2>1. CASE u # t
    <3>1. j \in Flushed(u) /\ MasterBlk(u, j)' = MasterBlk(u, j) /\ req'[u] = req[u]
      BY <1>3, <2>1, OtherFlushed, ZenonT(30)
    <3>2. PICK s : s = MasterBlk(u, j)
      BY Zenon
    <3>3. s \in Slots("write", u)
      BY <3>1, <3>2, FlushedHeld, ZenonT(30) DEF Placed, Owned, Unrepeated
    <3>4. OnDisk(s, HashOf[req[u].buf[j]])
      BY <3>1, <3>2, Zenon DEF Stored
    <3>5. PICK h : h = HashOf[req[u].buf[j]]
      BY Zenon
    <3>6. OnDisk(s, h)'
      BY <2>1, <3>3, <3>4, <3>5, ZenonT(30) DEF Keeps
    <3>. QED
      BY <3>1, <3>2, <3>5, <3>6, ZenonT(30) DEF OnDisk
  <2>. QED
    BY <1>3, <2>1, Zenon
<1>. QED
  BY <1>2, <1>3, Zenon DEF Stored

\* A step that writes nothing to masterFILE.
LEMMA QuietStored ==
  ASSUME TypeInv, Placed, Owned, Stored, NEW t \in Threads, \A u \in Threads \ {t} : SameLocals(u), IndexKept,
         pc[t] # "flush", masterFILE' = masterFILE, nextBlockIndex' = nextBlockIndex,
         \A h \in Hashes : hash_to_master'[h] # NULL =>
           hash_to_master'[h] = hash_to_master[h] \/ OnDisk(IndexSlot(h), h)',
         \A j \in Flushed(t)' : j \in Flushed(t) /\ MasterBlk(t, j)' = MasterBlk(t, j) /\ req'[t] = req[t]
  PROVE  Stored'
<1>1. \A s : Keeps(s)
  BY Zenon DEF Keeps, OnDisk
<1>2. ASSUME NEW j \in Flushed(t)'
      PROVE  OnDisk(MasterBlk(t, j), HashOf[req[t].buf[j]])'
  <2>1. OnDisk(MasterBlk(t, j), HashOf[req[t].buf[j]])
    BY <1>2, Zenon DEF Stored
  <2>. QED
    BY <1>2, <2>1, ZenonT(30) DEF OnDisk
<1>3. WrittenBelow'
  <2>1. ASSUME ~WithIOError, NEW s \in Len(masterFILE) .. nextBlockIndex - 1
        PROVE  \E u \in Threads : pc'[u] = "flush" /\ \E j \in Unflushed(u)' : MasterBlk(u, j)' = s
    <3>1. PICK u \in Threads : pc[u] = "flush" /\ \E j \in Unflushed(u) : MasterBlk(u, j) = s
      BY <2>1, Zenon DEF Stored, WrittenBelow
    <3>2. u \in Threads \ {t}
      BY <3>1, Zenon
    <3>3. pc'[u] = "flush" /\ Unflushed(u)' = Unflushed(u) /\ \A j : MasterBlk(u, j)' = MasterBlk(u, j)
      BY <3>1, <3>2, OtherFlushed, ZenonT(30) DEF SameLocals
    <3>. QED
      BY <3>1, <3>3, Zenon
  <2>2. Len(masterFILE) <= nextBlockIndex
    BY Zenon DEF Stored, WrittenBelow
  <2>. QED
    BY <2>1, <2>2, Zenon DEF WrittenBelow
<1>. QED
  BY <1>1, <1>2, <1>3, StoredStep, ZenonT(30)

\* Outside Passe 2 and publish_plan a write has no flushed block pending.
LEMMA NothingFlushed ==
  ASSUME NEW t \in Threads
  PROVE  pc'[t] \notin {"flush", "p3lock", "publish"} => Flushed(t)' = {}
BY DEF Flushed

\* What pwrite leaves in the file.
Written(file, slot, data, f) ==
  /\ f \in Seq(Contents \cup {NULL}) /\ Len(file) <= Len(f) /\ slot + Len(data) <= Len(f)
  /\ Len(f) = Len(file) \/ Len(f) = slot + Len(data)
  /\ \A k \in 1 .. Len(data) : f[slot + k] = data[k]
  /\ \A k \in 1 .. Len(file) : k \notin slot + 1 .. slot + Len(data) => f[k] = file[k]

\* pwrite changes the slots it covers and extends the file to hold them.
LEMMA PWriteEffect ==
  ASSUME NEW file \in Seq(Contents \cup {NULL}), NEW slot \in Nat, NEW data \in Seq(Contents),
         NEW f, f = PWrite(file, slot, data)
  PROVE  Written(file, slot, data, f)
<1>0. Len(file) \in Nat /\ slot + Len(data) \in Nat /\ Len(file) \in Int /\ slot + Len(data) \in Int
  OBVIOUS
<1>1. PICK n : n = Max({Len(file), slot + Len(data)})
  BY Zenon
<1>2. n \in Nat /\ Len(file) <= n /\ slot + Len(data) <= n /\ (n = Len(file) \/ n = slot + Len(data))
  <2>1. n \in {Len(file), slot + Len(data)} /\ Len(file) <= n /\ slot + Len(data) <= n
    BY <1>0, <1>1, PairMinMax, Zenon
  <2>. QED
    BY <1>0, <2>1, Zenon
<1>3. f = [k \in 1 .. n |-> IF k \in slot + 1 .. slot + Len(data) THEN data[k - slot]
                            ELSE IF k <= Len(file) THEN file[k] ELSE NULL]
  BY <1>1, Zenon DEF PWrite
<1>4. \A k \in 1 .. n : k \in slot + 1 .. slot + Len(data) => f[k] = data[k - slot] /\ k - slot \in 1 .. Len(data)
  BY <1>3
<1>5. \A k \in 1 .. n : k \notin slot + 1 .. slot + Len(data) /\ k <= Len(file) => f[k] = file[k] /\ k \in 1 .. Len(file)
  BY <1>3
<1>6. \A k \in 1 .. n : k \notin slot + 1 .. slot + Len(data) /\ ~(k <= Len(file)) => f[k] = NULL
  BY <1>3
<1>7. \A k \in 1 .. n : f[k] \in Contents \cup {NULL}
  BY <1>4, <1>5, <1>6, SeqElement, ZenonT(30)
<1>8. DOMAIN f = 1 .. n /\ f = [k \in 1 .. n |-> f[k]]
  BY <1>3, Zenon
<1>9. f \in Seq(Contents \cup {NULL}) /\ Len(f) = n
  <2>1. f \in [1 .. n -> Contents \cup {NULL}]
    BY <1>7, <1>8, ZenonT(30)
  <2>. QED
    BY <1>2, <2>1, SMTT(30)
<1>10. \A k \in 1 .. Len(data) : slot + k \in 1 .. n /\ slot + k \in slot + 1 .. slot + Len(data) /\ (slot + k) - slot = k
  BY <1>2
<1>11. \A k \in 1 .. Len(data) : f[slot + k] = data[k]
  BY <1>4, <1>10, SMTT(30)
<1>12. \A k \in 1 .. Len(file) : k \in 1 .. n /\ k <= Len(file)
  BY <1>2
<1>. QED
  BY <1>2, <1>5, <1>9, <1>11, <1>12, ZenonT(30) DEF Written

\* The blocks a .. b of a buffer, written from slot on.
Laid(buf, a, b, slot, data) ==
  /\ data \in Seq(Contents) /\ Len(data) = b - a + 1
  /\ \A j \in a .. b : j - a + 1 \in 1 .. Len(data) /\ data[j - a + 1] = buf[j] /\ buf[j] \in Contents
  /\ \A s \in slot .. slot + Len(data) - 1 : \E j \in a .. b : s = slot + j - a

\* A run of the buffer, block by block, in the slots from the first one on.
LEMMA Slice ==
  ASSUME NEW buf \in Seq(Contents), NEW a \in Nat, NEW b \in Nat, 1 <= a, a <= b, b <= Len(buf), NEW slot \in Nat,
         NEW data, data = SubSeq(buf, a, b)
  PROVE  Laid(buf, a, b, slot, data)
<1>1. /\ data \in Seq(Contents) /\ Len(data) = b - a + 1
      /\ \A i \in 1 .. b - a + 1 : data[i] = buf[a + i - 1]
  BY SeqSlice
<1>2. ASSUME NEW j \in a .. b
      PROVE  j - a + 1 \in 1 .. Len(data) /\ data[j - a + 1] = buf[j] /\ buf[j] \in Contents
  <2>1. j - a + 1 \in 1 .. b - a + 1 /\ a + (j - a + 1) - 1 = j /\ j \in 1 .. Len(buf)
    OBVIOUS
  <2>2. buf[j] \in Contents
    BY <2>1, SeqElement, Zenon
  <2>3. data[j - a + 1] = buf[a + (j - a + 1) - 1]
    BY <1>1, <2>1, ZenonT(30)
  <2>. QED
    BY <1>1, <2>1, <2>2, <2>3, ZenonT(30)
<1>3. ASSUME NEW s \in slot .. slot + Len(data) - 1
      PROVE  \E j \in a .. b : s = slot + j - a
  <2>1. s - slot + a \in a .. b /\ s = slot + (s - slot + a) - a
    BY <1>1
  <2>. QED
    BY <2>1, Zenon
<1>. QED
  BY <1>1, <1>2, <1>3, ZenonT(30) DEF Laid

\* The run that flush_plan writes at once: its slots follow each other and
\* are reserved by the thread.
RunAt(t, a, b, slot, data) ==
  /\ a \in Nat /\ b \in Nat /\ a <= b /\ slot \in Nat /\ data \in Seq(Contents) /\ Len(data) = b - a + 1
  /\ \A j \in a .. b : /\ j \in Misses(t) /\ MasterBlk(t, j) = slot + j - a
                       /\ j - a + 1 \in 1 .. Len(data) /\ data[j - a + 1] = req[t].buf[j]
                       /\ req[t].buf[j] \in Contents
  /\ \A s \in slot .. slot + Len(data) - 1 : s \in Slots("write", t) /\ \E j \in a .. b : s = MasterBlk(t, j)
  /\ slot + Len(data) <= nextBlockIndex

\* The run that flush_plan writes next lies in consecutive slots of its write.
LEMMA RunSlots ==
  ASSUME MinMaxLaws, TypeInv, NEW t \in Threads, SlotsPlaced(t), NoRepeats(out[t]), Complete, pc[t] = "flush",
         NEW a, a = RunStart(t), NEW b, b = RunEnd(t),
         NEW slot, slot = MasterBlk(t, a), NEW data, data = SubSeq(req[t].buf, a, b)
  PROVE  RunAt(t, a, b, slot, data)
<1>1. a \in Nat /\ b \in Nat /\ 1 <= a /\ a <= b /\ b <= Len(req[t].buf) /\ slot \in Nat /\ InRun(t, b)
  BY RunFacts, Zenon
<1>4. req[t].buf \in Seq(Contents)
  BY Parts, LocalTypes, Zenon
<1>5. /\ data \in Seq(Contents) /\ Len(data) = b - a + 1
      /\ \A j \in a .. b : /\ j - a + 1 \in 1 .. Len(data) /\ data[j - a + 1] = req[t].buf[j]
                           /\ req[t].buf[j] \in Contents
      /\ \A s \in slot .. slot + Len(data) - 1 : \E j \in a .. b : s = slot + j - a
  <2>1. Laid(req[t].buf, a, b, slot, data)
    BY <1>1, <1>4, Slice, Zenon
  <2>. QED
    BY <2>1, Zenon DEF Laid
<1>6. \A j \in a .. b : j \in Misses(t) /\ MasterBlk(t, j) = slot + j - a
  BY <1>1, Zenon DEF InRun
<1>7. Slots("write", t) = Range(out[t]) /\ pc[t] \in AllocatedSteps
  <2>1. pc[t] \notin PlacedSteps \cup {"publish"} /\ pc[t] \in AllocatedSteps
    BY DEF PlacedSteps, AllocatedSteps
  <2>. QED
    BY <2>1, WriteSlots, Zenon
<1>8. \A j \in a .. b : MasterBlk(t, j) \in Slots("write", t)
  <2>1. \A j \in Misses(t) : plan[t][j].rank \in DOMAIN out[t]
    BY <1>7, OwnSlots, Zenon
  <2>. QED
    BY <1>6, <1>7, <2>1, ZenonT(30) DEF MasterBlk, Range
<1>9. ASSUME NEW s \in slot .. slot + Len(data) - 1
      PROVE  s \in Slots("write", t) /\ \E j \in a .. b : s = MasterBlk(t, j)
  <2>1. PICK j \in a .. b : s = slot + j - a
    BY <1>5, <1>9, Zenon
  <2>2. s = MasterBlk(t, j)
    BY <1>6, <2>1, Zenon
  <2>. QED
    BY <1>8, <2>2, Zenon
<1>10. slot + Len(data) <= nextBlockIndex
  <2>1. b \in a .. b
    BY <1>1
  <2>2. "write" \in Kinds /\ t \in Holders
    BY KindNames, Zenon DEF Holders
  <2>3. MasterBlk(t, b) \in 0 .. nextBlockIndex - 1 /\ MasterBlk(t, b) = slot + b - a
    BY <1>6, <1>8, <2>1, <2>2, ZenonT(30) DEF Complete
  <2>4. nextBlockIndex \in Nat
    BY Parts, Zenon DEF TypeOK
  <2>5. slot + b - a \in 0 .. nextBlockIndex - 1
    BY <2>3, Zenon
  <2>6. slot + (b - a + 1) <= nextBlockIndex
    BY <1>1, <2>4, <2>5, SMTT(30)
  <2>. QED
    BY <1>5, <2>6, Zenon
<1>11. \A j \in a .. b : /\ j \in Misses(t) /\ MasterBlk(t, j) = slot + j - a
                        /\ j - a + 1 \in 1 .. Len(data) /\ data[j - a + 1] = req[t].buf[j]
                        /\ req[t].buf[j] \in Contents
  BY <1>5, <1>6, Zenon
<1>. QED
  BY <1>1, <1>5, <1>9, <1>10, <1>11, ZenonT(30) DEF RunAt

\* A write to slots that a thread reserves keeps what every other slot holds.
KeepsAround(t, slot, n) ==
  /\ \A s \in Nat : s \notin slot .. slot + n - 1 => Keeps(s)
  /\ \A s \in Slots("index", NULL) : Keeps(s)
  /\ \A u \in Threads \ {t} : \A s \in Slots("write", u) : Keeps(s)

\* A write into slots of thread t leaves the blocks of all others on disk.
LEMMA FlushKeeps ==
  ASSUME TypeInv, Unshared, Complete, NEW t \in Threads, NEW slot \in Nat, NEW n \in Nat,
         \A s \in slot .. slot + n - 1 : s \in Slots("write", t),
         masterFILE' \in Seq(Contents \cup {NULL}), Len(masterFILE) <= Len(masterFILE'),
         \A k \in 1 .. Len(masterFILE) : k \notin slot + 1 .. slot + n => masterFILE'[k] = masterFILE[k]
  PROVE  KeepsAround(t, slot, n)
<1>1. masterFILE \in Seq(Contents \cup {NULL}) /\ nextBlockIndex \in Nat
  BY Parts, Zenon DEF TypeOK
<1>2. ASSUME NEW s \in Nat, s \notin slot .. slot + n - 1, NEW h, OnDisk(s, h)
      PROVE  OnDisk(s, h)'
  <2>1. s < Len(masterFILE) /\ masterFILE[s + 1] # NULL /\ HashOf[masterFILE[s + 1]] = h
    BY <1>2, Zenon DEF OnDisk
  <2>2. s + 1 \in 1 .. Len(masterFILE) /\ s + 1 \notin slot + 1 .. slot + n /\ s < Len(masterFILE')
    BY <1>1, <1>2, <2>1
  <2>3. masterFILE'[s + 1] = masterFILE[s + 1]
    BY <2>2, Zenon
  <2>. QED
    BY <2>1, <2>2, <2>3, Zenon DEF OnDisk
<1>3. ASSUME NEW kind \in Kinds, NEW u \in Holders, NEW s \in Slots(kind, u) PROVE s \in Nat
  <2>1. s \in 0 .. nextBlockIndex - 1
    BY <1>3, Zenon DEF Complete
  <2>. QED
    BY <1>1, <2>1
<1>4. \A s \in Nat : s \notin slot .. slot + n - 1 => Keeps(s)
  BY <1>2, Zenon DEF Keeps
<1>5. ASSUME NEW s \in Slots("index", NULL) PROVE Keeps(s)
  <2>1. s \notin Slots("write", t)
    BY <1>5, Apart, Zenon
  <2>2. s \in Nat
    BY <1>3, <1>5, KindNames, Zenon DEF Holders
  <2>. QED
    BY <1>4, <2>1, <2>2, Zenon
<1>6. ASSUME NEW u \in Threads \ {t}, NEW s \in Slots("write", u) PROVE Keeps(s)
  <2>1. s \notin Slots("write", t)
    BY <1>6, Apart, Zenon
  <2>2. s \in Nat
    BY <1>3, <1>6, KindNames, ZenonT(30) DEF Holders
  <2>. QED
    BY <1>4, <2>1, <2>2, Zenon
<1>. QED
  BY <1>4, <1>5, <1>6, Zenon DEF KeepsAround

\* A write that stops early, and may tear the next block, changes no slot
\* outside its run and ends the file no later.
Torn(file, slot, len, f) ==
  /\ f \in Seq(Contents \cup {NULL}) /\ Len(file) <= Len(f)
  /\ Len(f) = Len(file) \/ Len(f) <= slot + len
  /\ \A k \in 1 .. Len(file) : k \notin slot + 1 .. slot + len => f[k] = file[k]

\* A pwrite that is short or fails harms only slots of its own run.
LEMMA TornEffect ==
  ASSUME NEW file \in Seq(Contents \cup {NULL}), NEW slot \in Nat, NEW data \in Seq(Contents),
         NEW n \in 0 .. Len(data) - 1, NEW torn,
         NEW g, g = IF n = 0 THEN file ELSE PWrite(file, slot, SubSeq(data, 1, n)),
         NEW f, f = IF torn /\ slot + n < Len(g) THEN [g EXCEPT ![slot + n + 1] = NULL] ELSE g
  PROVE  Torn(file, slot, Len(data), f)
<1>1. Torn(file, slot, Len(data), g)
  <2>1. CASE n = 0
    <3>1. g = file
      BY <2>1, Zenon
    <3>2. Len(file) <= Len(file)
      OBVIOUS
    <3>. QED
      BY <3>1, <3>2, Zenon DEF Torn
  <2>2. CASE n # 0
    <3>1. PICK part : part = SubSeq(data, 1, n)
      BY Zenon
    <3>2. part \in Seq(Contents) /\ Len(part) = n /\ n \in Nat /\ n <= Len(data)
      BY <2>2, <3>1, SMTT(30)
    <3>3. Written(file, slot, part, g)
      <4>1. g = PWrite(file, slot, part)
        BY <2>2, <3>1, ZenonT(30)
      <4>. QED
        BY <3>2, <4>1, PWriteEffect, ZenonT(30)
    <3>4. /\ g \in Seq(Contents \cup {NULL}) /\ Len(file) <= Len(g)
          /\ Len(g) = Len(file) \/ Len(g) = slot + n
          /\ \A k \in 1 .. Len(file) : k \notin slot + 1 .. slot + n => g[k] = file[k]
      BY <3>2, <3>3, ZenonT(30) DEF Written
    <3>5. \A k \in 1 .. Len(file) : k \notin slot + 1 .. slot + Len(data) => k \notin slot + 1 .. slot + n
      BY <3>2
    <3>6. slot + n <= slot + Len(data)
      BY <3>2
    <3>. QED
      BY <3>4, <3>5, <3>6, ZenonT(30) DEF Torn
  <2>. QED
    BY <2>1, <2>2, ZenonT(30)
<1>2. CASE torn /\ slot + n < Len(g)
  <2>1. PICK i : i = slot + n + 1
    BY Zenon
  <2>2. /\ g \in Seq(Contents \cup {NULL}) /\ Len(file) <= Len(g)
        /\ Len(g) = Len(file) \/ Len(g) <= slot + Len(data)
        /\ \A k \in 1 .. Len(file) : k \notin slot + 1 .. slot + Len(data) => g[k] = file[k]
    BY <1>1, Zenon DEF Torn
  <2>3. i \in 1 .. Len(g) /\ i \in slot + 1 .. slot + Len(data) /\ NULL \in Contents \cup {NULL}
    <3>1. Len(g) \in Nat /\ slot + n < Len(g)
      BY <1>2, <2>2, SMTT(30)
    <3>. QED
      BY <2>1, <3>1, SMTT(30)
  <2>4. f = [g EXCEPT ![i] = NULL]
    BY <1>2, <2>1, ZenonT(30)
  <2>5. f \in Seq(Contents \cup {NULL}) /\ Len(f) = Len(g) /\ \A j \in 1 .. Len(g) : j # i => f[j] = g[j]
    <3>1. g \in Seq(Contents \cup {NULL}) /\ i \in 1 .. Len(g) /\ NULL \in Contents \cup {NULL}
      BY <2>2, <2>3, ZenonT(30)
    <3>2. [g EXCEPT ![i] = NULL] \in Seq(Contents \cup {NULL}) /\ Len([g EXCEPT ![i] = NULL]) = Len(g)
      BY <3>1
    <3>3. DOMAIN g = 1 .. Len(g)
      BY <3>1
    <3>4. \A j \in 1 .. Len(g) : j # i => [g EXCEPT ![i] = NULL][j] = g[j]
      BY <3>3, ZenonT(30)
    <3>. QED
      BY <2>4, <3>2, <3>4, ZenonT(30)
  <2>6. \A k \in 1 .. Len(file) : k \in 1 .. Len(g)
    BY <2>2
  <2>. QED
    BY <2>2, <2>3, <2>5, <2>6, ZenonT(30) DEF Torn
<1>3. CASE ~(torn /\ slot + n < Len(g))
  BY <1>1, <1>3, Zenon
<1>. QED
  BY <1>2, <1>3, ZenonT(30)

\* Every step keeps Stored: what is published or flushed is on disk.
LEMMA NextStored ==
  ASSUME MinMaxLaws, CountingLaws, TypeInv, RefInv, Placed, Owned, Stored
  PROVE  \A t \in Threads : Start(t) \/ Step(t) => Stored'
\* The steps of a request other than the ones on masterFILE and publish_plan.
<1>CalmStored. ASSUME TypeInv, RefInv, Placed, Owned, Stored, NEW t \in Threads, \A u \in Threads \ {t} : SameLocals(u), IndexKept,
           Calm(t), pc[t] # "flush"
    PROVE  Stored'
  <2> USE <1>CalmStored
  <2>1. /\ plan' = plan /\ out' = out /\ nextBlockIndex' = nextBlockIndex /\ <<pc[t], pc'[t]>> \in CalmSteps
        /\ pc[t] = "p1unlock" /\ pc'[t] = "p3lock" => Misses(t) = {}
    BY CalmStep, Zenon
  <2>2. masterFILE' = masterFILE /\ (pc'[t] \in {"p3lock", "publish"} => req' = req)
    <3>1. ~FlushRun(t) /\ ~FlushFail(t)
      BY Zenon DEF FlushRun, FlushFail
    <3>2. CASE Start(t)
      <4>1. masterFILE' = masterFILE /\ pc[t] = "idle"
        BY <3>2, ZenonT(30) DEF Start, StartWrite, StartUnlink, StartTruncate, Arrive, store
      <4>2. pc'[t] \notin {"p3lock", "publish"}
        BY <2>1, <4>1, SMTT(30) DEF CalmSteps
      <4>. QED
        BY <4>1, <4>2, ZenonT(30)
    <3>. QED
      BY <3>1, <3>2, ZenonT(30) DEF Calm, P1Lock, P1Take, P1Unlock, P3Lock, MapBlock, P3Unlock, RbLock, RbHit, RbUnlock,
         RbRelease, RmLock, RmBlock, RmUnlock, RmRelease, store, request
  <2>3. \A h \in Hashes : hash_to_master'[h] # NULL => hash_to_master'[h] = hash_to_master[h]
    <3>1. CASE hash_to_master' = hash_to_master
      BY <3>1, Zenon
    <3>2. ASSUME NEW m \in InfoIds, info[m].refcount = 1, DropReference(t, m)
          PROVE  \A h \in Hashes : hash_to_master'[h] # NULL => hash_to_master'[h] = hash_to_master[h]
      <4>1. hash_to_master' = [hash_to_master EXCEPT ![info[m].hash] = NULL] /\ DOMAIN hash_to_master = Hashes
        BY <3>2, Parts, ZenonT(30) DEF DropReference, TypeOK
      <4>. QED
        BY <4>1, Zenon
    <3>. QED
      BY <3>1, <3>2, CalmCases, ZenonT(30)
  <2>4. ASSUME NEW j \in Flushed(t)'
        PROVE  j \in Flushed(t) /\ MasterBlk(t, j)' = MasterBlk(t, j) /\ req'[t] = req[t]
    <3>1. pc'[t] \in {"p3lock", "publish"}
      BY <2>1, <2>4, CalmClasses, NothingFlushed, ZenonT(30)
    <3>2. j \in Pending(t)'
      BY <2>4, <3>1, SMTT(30) DEF Flushed
    <3>3. j \in Misses(t)
      BY <2>1, <3>2, ZenonT(30) DEF Pending, Misses
    <3>4. pc[t] = "p3lock" /\ pc'[t] = "publish"
      BY <2>1, <3>1, <3>3, CalmClasses, ZenonT(30)
    <3>5. j \in Pending(t)
      BY <2>1, <3>3, <3>4, SMTT(30) DEF Pending
    <3>6. j \in Flushed(t)
      BY <3>4, <3>5 DEF Flushed
    <3>. QED
      BY <2>1, <2>2, <3>1, <3>6, ZenonT(30) DEF MasterBlk
  <2>. QED
    BY <2>1, <2>2, <2>3, <2>4, QuietStored, ZenonT(30)
\* publish_plan enters a block in the index after its flush.
<1>PublishStored. ASSUME TypeInv, RefInv, Placed, Owned, Stored, NEW t \in Threads, \A u \in Threads \ {t} : SameLocals(u), IndexKept,
           PublishBlock(t)
    PROVE  Stored'
  <2> USE <1>PublishStored
  <2>1. /\ pc[t] = "publish" /\ pc'[t] \in {"publish", "map"} /\ Misses(t)' = Misses(t)
        /\ \A j \in Misses(t) : plan'[t][j].rank = plan[t][j].rank
        /\ Pending(t)' = Pending(t) \ {blk[t]} /\ UNCHANGED <<nextBlockIndex, masterFILE, out, req>>
    BY PublishPlan, Zenon
  <2>2. Flushed(t) = Pending(t) /\ Pending(t) \subseteq Misses(t) /\ pc[t] # "flush"
    <3>1. Flushed(t) = Pending(t) /\ pc[t] # "flush"
      BY <2>1 DEF Flushed
    <3>. QED
      BY <3>1, EntryRange, ZenonT(30)
  <2>3. ASSUME NEW j \in Flushed(t)'
        PROVE  j \in Flushed(t) /\ MasterBlk(t, j)' = MasterBlk(t, j) /\ req'[t] = req[t]
    <3>1. pc'[t] = "publish"
      BY <2>1, <2>3 DEF Flushed
    <3>2. Flushed(t)' = Pending(t)'
      BY <3>1 DEF Flushed
    <3>. QED
      BY <2>1, <2>2, <2>3, <3>2, ZenonT(30) DEF MasterBlk
  <2>4. ASSUME NEW h \in Hashes, hash_to_master'[h] # NULL
        PROVE  hash_to_master'[h] = hash_to_master[h] \/ OnDisk(IndexSlot(h), h)'
    <3>1. CASE Inserted(t) /\ h = info[plan[t][blk[t]].info].hash
      <4>1. PICK m \in InfoIds : m = plan[t][blk[t]].info
        BY <3>1, Zenon DEF Inserted
      <4>2. /\ blk[t] \in Pending(t) /\ info' = info /\ hash_to_master'[h] = m
        <5>1. DOMAIN hash_to_master = Hashes
          BY Parts, Zenon DEF TypeOK
        <5>. QED
          BY <3>1, <4>1, <5>1, ZenonT(30) DEF Inserted
      <4>3. h = HashOf[req[t].buf[blk[t]]]
        BY <3>1, <4>2, RefParts, ZenonT(30) DEF PointersRight
      <4>4. OnDisk(MasterBlk(t, blk[t]), h)
        BY <2>2, <4>2, <4>3, ZenonT(30) DEF Stored
      <4>5. info[m].masterBlockIndex = MasterBlk(t, blk[t])
        <5>1. pc[t] \in AllocatedSteps
          BY <2>1 DEF AllocatedSteps
        <5>. QED
          BY <4>1, <4>2, <5>1, ZenonT(30) DEF Placed, SlotsPlaced
      <4>. QED
        BY <2>1, <4>2, <4>4, <4>5, ZenonT(30) DEF OnDisk, IndexSlot
    <3>2. CASE Inserted(t) /\ h # info[plan[t][blk[t]].info].hash
      <4>1. DOMAIN hash_to_master = Hashes
        BY Parts, Zenon DEF TypeOK
      <4>. QED
        BY <3>2, <4>1, ZenonT(30) DEF Inserted
    <3>3. CASE hash_to_master' = hash_to_master
      BY <3>3, Zenon
    <3>. QED
      BY <3>1, <3>2, <3>3, PublishCases, ZenonT(30) DEF Skipped, GivesWay
  <2>. QED
    BY <2>1, <2>2, <2>3, <2>4, QuietStored, ZenonT(30)
\* The slots that fetch_add hands out are past the end of masterFILE until
\* they are flushed.
<1>AppendStored. ASSUME TypeInv, Placed, Owned, Stored, NEW t \in Threads, \A u \in Threads \ {t} : SameLocals(u), IndexKept,
           AppendSlots(t)
    PROVE  Stored'
  <2> USE <1>AppendStored
  <2>. DEFINE new == [k \in 1 .. miss_count[t] - Len(out[t]) |-> nextBlockIndex + k - 1]
  <2>1. /\ pc[t] = "append" /\ pc'[t] = "flush" /\ out'[t] = out[t] \o new /\ blk' = blk /\ plan' = plan
        /\ nextBlockIndex' = nextBlockIndex + (miss_count[t] - Len(out[t]))
        /\ hash_to_master' = hash_to_master /\ masterFILE' = masterFILE
    <3>1. DOMAIN pc = Threads /\ DOMAIN out = Threads
      BY Zenon DEF TypeInv, TypeOK
    <3>. QED
      BY <3>1, Zenon DEF AppendSlots, Goto
  <2>2. /\ out[t] \in Seq(Nat) /\ nextBlockIndex \in Nat /\ miss_count[t] \in Nat
        /\ LoopShape(t) /\ PlanShape(t) /\ SlotShape(t)
    BY Parts, LocalTypes, ZenonT(30) DEF TypeOK
  <2>3. Len(out[t]) \in Nat /\ Len(out[t]) <= miss_count[t] /\ blk[t] = 1
    BY <2>1, <2>2, SMTT(30) DEF SlotShape, LoopShape, LoopSteps
  <2>4. PICK r \in Nat : r = miss_count[t] - Len(out[t])
    BY <2>2, <2>3, SMTT(30)
  <2>5. /\ new \in Seq(Nat) /\ Len(new) = r /\ \A k \in 1 .. r : new[k] = nextBlockIndex + k - 1
    BY <2>2, <2>4
  <2>. HIDE DEF new
  <2>6. \A k \in 1 .. r : out'[t][Len(out[t]) + k] = nextBlockIndex + k - 1 /\ Len(out[t]) + k \in 1 .. miss_count[t]
    <3>1. out[t] \in Seq(Nat) /\ new \in Seq(Nat) /\ Len(new) = r
      BY <2>2, <2>5, Zenon
    <3>2. \A k \in 1 .. r : (out[t] \o new)[Len(out[t]) + k] = new[k]
      BY <3>1
    <3>3. miss_count[t] \in Nat /\ Len(out[t]) \in Nat
      BY <2>2, <2>3, Zenon
    <3>4. \A k \in 1 .. r : Len(out[t]) + k \in 1 .. miss_count[t]
      BY <2>4, <3>3
    <3>. QED
      BY <2>1, <2>5, <3>2, <3>4, ZenonT(30)
  <2>7. Misses(t)' = Misses(t) /\ Unflushed(t)' = Misses(t) /\ Flushed(t)' = {}
    <3>1. Misses(t)' = Misses(t)
      BY <2>1, Zenon DEF Misses
    <3>2. \A j \in Misses(t) : j >= blk[t]
      <4>1. \A j \in Misses(t) : j \in 1 .. Len(plan[t])
        BY PlanRange, Zenon DEF Misses
      <4>. QED
        BY <2>3, <4>1, SMTT(30)
    <3>3. Unflushed(t)' = Misses(t)
      BY <2>1, <3>1, <3>2, ZenonT(30) DEF Unflushed
    <3>. QED
      BY <2>1, <3>1, <3>3, ZenonT(30) DEF Flushed
  <2>8. WrittenBelow'
    <3>1. Len(masterFILE) <= nextBlockIndex /\ Len(masterFILE) \in Nat
      <4>1. masterFILE \in Seq(Contents \cup {NULL})
        BY Parts, Zenon DEF TypeOK
      <4>2. Len(masterFILE) <= nextBlockIndex
        BY Zenon DEF Stored, WrittenBelow
      <4>. QED
        BY <4>1, <4>2
    <3>2. Len(masterFILE') <= nextBlockIndex'
      BY <2>1, <2>2, <2>4, <3>1, SMTT(30)
    <3>3. ASSUME ~WithIOError, NEW s \in Len(masterFILE) .. nextBlockIndex - 1
          PROVE  \E u \in Threads : pc'[u] = "flush" /\ \E j \in Unflushed(u)' : MasterBlk(u, j)' = s
      <4>1. PICK u \in Threads : pc[u] = "flush" /\ \E j \in Unflushed(u) : MasterBlk(u, j) = s
        BY <3>3, Zenon DEF Stored, WrittenBelow
      <4>2. "flush" # "append"
        OBVIOUS
      <4>3. u \in Threads \ {t}
        BY <2>1, <4>1, <4>2, ZenonT(30)
      <4>4. pc'[u] = "flush" /\ Unflushed(u)' = Unflushed(u) /\ \A j : MasterBlk(u, j)' = MasterBlk(u, j)
        BY <4>1, <4>3, OtherFlushed, ZenonT(30) DEF SameLocals
      <4>. QED
        BY <4>1, <4>4, Zenon
    <3>4. ASSUME NEW s \in nextBlockIndex .. nextBlockIndex + r - 1
          PROVE  \E j \in Unflushed(t)' : MasterBlk(t, j)' = s
      <4>1. PICK k \in 1 .. r : s = nextBlockIndex + k - 1
        <5>1. s - nextBlockIndex + 1 \in 1 .. r /\ s = nextBlockIndex + (s - nextBlockIndex + 1) - 1
          BY <2>2
        <5>. QED
          BY <5>1, Zenon
      <4>2. PICK j \in Misses(t) : plan[t][j].rank = Len(out[t]) + k
        BY <2>6, Zenon DEF Placed, SlotsPlaced
      <4>. QED
        BY <2>1, <2>6, <2>7, <4>1, <4>2, ZenonT(30) DEF MasterBlk
    <3>5. \A s \in Len(masterFILE') .. nextBlockIndex' - 1 :
            s \in Len(masterFILE) .. nextBlockIndex - 1 \/ s \in nextBlockIndex .. nextBlockIndex + r - 1
      BY <2>1, <2>2, <2>4, <3>1, SMTT(30)
    <3>. QED
      BY <2>1, <3>2, <3>3, <3>4, <3>5, ZenonT(30) DEF WrittenBelow
  <2>9. \A s : Keeps(s)
    BY <2>1, Zenon DEF Keeps, OnDisk
  <2>10. /\ \A h \in Hashes : hash_to_master'[h] # NULL =>
               hash_to_master'[h] = hash_to_master[h] \/ OnDisk(IndexSlot(h), h)'
         /\ \A j \in Flushed(t)' : OnDisk(MasterBlk(t, j), HashOf[req[t].buf[j]])'
    BY <2>1, <2>7, Zenon
  <2>. QED
    BY <2>8, <2>9, <2>10, StoredStep, ZenonT(30)
<1>FlushRunStored. ASSUME MinMaxLaws, TypeInv, Placed, Owned, Stored, NEW t \in Threads, \A u \in Threads \ {t} : SameLocals(u),
           IndexKept, FlushRun(t)
    PROVE  Stored'
  <2> USE <1>FlushRunStored
  <2>1. PICK a, b : a = RunStart(t) /\ b = RunEnd(t)
    BY Zenon
  <2>2. PICK slot, data : slot = MasterBlk(t, a) /\ data = SubSeq(req[t].buf, a, b)
    BY Zenon
  <2>3. /\ pc[t] = "flush" /\ masterFILE' = PWrite(masterFILE, slot, data)
        /\ UNCHANGED <<hash_to_master, nextBlockIndex, req, plan, out>>
        /\ \/ (\E j \in Misses(t) : j > b) /\ pc'[t] = "flush" /\ blk'[t] = b + 1
           \/ ~(\E j \in Misses(t) : j > b) /\ pc'[t] = "p3lock"
    <3>1. DOMAIN pc = Threads /\ DOMAIN blk = Threads
      BY Parts, Zenon DEF TypeOK
    <3>. QED
      BY <2>1, <2>2, <3>1, ZenonT(30) DEF FlushRun, Goto, index, request
  <2>4. /\ SlotsPlaced(t) /\ NoRepeats(out[t]) /\ Unshared /\ Complete /\ TypeOK
        /\ masterFILE \in Seq(Contents \cup {NULL}) /\ nextBlockIndex \in Nat /\ blk[t] \in Nat
    BY Parts, LocalTypes, ZenonT(30) DEF Placed, Owned, Unrepeated, TypeOK
  <2>5. /\ a \in Nat /\ b \in Nat /\ a <= b /\ slot \in Nat /\ data \in Seq(Contents) /\ Len(data) = b - a + 1
        /\ \A j \in a .. b : /\ j \in Misses(t) /\ MasterBlk(t, j) = slot + j - a
                             /\ j - a + 1 \in 1 .. Len(data) /\ data[j - a + 1] = req[t].buf[j]
                             /\ req[t].buf[j] \in Contents
        /\ \A s \in slot .. slot + Len(data) - 1 : s \in Slots("write", t) /\ \E j \in a .. b : s = MasterBlk(t, j)
        /\ slot + Len(data) <= nextBlockIndex
    <3>1. RunAt(t, a, b, slot, data)
      BY <2>1, <2>2, <2>3, <2>4, RunSlots, ZenonT(30)
    <3>. QED
      BY <3>1, Zenon DEF RunAt
  <2>6. /\ masterFILE' \in Seq(Contents \cup {NULL}) /\ Len(masterFILE) <= Len(masterFILE')
        /\ slot + Len(data) <= Len(masterFILE')
        /\ Len(masterFILE') = Len(masterFILE) \/ Len(masterFILE') = slot + Len(data)
        /\ \A k \in 1 .. Len(data) : masterFILE'[slot + k] = data[k]
        /\ \A k \in 1 .. Len(masterFILE) : k \notin slot + 1 .. slot + Len(data) => masterFILE'[k] = masterFILE[k]
    <3>1. Written(masterFILE, slot, data, masterFILE')
      BY <2>3, <2>4, <2>5, PWriteEffect, ZenonT(30)
    <3>. QED
      BY <3>1, Zenon DEF Written
  <2>7. Len(data) \in Nat
    BY <2>5
  <2>8. /\ \A s \in Nat : s \notin slot .. slot + Len(data) - 1 => Keeps(s)
        /\ \A s \in Slots("index", NULL) : Keeps(s)
        /\ \A u \in Threads \ {t} : \A s \in Slots("write", u) : Keeps(s)
    <3>1. \A s \in slot .. slot + Len(data) - 1 : s \in Slots("write", t)
      BY <2>5, Zenon
    <3>2. KeepsAround(t, slot, Len(data))
      BY <2>4, <2>5, <2>6, <2>7, <3>1, FlushKeeps, ZenonT(30)
    <3>. QED
      BY <3>2, Zenon DEF KeepsAround
  <2>9. Misses(t)' = Misses(t) /\ \A j : MasterBlk(t, j)' = MasterBlk(t, j)
    BY <2>3, Zenon DEF Misses, MasterBlk
  <2>10. /\ \A j \in Unflushed(t) : a <= j
         /\ \A j \in Misses(t) : j \in Nat /\ MasterBlk(t, j) \in Nat /\ plan[t][j].rank \in DOMAIN out[t]
         /\ \A i, j \in Misses(t) : MasterBlk(t, i) = MasterBlk(t, j) => i = j
    <3>1. pc[t] \in AllocatedSteps
      BY <2>3 DEF AllocatedSteps
    <3>2. \A j \in Misses(t) : j \in 1 .. Len(plan[t])
      BY PlanRange, ZenonT(30) DEF Misses
    <3>3. \A j \in Misses(t) : j \in Nat
      BY <3>2
    <3>. QED
      BY <2>1, <2>3, <2>4, <3>1, <3>3, OwnSlots, RunFacts, ZenonT(30)
  <2>11. ASSUME NEW j \in a .. b
         PROVE  OnDisk(MasterBlk(t, j), HashOf[req[t].buf[j]])'
    <3>1. PICK s : s = MasterBlk(t, j)
      BY Zenon
    <3>2. s = slot + j - a /\ j - a + 1 \in 1 .. Len(data)
      BY <2>5, <3>1, ZenonT(30)
    <3>3. s + 1 = slot + (j - a + 1) /\ s < Len(masterFILE')
      BY <2>5, <2>6, <3>2, SMTT(30)
    <3>4. masterFILE'[s + 1] = req[t].buf[j]
      BY <2>5, <2>6, <3>2, <3>3, ZenonT(30)
    <3>5. masterFILE'[s + 1] # NULL
      BY <2>5, <3>4, NullAssumption, ZenonT(30)
    <3>. QED
      BY <2>3, <2>9, <3>1, <3>3, <3>4, <3>5, ZenonT(30) DEF OnDisk
  <2>12. ASSUME NEW j \in Flushed(t)'
         PROVE  OnDisk(MasterBlk(t, j), HashOf[req[t].buf[j]])'
    <3>1. j \in Misses(t) /\ j \in Nat /\ j <= b
      <4>1. CASE pc'[t] = "flush"
        <5>1. (\E i \in Misses(t) : i > b) /\ blk'[t] = b + 1
          BY <2>3, <4>1, SMTT(30)
        <5>2. j \in Misses(t) /\ j \notin Unflushed(t)'
          BY <2>9, <2>12, <4>1, SMTT(30) DEF Flushed
        <5>3. j \in Nat /\ ~(j >= b + 1)
          BY <2>9, <2>10, <5>1, <5>2, ZenonT(30) DEF Unflushed
        <5>. QED
          BY <2>5, <5>2, <5>3, SMTT(30)
      <4>2. CASE pc'[t] = "p3lock"
        <5>1. ~(\E i \in Misses(t) : i > b)
          BY <2>3, <4>2, SMTT(30)
        <5>2. j \in Pending(t)'
          BY <2>12, <4>2, SMTT(30) DEF Flushed
        <5>3. j \in Misses(t)
          BY <2>9, <5>2, ZenonT(30) DEF Pending
        <5>4. j \in Nat /\ ~(j > b)
          BY <2>10, <5>1, <5>3, ZenonT(30)
        <5>. QED
          BY <2>5, <5>3, <5>4, SMTT(30)
      <4>. QED
        BY <2>3, <4>1, <4>2, ZenonT(30)
    <3>2. CASE j \in a .. b
      BY <2>11, <3>2, ZenonT(30)
    <3>3. CASE j \notin a .. b
      <4>1. ~(a <= j)
        BY <2>5, <3>1, <3>3, SMTT(30)
      <4>2. j \in Flushed(t)
        <5>1. j \notin Unflushed(t)
          BY <2>10, <4>1, ZenonT(30)
        <5>. QED
          BY <2>3, <3>1, <5>1, ZenonT(30) DEF Flushed
      <4>3. PICK s \in Nat : s = MasterBlk(t, j)
        BY <2>10, <3>1, ZenonT(30)
      <4>4. PICK h : h = HashOf[req[t].buf[j]]
        BY Zenon
      <4>5. OnDisk(s, h)
        BY <4>2, <4>3, <4>4, ZenonT(30) DEF Stored
      <4>6. s \notin slot .. slot + Len(data) - 1
        <5>1. ASSUME s \in slot .. slot + Len(data) - 1 PROVE FALSE
          <6>1. PICK i \in a .. b : s = MasterBlk(t, i)
            BY <2>5, <5>1, ZenonT(30)
          <6>2. i \in Misses(t) /\ i # j
            BY <2>5, <3>3, <6>1, ZenonT(30)
          <6>. QED
            BY <2>10, <3>1, <4>3, <6>1, <6>2, ZenonT(30)
        <5>. QED
          BY <5>1, Zenon
      <4>7. OnDisk(s, h)'
        BY <2>8, <4>5, <4>6, ZenonT(30) DEF Keeps
      <4>. QED
        BY <2>3, <2>9, <4>3, <4>4, <4>7, ZenonT(30) DEF OnDisk
    <3>. QED
      BY <3>2, <3>3, ZenonT(30)
  <2>13. WrittenBelow'
    <3>1. Len(masterFILE) <= nextBlockIndex
      BY Zenon DEF Stored, WrittenBelow
    <3>2. Len(masterFILE') <= nextBlockIndex'
      BY <2>3, <2>5, <2>6, <3>1, ZenonT(30)
    <3>3. ASSUME ~WithIOError, NEW s \in Len(masterFILE') .. nextBlockIndex' - 1
          PROVE  \E u \in Threads : pc'[u] = "flush" /\ \E j \in Unflushed(u)' : MasterBlk(u, j)' = s
      <4>1. s \in Len(masterFILE) .. nextBlockIndex - 1 /\ s >= slot + Len(data) /\ s \in Nat
        <5>1. PICK n \in Nat : n = nextBlockIndex
          BY <2>4, ZenonT(30)
        <5>2. PICK l \in Nat, m \in Nat : l = Len(masterFILE) /\ m = Len(masterFILE')
          BY <2>4, <2>6, SMTT(30)
        <5>3. s \in m .. n - 1 /\ l <= m /\ slot + Len(data) <= m
          BY <2>3, <2>6, <3>3, <5>1, <5>2, ZenonT(30)
        <5>4. s \in l .. n - 1 /\ s >= slot + Len(data) /\ s \in Nat
          BY <2>5, <2>7, <5>3, SMTT(30)
        <5>. QED
          BY <5>1, <5>2, <5>4, ZenonT(30)
      <4>2. PICK u \in Threads : pc[u] = "flush" /\ \E j \in Unflushed(u) : MasterBlk(u, j) = s
        BY <3>3, <4>1, ZenonT(30) DEF Stored, WrittenBelow
      <4>3. PICK j \in Unflushed(u) : MasterBlk(u, j) = s
        BY <4>2, Zenon
      <4>4. CASE u # t
        <5>1. pc'[u] = "flush" /\ Unflushed(u)' = Unflushed(u) /\ \A i : MasterBlk(u, i)' = MasterBlk(u, i)
          BY <4>2, <4>4, OtherFlushed, ZenonT(30) DEF SameLocals
        <5>. QED
          BY <4>3, <5>1, ZenonT(30)
      <4>5. CASE u = t
        <5>1. j \in Misses(t) /\ a <= j /\ MasterBlk(t, j) = s
          BY <2>10, <4>3, <4>5, ZenonT(30) DEF Unflushed
        <5>2. j \in Nat
          BY <2>10, <5>1, ZenonT(30)
        <5>3. j \notin a .. b
          <6>1. \A i \in a .. b : slot + i - a < slot + Len(data)
            BY <2>5
          <6>2. \A i \in a .. b : MasterBlk(t, i) < slot + Len(data)
            BY <2>5, <6>1, ZenonT(30)
          <6>3. ~(s < slot + Len(data))
            BY <2>5, <2>7, <4>1, SMTT(30)
          <6>. QED
            BY <5>1, <6>2, <6>3, ZenonT(30)
        <5>4. j > b /\ j >= b + 1
          BY <2>5, <5>1, <5>2, <5>3, SMTT(30)
        <5>5. pc'[t] = "flush" /\ blk'[t] = b + 1
          BY <2>3, <5>1, <5>4, ZenonT(30)
        <5>6. j \in Unflushed(t)'
          BY <2>9, <5>1, <5>4, <5>5, ZenonT(30) DEF Unflushed
        <5>. QED
          BY <2>9, <5>1, <5>5, <5>6, ZenonT(30)
      <4>. QED
        BY <4>4, <4>5, ZenonT(30)
    <3>. QED
      BY <3>2, <3>3, ZenonT(30) DEF WrittenBelow
  <2>14. \A h \in Hashes : hash_to_master'[h] # NULL =>
           hash_to_master'[h] = hash_to_master[h] \/ OnDisk(IndexSlot(h), h)'
    BY <2>3, Zenon
  <2>. QED
    BY <2>8, <2>12, <2>13, <2>14, StoredStep, ZenonT(30)
<1>FlushFailStored. ASSUME MinMaxLaws, TypeInv, Placed, Owned, Stored, NEW t \in Threads, \A u \in Threads \ {t} : SameLocals(u),
           IndexKept, FlushFail(t)
    PROVE  Stored'
  <2> USE <1>FlushFailStored
  <2>1. PICK a, b : a = RunStart(t) /\ b = RunEnd(t)
    BY Zenon
  <2>2. PICK slot, data : slot = MasterBlk(t, a) /\ data = SubSeq(req[t].buf, a, b)
    BY Zenon
  <2>3. PICK n \in 0 .. Len(data) - 1, torn \in BOOLEAN :
          masterFILE' = LET file == IF n = 0 THEN masterFILE ELSE PWrite(masterFILE, slot, SubSeq(data, 1, n))
                        IN  IF torn /\ slot + n < Len(file) THEN [file EXCEPT ![slot + n + 1] = NULL] ELSE file
    BY <2>1, <2>2, ZenonT(30) DEF FlushFail
  <2>4. /\ pc[t] = "flush" /\ WithIOError /\ pc'[t] = "rblock" /\ UNCHANGED <<hash_to_master, nextBlockIndex>>
    <3>1. DOMAIN pc = Threads
      BY Parts, Zenon DEF TypeOK
    <3>. QED
      BY <3>1, Zenon DEF FlushFail, Goto, index, AfterFailure
  <2>5. /\ SlotsPlaced(t) /\ NoRepeats(out[t]) /\ Unshared /\ Complete /\ TypeOK
        /\ masterFILE \in Seq(Contents \cup {NULL})
    BY Parts, Zenon DEF Placed, Owned, Unrepeated, TypeOK
  <2>6. /\ slot \in Nat /\ data \in Seq(Contents) /\ slot + Len(data) <= nextBlockIndex
        /\ \A s \in slot .. slot + Len(data) - 1 : s \in Slots("write", t)
    <3>1. RunAt(t, a, b, slot, data)
      BY <2>1, <2>2, <2>4, <2>5, RunSlots, ZenonT(30)
    <3>. QED
      BY <3>1, Zenon DEF RunAt
  <2>7. Torn(masterFILE, slot, Len(data), masterFILE')
    <3>1. PICK g : g = IF n = 0 THEN masterFILE ELSE PWrite(masterFILE, slot, SubSeq(data, 1, n))
      BY Zenon
    <3>2. masterFILE' = IF torn /\ slot + n < Len(g) THEN [g EXCEPT ![slot + n + 1] = NULL] ELSE g
      BY <2>3, <3>1, Zenon
    <3>. QED
      BY <2>5, <2>6, <3>1, <3>2, TornEffect, ZenonT(30)
  <2>8. /\ masterFILE' \in Seq(Contents \cup {NULL}) /\ Len(masterFILE) <= Len(masterFILE')
        /\ Len(masterFILE') = Len(masterFILE) \/ Len(masterFILE') <= slot + Len(data)
        /\ \A k \in 1 .. Len(masterFILE) : k \notin slot + 1 .. slot + Len(data) => masterFILE'[k] = masterFILE[k]
    BY <2>7, Zenon DEF Torn
  <2>9. /\ \A s \in Slots("index", NULL) : Keeps(s)
        /\ \A u \in Threads \ {t} : \A s \in Slots("write", u) : Keeps(s)
    <3>1. Len(data) \in Nat
      BY <2>6
    <3>2. KeepsAround(t, slot, Len(data))
      BY <2>5, <2>6, <2>8, <3>1, FlushKeeps, ZenonT(30)
    <3>. QED
      BY <3>2, Zenon DEF KeepsAround
  <2>10. Flushed(t)' = {}
    <3>1. pc'[t] \notin {"flush", "p3lock", "publish"}
      BY <2>4
    <3>. QED
      BY <3>1, NothingFlushed, ZenonT(30)
  <2>11. WrittenBelow'
    <3>1. Len(masterFILE) <= nextBlockIndex
      BY Zenon DEF Stored, WrittenBelow
    <3>2. PICK l, m, e, k : l = Len(masterFILE) /\ m = Len(masterFILE') /\ e = slot + Len(data) /\ k = nextBlockIndex
      BY Zenon
    <3>3. l \in Nat /\ m \in Nat /\ e \in Nat /\ k \in Nat /\ l <= k /\ e <= k /\ (m = l \/ m <= e)
      <4>1. l \in Nat /\ m \in Nat /\ e \in Nat
        <5>1. Len(masterFILE) \in Nat
          BY <2>5
        <5>2. Len(masterFILE') \in Nat
          BY <2>8
        <5>3. slot + Len(data) \in Nat
          BY <2>6
        <5>. QED
          BY <3>2, <5>1, <5>2, <5>3, ZenonT(30)
      <4>2. k \in Nat
        BY <2>5, <3>2, Zenon DEF TypeOK
      <4>. QED
        BY <2>6, <2>8, <3>1, <3>2, <4>1, <4>2, ZenonT(30)
    <3>4. m <= k
      BY <3>3
    <3>. QED
      BY <2>4, <3>2, <3>4, ZenonT(30) DEF WrittenBelow
  <2>12. \A h \in Hashes : hash_to_master'[h] # NULL =>
           hash_to_master'[h] = hash_to_master[h] \/ OnDisk(IndexSlot(h), h)'
    BY <2>4, Zenon
  <2>. QED
    BY <2>9, <2>10, <2>11, <2>12, StoredStep, ZenonT(30)
<1>. SUFFICES ASSUME NEW t \in Threads, Start(t) \/ Step(t) PROVE Stored'
  BY Zenon
<1>1. IndexKept /\ TypeOK
  BY SlotsKept, Parts, Zenon
<1>2. \A u \in Threads \ {t} : SameLocals(u)
  BY <1>1, OthersUnchanged, Zenon
<1>3. CASE P3Release(t) \/ RbMisses(t) \/ SetSize(t) \/ P1Hit(t) \/ P1Miss(t) \/ Drain(t)
  <2>1. /\ pc[t] \in {"p3release", "rbmisses", "setsize", "p1", "drain"}
        /\ pc'[t] \in {"idle", "p1", "p1take", "p1unlock", "append"}
    <3>1. DOMAIN pc = Threads
      BY <1>1, Zenon DEF TypeOK
    <3>. QED
      BY <1>3, <3>1, Zenon DEF P3Release, RbMisses, SetSize, P1Hit, P1Miss, Drain, Return, NextBlock, Goto
  <2>2. UNCHANGED <<hash_to_master, nextBlockIndex, masterFILE>>
    BY <1>3, Zenon DEF P3Release, RbMisses, SetSize, P1Hit, P1Miss, Drain, index, store
  <2>3. pc[t] # "flush" /\ pc'[t] \notin {"flush", "p3lock", "publish"}
    BY <2>1
  <2>4. Flushed(t)' = {}
    BY <2>3, NothingFlushed, Zenon
  <2>. QED
    BY <1>1, <1>2, <2>2, <2>3, <2>4, QuietStored, ZenonT(30)
<1>4. CASE PublishBlock(t) \/ AppendSlots(t) \/ FlushRun(t) \/ FlushFail(t)
  BY <1>1, <1>2, <1>4, <1>PublishStored, <1>AppendStored, <1>FlushRunStored, <1>FlushFailStored, ZenonT(30)
<1>5. CASE Calm(t) /\ ~FlushRun(t) /\ ~FlushFail(t)
  <2>1. pc[t] # "flush"
    <3>1. CASE Start(t)
      <4>1. pc[t] = "idle"
        BY <3>1, Zenon DEF Start, StartWrite, StartUnlink, StartTruncate, Arrive
      <4>. QED
        BY <4>1
    <3>2. CASE ~Start(t)
      <4>1. pc[t] \in {"p1lock", "p1take", "p1unlock", "p3lock", "map", "p3unlock", "rblock", "rbhits", "rbunlock",
                       "rbrelease", "rmlock", "remove", "rmunlock", "rmrelease"}
        BY <1>5, <3>2, Zenon DEF Calm, P1Lock, P1Take, P1Unlock, P3Lock, MapBlock, P3Unlock, RbLock, RbHit, RbUnlock,
           RbRelease, RmLock, RmBlock, RmUnlock, RmRelease
      <4>. QED
        BY <4>1
    <3>. QED
      BY <3>1, <3>2, ZenonT(30)
  <2>. QED
    BY <1>1, <1>2, <1>5, <2>1, <1>CalmStored, ZenonT(30)
<1>. QED
  BY <1>3, <1>4, <1>5, Zenon DEF Step, Calm

-----------------------------------------------------------------------------
(* The invariant is inductive. *)

\* No slot is handed out at first.
LEMMA InitSlots ==
  ASSUME Init
  PROVE  SlotInv
<1>1. /\ free_block_list = <<>> /\ nextBlockIndex = 0 /\ masterFILE = <<>>
      /\ \A u \in Threads : pc[u] = "idle" /\ plan[u] = <<>> /\ out[u] = <<>> /\ rel[u] = <<>> /\ miss_count[u] = 0
      /\ \A h \in Hashes : hash_to_master[h] = NULL
  BY Zenon DEF Init
<1>2. DOMAIN free_block_list = {} /\ \A u \in Threads : DOMAIN plan[u] = {} /\ DOMAIN out[u] = {} /\ DOMAIN rel[u] = {}
  BY <1>1
<1>3. \A u \in Threads : Misses(u) = {} /\ Reserved(u) = {} /\ Flushed(u) = {}
  <2>. TAKE u \in Threads
  <2>1. Misses(u) = {}
    BY <1>2, Zenon DEF Misses
  <2>2. Reserved(u) = DOMAIN out[u]
    BY <1>1 DEF Reserved
  <2>3. Flushed(u) = {}
    BY <1>1 DEF Flushed
  <2>. QED
    BY <1>2, <2>1, <2>2, <2>3, ZenonT(30)
<1>4. InIndex = {}
  BY <1>1, Zenon DEF InIndex
<1>5. \A kind \in Kinds, u \in Holders : Slots(kind, u) = {}
  <2>. SUFFICES ASSUME NEW kind \in Kinds, NEW u \in Holders PROVE Slots(kind, u) = {}
    BY Zenon
  <2>1. Slots("free", NULL) = {} /\ Slots("index", NULL) = {} /\ Slots("write", NULL) = {} /\ Slots("release", NULL) = {}
    BY <1>2, <1>4, SlotSets, Zenon DEF Range
  <2>2. ASSUME u \in Threads
        PROVE  Slots("free", u) = {} /\ Slots("index", u) = {} /\ Slots("write", u) = {} /\ Slots("release", u) = {}
    BY <1>2, <1>3, <2>2, SlotSets, ZenonT(30) DEF Range
  <2>. QED
    BY <2>1, <2>2, Zenon DEF Kinds, Holders
<1>6. 0 .. nextBlockIndex - 1 = {} /\ \A u \in Threads : 1 .. miss_count[u] = {}
  BY <1>1
<1>7. Owned
  BY <1>2, <1>4, <1>5, <1>6, ZenonT(30) DEF Owned, Unshared, Complete, Unrepeated, NoRepeats, OneSlotEach
<1>8. Placed
  <2>1. \A u \in Threads : pc[u] \notin AllocatedSteps
    BY <1>1 DEF AllocatedSteps
  <2>. QED
    BY <1>3, <1>6, <2>1, ZenonT(30) DEF Placed, SlotsPlaced
<1>9. WrittenBelow
  <2>1. Len(masterFILE) = 0 /\ Len(masterFILE) <= nextBlockIndex /\ Len(masterFILE) .. nextBlockIndex - 1 = {}
    BY <1>1
  <2>. QED
    BY <2>1, Zenon DEF WrittenBelow
<1>. QED
  BY <1>1, <1>3, <1>7, <1>8, <1>9, ZenonT(30) DEF SlotInv, Stored, PublishedOnDisk

\* A step that changes neither slots nor plans keeps SlotInv.
LEMMA StutterSlots ==
  ASSUME SlotInv,
         UNCHANGED <<hash_to_master, info, free_block_list, nextBlockIndex, masterFILE, pc, req, blk, plan,
                     miss_count, out, rel>>
  PROVE  SlotInv'
<1>0. Placed /\ Unshared /\ Unrepeated /\ Complete /\ Stored
  BY Zenon DEF SlotInv, Owned
<1>1. ASSUME NEW u \in Threads
      PROVE  /\ Misses(u)' = Misses(u) /\ Unflushed(u)' = Unflushed(u) /\ Reserved(u)' = Reserved(u)
             /\ Pending(u)' = Pending(u) /\ Flushed(u)' = Flushed(u) /\ \A j : MasterBlk(u, j)' = MasterBlk(u, j)
  <2>1. Misses(u)' = Misses(u) /\ \A j : MasterBlk(u, j)' = MasterBlk(u, j)
    BY Zenon DEF Misses, MasterBlk
  <2>2. Unflushed(u)' = Unflushed(u) /\ Pending(u)' = Pending(u) /\ Reserved(u)' = Reserved(u)
    BY <2>1, Zenon DEF Unflushed, Pending, Reserved
  <2>3. Flushed(u)' = Flushed(u)
    BY <2>1, <2>2, ZenonT(30) DEF Flushed
  <2>. QED
    BY <2>1, <2>2, <2>3, ZenonT(30)
<1>3. InIndex' = InIndex /\ \A h : IndexSlot(h)' = IndexSlot(h)
  BY Zenon DEF InIndex, IndexSlot
<1>4. ASSUME NEW kind \in Kinds, NEW u \in Holders PROVE Slots(kind, u)' = Slots(kind, u)
  <2>1. /\ Slots("free", NULL)' = Slots("free", NULL) /\ Slots("index", NULL)' = Slots("index", NULL)
        /\ Slots("write", NULL)' = Slots("write", NULL) /\ Slots("release", NULL)' = Slots("release", NULL)
    BY <1>3, SlotSets, Zenon
  <2>2. ASSUME u \in Threads
        PROVE  /\ Slots("free", u)' = Slots("free", u) /\ Slots("index", u)' = Slots("index", u)
               /\ Slots("write", u)' = Slots("write", u) /\ Slots("release", u)' = Slots("release", u)
    <3>1. Slots("free", u)' = Slots("free", u) /\ Slots("index", u)' = Slots("index", u)
      BY <2>2, SlotSets, Zenon
    <3>2. Slots("release", u)' = Slots("release", u)
      BY <2>2, SlotSets, Zenon
    <3>3. /\ Slots("write", u) = {out[u][i] : i \in Reserved(u)}
          /\ Slots("write", u)' = {out'[u][i] : i \in Reserved(u)'}
      BY <2>2, SlotSets, Zenon
    <3>4. Slots("write", u)' = Slots("write", u)
      BY <1>1, <2>2, <3>3, ZenonT(30)
    <3>. QED
      BY <3>1, <3>2, <3>4, Zenon
  <2>. QED
    BY <2>1, <2>2, Zenon DEF Kinds, Holders
<1>5. Unshared'
  <2>1. ASSUME NEW kind \in Kinds, NEW other \in Kinds, NEW u \in Holders, NEW v \in Holders,
               NEW s \in Slots(kind, u)', s \in Slots(other, v)'
        PROVE  kind = other /\ u = v
    <3>1. s \in Slots(kind, u) /\ s \in Slots(other, v)
      BY <1>4, <2>1, Zenon
    <3>. QED
      BY <1>0, <3>1, Zenon DEF Unshared
  <2>. QED
    BY <2>1, Zenon DEF Unshared
<1>6. Complete'
  <2>1. ASSUME NEW kind \in Kinds, NEW u \in Holders PROVE Slots(kind, u)' \subseteq 0 .. nextBlockIndex' - 1
    BY <1>0, <1>4, ZenonT(30) DEF Complete
  <2>2. ASSUME NEW s \in 0 .. nextBlockIndex' - 1 PROVE \E kind \in Kinds, u \in Holders : s \in Slots(kind, u)'
    <3>1. PICK kind \in Kinds, u \in Holders : s \in Slots(kind, u)
      BY <1>0, <2>2, ZenonT(30) DEF Complete
    <3>. QED
      BY <1>4, <3>1, ZenonT(30)
  <2>. QED
    BY <2>1, <2>2, ZenonT(30) DEF Complete
<1>7. Unrepeated'
  BY <1>0, <1>3, ZenonT(30) DEF Unrepeated, NoRepeats, OneSlotEach
<1>8. ASSUME NEW u \in Threads PROVE SlotsPlaced(u)'
  <2>1. SlotsPlaced(u)
    BY <1>0, ZenonT(30) DEF Placed
  <2>2. /\ \A i, j \in Misses(u)' : plan'[u][i].rank = plan'[u][j].rank => i = j
        /\ \A k \in 1 .. miss_count'[u] : \E j \in Misses(u)' : plan'[u][j].rank = k
    <3>1. Misses(u)' = Misses(u) /\ plan'[u] = plan[u] /\ miss_count'[u] = miss_count[u]
      BY <1>1, Zenon
    <3>2. /\ \A i, j \in Misses(u) : plan[u][i].rank = plan[u][j].rank => i = j
          /\ \A k \in 1 .. miss_count[u] : \E j \in Misses(u) : plan[u][j].rank = k
      BY <2>1, Zenon DEF SlotsPlaced
    <3>. QED
      BY <3>1, <3>2, SMTT(30)
  <2>3. ASSUME pc'[u] \in AllocatedSteps, NEW j \in Pending(u)'
        PROVE  info'[plan'[u][j].info].masterBlockIndex = MasterBlk(u, j)'
    <3>1. j \in Pending(u) /\ MasterBlk(u, j)' = MasterBlk(u, j)
      BY <1>1, <2>3, ZenonT(30)
    <3>. QED
      BY <2>1, <2>3, <3>1, ZenonT(30) DEF SlotsPlaced
  <2>. QED
    BY <2>2, <2>3, ZenonT(30) DEF SlotsPlaced
<1>9. PublishedOnDisk'
  BY <1>0, Zenon DEF Stored, PublishedOnDisk
<1>10. WrittenBelow'
  <2>1. ASSUME ~WithIOError, NEW s \in Len(masterFILE) .. nextBlockIndex - 1
        PROVE  \E u \in Threads : pc'[u] = "flush" /\ \E j \in Unflushed(u)' : MasterBlk(u, j)' = s
    <3>1. PICK u \in Threads : pc[u] = "flush" /\ \E j \in Unflushed(u) : MasterBlk(u, j) = s
      BY <1>0, <2>1, ZenonT(30) DEF Stored, WrittenBelow
    <3>. QED
      BY <1>1, <3>1, ZenonT(30)
  <2>2. Len(masterFILE) <= nextBlockIndex
    BY <1>0, Zenon DEF Stored, WrittenBelow
  <2>. QED
    BY <2>1, <2>2, ZenonT(30) DEF WrittenBelow
<1>11. ASSUME NEW u \in Threads, NEW j \in Flushed(u)'
       PROVE  OnDisk(MasterBlk(u, j), HashOf[req[u].buf[j]])'
  <2>1. OnDisk(MasterBlk(u, j), HashOf[req[u].buf[j]]) /\ MasterBlk(u, j)' = MasterBlk(u, j)
    BY <1>0, <1>1, <1>11, ZenonT(30) DEF Stored
  <2>. QED
    BY <2>1, Zenon DEF OnDisk
<1>. QED
  BY <1>5, <1>6, <1>7, <1>8, <1>9, <1>10, <1>11, ZenonT(30) DEF SlotInv, Owned, Stored, Placed

\* A remount finds masterFILE as long as the append point: every slot that was
\* handed out has been written, when no write failed.
LEMMA RemountSlots ==
  ASSUME ~(WithIOError /\ WithRemount), TypeInv, SlotInv, Remount
  PROVE  nextBlockIndex' = nextBlockIndex
<1>1. ~WithIOError /\ nextBlockIndex' = Len(masterFILE) /\ Quiescent
  BY Zenon DEF Remount, AppendPoint
<1>2. nextBlockIndex \in Nat /\ masterFILE \in Seq(Contents \cup {NULL})
  BY Zenon DEF TypeInv, TypeOK
<1>3. Len(masterFILE) \in Nat /\ Len(masterFILE) <= nextBlockIndex
  <2>1. Len(masterFILE) \in Nat
    BY <1>2
  <2>. QED
    BY <2>1, Zenon DEF SlotInv, Stored, WrittenBelow
<1>4. Len(masterFILE) .. nextBlockIndex - 1 = {}
  <2>1. "idle" # "flush"
    OBVIOUS
  <2>2. \A u \in Threads : pc[u] # "flush"
    BY <1>1, <2>1, Zenon DEF Quiescent
  <2>3. ASSUME NEW s \in Len(masterFILE) .. nextBlockIndex - 1 PROVE FALSE
    BY <1>1, <2>2, <2>3, ZenonT(30) DEF SlotInv, Stored, WrittenBelow
  <2>. QED
    BY <2>3, Zenon
<1>. QED
  BY <1>1, <1>2, <1>3, <1>4, SMTT(30)

\* SlotInv is inductive, relative to the types and the references.
LEMMA NextSlots ==
  ASSUME MinMaxLaws, CountingLaws, ~(WithIOError /\ WithRemount), TypeInv, RefInv, SlotInv, [Next]_vars
  PROVE  SlotInv'
<1>1. ASSUME NEW t \in Threads, Start(t) \/ Step(t)
      PROVE  SlotInv'
  <2>1. Placed /\ Owned /\ Stored
    BY Zenon DEF SlotInv
  <2>2. Placed' /\ Owned' /\ Stored'
    BY <1>1, <2>1, NextPlaced, NextOwned, NextStored, ZenonT(30)
  <2>. QED
    BY <2>2, Zenon DEF SlotInv
<1>2. ASSUME Remount \/ Wait \/ UNCHANGED vars
      PROVE  SlotInv'
  <2>1. /\ UNCHANGED <<hash_to_master, info, free_block_list, masterFILE, pc, req, blk, plan, miss_count, out, rel>>
        /\ Remount \/ nextBlockIndex' = nextBlockIndex
    BY <1>2, Zenon DEF Remount, Wait, vars, index, store, request
  <2>2. nextBlockIndex' = nextBlockIndex
    BY <2>1, RemountSlots, Zenon
  <2>. QED
    BY <2>1, <2>2, StutterSlots, ZenonT(30)
<1>. QED
  BY <1>1, <1>2, Zenon DEF Next

-----------------------------------------------------------------------------
(* What the invariant says of the owners of a slot. *)

\* An owner of slot s, by its kind.
FreeOwner(s, y) == \E k \in DOMAIN free_block_list : free_block_list[k] = s /\ y = <<"free", k>>
IndexOwner(s, y) == \E h \in InIndex : IndexSlot(h) = s /\ y = <<"index", h>>
WriteOwner(t, s, y) == \E k \in Reserved(t) : out[t][k] = s /\ y = <<"write", t, k>>
ReleaseOwner(t, s, y) == \E k \in DOMAIN rel[t] : rel[t][k] = s /\ y = <<"release", t, k>>

\* An owner of a slot is the free list, a digest of the index, a write or a
\* release.
LEMMA OwnerKinds ==
  ASSUME NEW s, NEW y
  PROVE  y \in Owners(s) <=> \/ FreeOwner(s, y) \/ IndexOwner(s, y)
                             \/ \E t \in Threads : WriteOwner(t, s, y) \/ ReleaseOwner(t, s, y)
<1>1. y \in FreeOwners(s) <=> FreeOwner(s, y)
  BY Zenon DEF FreeOwner, FreeOwners
<1>2. y \in IndexOwners(s) <=> IndexOwner(s, y)
  BY Zenon DEF IndexOwner, IndexOwners, InIndex, IndexSlot
<1>3. \A t : y \in WriteOwners(t, s) <=> WriteOwner(t, s, y)
  BY Zenon DEF WriteOwner, WriteOwners
<1>4. \A t : y \in ReleaseOwners(t, s) <=> ReleaseOwner(t, s, y)
  BY Zenon DEF ReleaseOwner, ReleaseOwners
<1>5. y \in ThreadOwners(s) <=> \E t \in Threads : y \in WriteOwners(t, s) \/ y \in ReleaseOwners(t, s)
  BY DEF ThreadOwners
<1>6. y \in Owners(s) <=> y \in FreeOwners(s) \/ y \in IndexOwners(s) \/ y \in ThreadOwners(s)
  BY Zenon DEF Owners
<1>. QED
  BY <1>1, <1>2, <1>3, <1>4, <1>5, <1>6, ZenonT(30)

\* An owner holds the slot, and a holder owns it once.
LEMMA OwnersHold ==
  ASSUME TypeInv, Placed, Owned, NEW s
  PROVE  /\ (\E y : FreeOwner(s, y)) <=> s \in Slots("free", NULL)
         /\ (\E y : IndexOwner(s, y)) <=> s \in Slots("index", NULL)
         /\ \A t \in Threads : /\ (\E y : WriteOwner(t, s, y)) <=> s \in Slots("write", t)
                               /\ (\E y : ReleaseOwner(t, s, y)) <=> s \in Slots("release", t)
         /\ \A x, y : /\ FreeOwner(s, x) /\ FreeOwner(s, y) => x = y
                      /\ IndexOwner(s, x) /\ IndexOwner(s, y) => x = y
                      /\ \A t \in Threads : /\ WriteOwner(t, s, x) /\ WriteOwner(t, s, y) => x = y
                                            /\ ReleaseOwner(t, s, x) /\ ReleaseOwner(t, s, y) => x = y
<1>1. /\ (\E y : FreeOwner(s, y)) <=> s \in Slots("free", NULL)
      /\ (\E y : IndexOwner(s, y)) <=> s \in Slots("index", NULL)
  <2>1. Slots("free", NULL) = Range(free_block_list) /\ Slots("index", NULL) = {IndexSlot(h) : h \in InIndex}
    BY SlotSets, Zenon
  <2>. QED
    BY <2>1, Zenon DEF FreeOwner, IndexOwner, Range
<1>2. ASSUME NEW t \in Threads
      PROVE  /\ (\E y : WriteOwner(t, s, y)) <=> s \in Slots("write", t)
             /\ (\E y : ReleaseOwner(t, s, y)) <=> s \in Slots("release", t)
  <2>1. Slots("write", t) = {out[t][i] : i \in Reserved(t)} /\ Slots("release", t) = Range(rel[t])
    BY SlotSets, Zenon
  <2>. QED
    BY <2>1, Zenon DEF WriteOwner, ReleaseOwner, Range
<1>3. /\ NoRepeats(free_block_list) /\ OneSlotEach
      /\ \A t \in Threads : NoRepeats(out[t]) /\ NoRepeats(rel[t])
  BY Zenon DEF Owned, Unrepeated
<1>4. ASSUME NEW x, NEW y
      PROVE  /\ FreeOwner(s, x) /\ FreeOwner(s, y) => x = y
             /\ IndexOwner(s, x) /\ IndexOwner(s, y) => x = y
  BY <1>3, Zenon DEF FreeOwner, IndexOwner, NoRepeats, OneSlotEach
<1>5. ASSUME NEW x, NEW y, NEW t \in Threads
      PROVE  /\ WriteOwner(t, s, x) /\ WriteOwner(t, s, y) => x = y
             /\ ReleaseOwner(t, s, x) /\ ReleaseOwner(t, s, y) => x = y
  <2>1. \A k \in Reserved(t) : k \in DOMAIN out[t]
    <3>1. CASE pc[t] = "publish"
      <4>1. pc[t] \in AllocatedSteps
        BY <3>1 DEF AllocatedSteps
      <4>2. \A j \in Misses(t) : plan[t][j].rank \in DOMAIN out[t]
        BY <1>3, <4>1, OwnSlots, ZenonT(30) DEF Placed
      <4>3. Reserved(t) = {plan[t][j].rank : j \in {k \in Misses(t) : k >= blk[t]}}
        BY <3>1 DEF Reserved
      <4>. QED
        BY <4>2, <4>3, ZenonT(30)
    <3>2. CASE pc[t] # "publish"
      BY <3>2, Zenon DEF Reserved
    <3>. QED
      BY <3>1, <3>2, Zenon
  <2>. QED
    BY <1>3, <2>1, ZenonT(30) DEF WriteOwner, ReleaseOwner, NoRepeats
<1>. QED
  BY <1>1, <1>2, <1>4, <1>5, ZenonT(30)

\* SlotInv gives every slot below the append point exactly one owner.
LEMMA OneOwner ==
  ASSUME TypeInv, SlotInv, NEW s \in 0 .. nextBlockIndex - 1
  PROVE  \E x : Owners(s) = {x}
<1>1. Placed /\ Owned /\ Unshared /\ Complete
  BY Zenon DEF SlotInv, Owned
<1>2. PICK kind \in Kinds, u \in Holders : s \in Slots(kind, u)
  BY <1>1, Zenon DEF Complete
<1>3. \A other \in Kinds, v \in Holders : s \in Slots(other, v) => other = kind /\ v = u
  BY <1>1, <1>2, ZenonT(30) DEF Unshared
<1>4. NULL \in Holders /\ \A t \in Threads : t \in Holders /\ t # NULL
  BY NullAssumption, Zenon DEF Holders
<1>5. \A y : /\ FreeOwner(s, y) => kind = "free"
             /\ IndexOwner(s, y) => kind = "index"
             /\ \A t \in Threads : /\ WriteOwner(t, s, y) => kind = "write" /\ u = t
                                   /\ ReleaseOwner(t, s, y) => kind = "release" /\ u = t
  BY <1>1, <1>3, <1>4, OwnersHold, KindNames, ZenonT(30)
<1>6. \A x, y \in Owners(s) : x = y
  <2>. SUFFICES ASSUME NEW x \in Owners(s), NEW y \in Owners(s) PROVE x = y
    BY Zenon
  <2>1. /\ FreeOwner(s, x) /\ FreeOwner(s, y) => x = y
        /\ IndexOwner(s, x) /\ IndexOwner(s, y) => x = y
        /\ \A t \in Threads : /\ WriteOwner(t, s, x) /\ WriteOwner(t, s, y) => x = y
                              /\ ReleaseOwner(t, s, x) /\ ReleaseOwner(t, s, y) => x = y
    BY <1>1, OwnersHold, ZenonT(30)
  <2>2. /\ FreeOwner(s, x) \/ IndexOwner(s, x) \/ \E t \in Threads : WriteOwner(t, s, x) \/ ReleaseOwner(t, s, x)
        /\ FreeOwner(s, y) \/ IndexOwner(s, y) \/ \E t \in Threads : WriteOwner(t, s, y) \/ ReleaseOwner(t, s, y)
    BY OwnerKinds, Zenon
  <2>. QED
    BY <1>5, <2>1, <2>2, KindNames, ZenonT(30)
<1>7. \E x : x \in Owners(s)
  <2>1. ASSUME u \in Threads
        PROVE  s \notin Slots("free", u) /\ s \notin Slots("index", u)
    BY <2>1, SlotSets, ZenonT(30)
  <2>2. s \notin Slots("write", NULL) /\ s \notin Slots("release", NULL)
    BY SlotSets, Zenon
  <2>3. \/ s \in Slots("free", NULL) \/ s \in Slots("index", NULL)
        \/ u \in Threads /\ (s \in Slots("write", u) \/ s \in Slots("release", u))
    BY <1>2, <2>1, <2>2, ZenonT(30) DEF Kinds, Holders
  <2>. QED
    BY <1>1, <2>3, OwnersHold, OwnerKinds, ZenonT(30)
<1>8. PICK x : x \in Owners(s)
  BY <1>7, Zenon
<1>9. Owners(s) = {x}
  BY <1>6, <1>8, ZenonT(30)
<1>. QED
  BY <1>9, Zenon

\* SlotInv keeps the free list below the append point.
LEMMA FreeBelow ==
  ASSUME TypeInv, SlotInv
  PROVE  NoDoubleAllocation
<1>1. "free" \in Kinds /\ NULL \in Holders /\ Complete
  BY KindNames, Zenon DEF Holders, SlotInv, Owned
<1>2. ASSUME NEW k \in DOMAIN free_block_list PROVE free_block_list[k] < nextBlockIndex
  <2>1. free_block_list[k] \in Slots("free", NULL)
    BY SlotSets, Zenon DEF Range
  <2>2. free_block_list[k] \in 0 .. nextBlockIndex - 1
    BY <1>1, <2>1, ZenonT(30) DEF Complete
  <2>3. nextBlockIndex \in Nat
    BY Zenon DEF TypeInv, TypeOK
  <2>. QED
    BY <2>2, <2>3, SMTT(30)
<1>. QED
  BY <1>2, Zenon DEF NoDoubleAllocation

=============================================================================
