-------------------------- MODULE NamespaceProofs --------------------------
(***************************************************************************)
(* The metadata of passthrough.c, for any number of names, handles and     *)
(* blocks of any size: what the handlers keep between the lower file       *)
(* system, the tables of the index and what POSIX says of each file.       *)
(***************************************************************************)
EXTENDS Namespace, TLAPS

Inodes == 1 .. Len(inode)
Inode == [kind : {"file", "dir", "symlink", "fifo"}, size : Nat]
File == [data : [Blocks -> Contents \cup {NULL}], size : Nat]

\* The types.
NamesOK ==
  /\ inode \in Seq(Inode)
  /\ lower \in [Paths -> Inodes \cup {NULL}]
  /\ handle \in [Handles -> [path : Paths, ino : Inodes] \cup {NULL}]
TablesOK ==
  /\ file_to_master \in [Paths \X Blocks -> Contents \cup {NULL}]
  /\ file_to_sizes \in [Paths -> Nat \cup {NULL}]
  /\ holder \in [Paths \X Blocks -> Inodes \cup {NULL}]
ReferenceOK ==
  /\ posix \in Seq(File)
  /\ Len(posix) = Len(inode)
  /\ odd \in Nat
TypeOK == NamesOK /\ TablesOK /\ ReferenceOK

\* A mapped block lies below the logical size of its path.
MappedWithinSize ==
  \A n \in Paths, b \in Blocks : file_to_master[<<n, b>>] # NULL =>
    file_to_sizes[n] # NULL /\ (b + 1) * BlockSize <= file_to_sizes[n]

\* What the tables hold for a file: its blocks, all of those below its size;
\* a size only once it was written to, and before that it is empty.
Agrees(n, i) ==
  \E q \in Nat :
    /\ posix[i].size = q * BlockSize
    /\ \A b \in Blocks : /\ file_to_master[<<n, b>>] = posix[i].data[b]
                         /\ posix[i].data[b] # NULL <=> b < q
                         /\ posix[i].data[b] # NULL => holder[<<n, b>>] = i
    /\ \/ file_to_sizes[n] = posix[i].size
       \/ file_to_sizes[n] = NULL /\ q = 0 /\ inode[i].size = 0
Nothing(n) == file_to_sizes[n] = NULL /\ \A b \in Blocks : file_to_master[<<n, b>>] = NULL

\* Plain requests keep one name for each file, with its handles open at it.
OneName == \A n, m \in Paths : lower[n] = lower[m] /\ lower[n] # NULL => n = m
AtFile(h) == handle[h] # NULL => IsFile(handle[h].path) /\ lower[handle[h].path] = handle[h].ino
HandlesAtFiles == \A h \in Handles : AtFile(h)
AtPath(n) == IF IsFile(n) THEN Agrees(n, lower[n]) ELSE Nothing(n)
TablesAgree == \A n \in Paths : AtPath(n)

Plain == OneName /\ HandlesAtFiles /\ TablesAgree

\* The inductive invariant.
NsInv == TypeOK /\ MappedWithinSize /\ (odd = 0 => Plain)

-----------------------------------------------------------------------------
(* Blocks and bytes. *)

\* The larger of two sizes, as write_dedup computes the new one.
LEMMA MaxOfTwo ==
  ASSUME NEW a \in Nat, NEW b \in Nat
  PROVE  Max({a, b}) = IF a >= b THEN a ELSE b
<1>1. \E x \in {a, b} : \A y \in {a, b} : x >= y
  OBVIOUS
<1>2. Max({a, b}) \in {a, b} /\ Max({a, b}) >= a /\ Max({a, b}) >= b
  BY <1>1 DEF Max
<1>. QED
  BY <1>2

\* Blocks and the bytes they start at are in the same order.
LEMMA BlockOrder ==
  ASSUME NEW a \in Nat, NEW b \in Nat
  PROVE  /\ a * BlockSize \in Nat /\ (a + 1) * BlockSize = a * BlockSize + BlockSize
         /\ a < b <=> a * BlockSize < b * BlockSize
         /\ a < b <=> (a + 1) * BlockSize <= b * BlockSize
<1>0. BlockSize \in Nat /\ BlockSize > 0
  BY SizeAssumption
<1>1. a * BlockSize \in Nat /\ b * BlockSize \in Nat /\ (a + 1) * BlockSize = a * BlockSize + BlockSize
  BY <1>0
<1>2. ASSUME a < b PROVE (a + 1) * BlockSize <= b * BlockSize
  <2>1. b - (a + 1) \in Nat
    BY <1>2
  <2>2. (b - (a + 1)) * BlockSize \in Nat
    BY <1>0, <2>1
  <2>3. b * BlockSize = (a + 1) * BlockSize + (b - (a + 1)) * BlockSize
    BY <1>0
  <2>. QED
    BY <1>0, <1>1, <2>2, <2>3
<1>3. ASSUME b <= a PROVE b * BlockSize <= a * BlockSize
  <2>1. (a - b) * BlockSize \in Nat
    BY <1>0, <1>3
  <2>2. a * BlockSize = b * BlockSize + (a - b) * BlockSize
    BY <1>0
  <2>. QED
    BY <1>0, <1>1, <2>1, <2>2
<1>. QED
  BY <1>0, <1>1, <1>2, <1>3

\* The quotient that the divisions by BLOCK_SIZE compute.
LEMMA Quotient ==
  ASSUME NEW a \in Nat
  PROVE  /\ a \div BlockSize \in Nat
         /\ (a \div BlockSize) * BlockSize <= a
         /\ a < (a \div BlockSize) * BlockSize + BlockSize
         /\ a % BlockSize = 0 => a = (a \div BlockSize) * BlockSize
BY SizeAssumption

\* The blocks that a size needs.
LEMMA BlocksOfSize ==
  ASSUME NEW s \in Nat
  PROVE  /\ NumBlocks(s) \in Nat
         /\ \A b \in Nat : (b + 1) * BlockSize <= s => b < NumBlocks(s)
         /\ \A q \in Nat : s = q * BlockSize => NumBlocks(s) = q
         /\ s % BlockSize = 0 => s = NumBlocks(s) * BlockSize
<1>0. BlockSize \in Nat /\ BlockSize > 0
  BY SizeAssumption
<1>1. PICK a \in Nat : a = s + BlockSize - 1
  BY <1>0
<1>2. PICK k \in Nat : k = NumBlocks(s)
  BY <1>1, Quotient DEF NumBlocks
<1>3. k * BlockSize <= a /\ a < k * BlockSize + BlockSize
  BY <1>1, <1>2, Quotient DEF NumBlocks
<1>4. k * BlockSize \in Nat /\ s <= k * BlockSize /\ k * BlockSize < s + BlockSize
  BY <1>0, <1>1, <1>3
<1>5. ASSUME NEW b \in Nat, (b + 1) * BlockSize <= s PROVE b < k
  <2>1. (b + 1) * BlockSize \in Nat
    BY <1>0
  <2>2. (b + 1) * BlockSize <= k * BlockSize
    BY <1>4, <1>5, <2>1
  <2>. QED
    BY <2>2, BlockOrder
<1>6. ASSUME NEW q \in Nat, s = q * BlockSize PROVE k = q
  <2>1. ~(k < q)
    BY <1>4, <1>6, BlockOrder
  <2>2. ~(q < k)
    <3>1. (q + 1) * BlockSize = q * BlockSize + BlockSize
      BY BlockOrder
    <3>. QED
      BY <1>0, <1>4, <1>6, <3>1, BlockOrder
  <2>. QED
    BY <2>1, <2>2
<1>7. s % BlockSize = 0 => s = k * BlockSize
  BY <1>6, Quotient
<1>. QED
  BY <1>2, <1>5, <1>6, <1>7

-----------------------------------------------------------------------------
(* Types. *)

\* A size changed in the lower file system: xmp_open and xmp_truncate.
LEMMA Resized ==
  ASSUME inode \in Seq(Inode), NEW i \in Inodes, NEW s \in Nat
  PROVE  LET new == [inode EXCEPT ![i].size = s] IN
         /\ new \in Seq(Inode) /\ Len(new) = Len(inode)
         /\ \A j \in Inodes : new[j].kind = inode[j].kind /\ new[j].size = IF j = i THEN s ELSE inode[j].size
<1>0. inode[i] \in Inode
  BY DEF Inodes
<1>1. PICK r \in Inode : r = [inode[i] EXCEPT !.size = s]
  BY <1>0 DEF Inode
<1>2. r.kind = inode[i].kind /\ r.size = s
  BY <1>0, <1>1 DEF Inode
<1>3. /\ [inode EXCEPT ![i] = r] \in Seq(Inode) /\ Len([inode EXCEPT ![i] = r]) = Len(inode)
      /\ \A j \in Inodes : [inode EXCEPT ![i] = r][j] = IF j = i THEN r ELSE inode[j]
  BY DEF Inodes
<1>4. [inode EXCEPT ![i].size = s] = [inode EXCEPT ![i] = r]
  BY <1>1
<1>. QED
  BY <1>2, <1>3, <1>4

\* The reference of one file changed.
LEMMA Rewritten ==
  ASSUME posix \in Seq(File), NEW i \in 1 .. Len(posix), NEW r \in File
  PROVE  LET new == [posix EXCEPT ![i] = r] IN
         /\ new \in Seq(File) /\ Len(new) = Len(posix)
         /\ \A j \in 1 .. Len(posix) : new[j] = IF j = i THEN r ELSE posix[j]
OBVIOUS

\* The tables without the blocks S of a path.
LEMMA Removed ==
  ASSUME NEW V, NEW f \in [Paths \X Blocks -> V], NULL \in V, NEW n, NEW S
  PROVE  /\ Without(f, n, S) \in [Paths \X Blocks -> V]
         /\ \A m \in Paths, b \in Blocks :
              Without(f, n, S)[<<m, b>>] = IF m = n /\ b \in S THEN NULL ELSE f[<<m, b>>]
BY DEF Without

\* The history only counts up.
LEMMA OddStep ==
  ASSUME odd \in Nat, NEW P \in BOOLEAN, Odd(P)
  PROVE  odd' \in Nat /\ odd' >= odd /\ (odd' = 0 => odd = 0 /\ ~P)
BY DEF Odd

\* A new inode: xmp_create, xmp_mknod, xmp_mkdir and xmp_symlink.
LEMMA MakeEffect ==
  ASSUME TypeOK, NEW n \in Paths, NEW kind \in {"file", "dir", "symlink", "fifo"}, Make(n, kind)
  PROVE  /\ inode' \in Seq(Inode) /\ Len(inode') = Len(inode) + 1 /\ Inodes \subseteq Inodes'
         /\ Len(inode) + 1 \in Inodes'
         /\ posix' \in Seq(File) /\ Len(posix') = Len(posix) + 1
         /\ \A j \in Inodes : inode'[j] = inode[j] /\ posix'[j] = posix[j]
         /\ inode'[Len(inode) + 1] = [kind |-> kind, size |-> 0]
         /\ posix'[Len(inode) + 1] = EmptyFile
<1>1. [kind |-> kind, size |-> 0] \in Inode
  BY DEF Inode
<1>2. EmptyFile \in File
  BY DEF EmptyFile, File
<1>3. inode \in Seq(Inode) /\ posix \in Seq(File) /\ Len(posix) = Len(inode)
  BY DEF TypeOK, NamesOK, ReferenceOK
<1>4. inode' = Append(inode, [kind |-> kind, size |-> 0]) /\ posix' = Append(posix, EmptyFile)
  BY DEF Make
<1>. QED
  BY <1>1, <1>2, <1>3, <1>4 DEF Inodes

\* The handlers that make an inode: xmp_create, xmp_mkdir, xmp_symlink, xmp_mknod.
LEMMA MakeTypes ==
  ASSUME TypeOK, NEW n \in Paths, NEW kind \in {"file", "dir", "symlink", "fifo"}, Make(n, kind),
         handle' \in [Handles -> [path : Paths, ino : Inodes'] \cup {NULL}]
  PROVE  TypeOK'
<1>1. lower' = [lower EXCEPT ![n] = Len(inode) + 1] /\ UNCHANGED <<file_to_master, file_to_sizes, holder, odd>>
  BY DEF Make, index
<1>2. Inodes \subseteq Inodes' /\ Len(inode) + 1 \in Inodes'
  BY MakeEffect, Zenon
<1>3. lower' \in [Paths -> Inodes' \cup {NULL}]
  BY <1>1, <1>2, Zenon DEF TypeOK, NamesOK
<1>4. holder' \in [Paths \X Blocks -> Inodes' \cup {NULL}]
  BY <1>1, <1>2 DEF TypeOK, TablesOK
<1>5. Len(posix') = Len(inode')
  BY MakeEffect DEF TypeOK, ReferenceOK
<1>. QED
  BY <1>1, <1>3, <1>4, <1>5, MakeEffect, Zenon DEF TypeOK, NamesOK, TablesOK, ReferenceOK

\* xmp_create keeps the types.
LEMMA CreateTypes ==
  ASSUME TypeOK, NEW n \in Paths, NEW h \in Handles, Create(n, h)
  PROVE  TypeOK'
<1>1. Make(n, "file") /\ handle' = [handle EXCEPT ![h] = [path |-> n, ino |-> Len(inode) + 1]]
  BY Zenon DEF Create
<1>2. Inodes \subseteq Inodes' /\ Len(inode) + 1 \in Inodes'
  BY <1>1, MakeEffect, Zenon
<1>3. [path |-> n, ino |-> Len(inode) + 1] \in [path : Paths, ino : Inodes']
  BY <1>2, Zenon
<1>4. [path : Paths, ino : Inodes] \subseteq [path : Paths, ino : Inodes']
  BY <1>2
<1>5. handle' \in [Handles -> [path : Paths, ino : Inodes'] \cup {NULL}]
  BY <1>1, <1>3, <1>4, Zenon DEF TypeOK, NamesOK
<1>. QED
  BY <1>1, <1>5, MakeTypes, Zenon

\* xmp_mkdir, xmp_symlink and xmp_mknod keep the types.
LEMMA OtherMakeTypes ==
  ASSUME TypeOK, NEW n \in Paths, NEW kind \in {"file", "dir", "symlink", "fifo"}, Make(n, kind), UNCHANGED handle
  PROVE  TypeOK'
<1>1. Inodes \subseteq Inodes'
  BY MakeEffect, Zenon
<1>2. [path : Paths, ino : Inodes] \subseteq [path : Paths, ino : Inodes']
  BY <1>1
<1>3. handle' \in [Handles -> [path : Paths, ino : Inodes'] \cup {NULL}]
  BY <1>2, Zenon DEF TypeOK, NamesOK
<1>. QED
  BY <1>3, MakeTypes, Zenon

\* A step that changes names and handles only keeps the types.
LEMMA NameTypes ==
  ASSUME TypeOK, UNCHANGED <<inode, posix, file_to_master, file_to_sizes, holder>>, odd' \in Nat,
         lower' \in [Paths -> Inodes \cup {NULL}],
         handle' \in [Handles -> [path : Paths, ino : Inodes] \cup {NULL}]
  PROVE  TypeOK'
BY Zenon DEF TypeOK, NamesOK, TablesOK, ReferenceOK, Inodes

\* What was renamed from d to e leads back when it is renamed from e to d.
LEMMA MovedBack ==
  ASSUME NEW n \in Paths, NEW d \in Paths, NEW e \in Paths, Under(n, d)
  PROVE  Under(Moved(n, d, e), e) /\ Moved(Moved(n, d, e), e, d) = n
<1>1. n \in Seq(Components) /\ d \in Seq(Components) /\ e \in Seq(Components)
  BY NamesAssumption, Zenon DEF Paths
<1>2. Len(n) \in Nat /\ Len(d) \in Nat /\ Len(e) \in Nat /\ Len(d) <= Len(n)
  BY <1>1 DEF Under, Below
<1>3. PICK t : t = SubSeq(n, Len(d) + 1, Len(n))
  BY Zenon
<1>4. /\ t \in Seq(Components) /\ Len(t) = Len(n) - Len(d)
      /\ \A k \in 1 .. Len(t) : t[k] = n[Len(d) + k]
  BY <1>1, <1>2, <1>3
<1>5. PICK m : m = Moved(n, d, e)
  BY Zenon
<1>6. m = e \o t
  BY <1>3, <1>5, Zenon DEF Moved
<1>7. /\ m \in Seq(Components) /\ Len(m) = Len(e) + Len(t)
      /\ \A k \in 1 .. Len(e) : m[k] = e[k]
      /\ \A k \in 1 .. Len(t) : m[Len(e) + k] = t[k]
  <2>0. e \in Seq(Components) /\ t \in Seq(Components)
    BY <1>1, <1>4, Zenon
  <2>1. m \in Seq(Components) /\ Len(m) = Len(e) + Len(t)
    BY ONLY <2>0, <1>6
  <2>2. ASSUME NEW k \in 1 .. Len(e) PROVE m[k] = e[k]
    BY <1>1, <1>4, <1>6
  <2>3. ASSUME NEW k \in 1 .. Len(t) PROVE m[Len(e) + k] = t[k]
    <3>1. Len(e) + k \in Len(e) + 1 .. Len(e) + Len(t) /\ Len(e) + k - Len(e) = k
      BY <1>2, <1>4
    <3>. QED
      BY ONLY <1>1, <1>4, <1>6, <3>1, e \in Seq(Components), t \in Seq(Components)
  <2>. QED
    BY <2>1, <2>2, <2>3, Zenon
<1>8. Under(m, e)
  <2>1. SubSeq(m, 1, Len(e)) = e
    BY <1>1, <1>2, <1>4, <1>7
  <2>2. Len(t) = 0 => m = e
    BY <1>1, <1>2, <1>4, <1>6
  <2>. QED
    BY <1>2, <1>4, <1>7, <2>1, <2>2 DEF Under, Below
<1>9. SubSeq(m, Len(e) + 1, Len(m)) = t
  BY <1>1, <1>2, <1>4, <1>7
<1>10. d \o t = n
  <2>1. \A k \in 1 .. Len(d) : n[k] = d[k]
    BY <1>1, <1>2 DEF Under, Below
  <2>2. Len(d \o t) = Len(n) /\ d \o t \in Seq(Components)
    BY <1>1, <1>2, <1>4
  <2>3. ASSUME NEW k \in 1 .. Len(n) PROVE (d \o t)[k] = n[k]
    <3>1. CASE k <= Len(d)
      BY <1>1, <1>2, <1>4, <2>1, <3>1
    <3>2. CASE k > Len(d)
      <4>1. k - Len(d) \in 1 .. Len(t) /\ Len(d) + (k - Len(d)) = k
        BY <1>2, <1>4, <3>2
      <4>2. (d \o t)[k] = t[k - Len(d)]
        BY <1>1, <1>2, <1>4, <3>2
      <4>. QED
        BY <1>4, <4>1, <4>2, Zenon
    <3>3. k <= Len(d) \/ k > Len(d)
      BY ONLY <1>2, k \in 1 .. Len(n)
    <3>. QED
      BY <3>1, <3>2, <3>3, Zenon
  <2>4. \A s \in Seq(Components) : s = [k \in 1 .. Len(s) |-> s[k]]
    OBVIOUS
  <2>5. d \o t = [k \in 1 .. Len(n) |-> (d \o t)[k]] /\ n = [k \in 1 .. Len(n) |-> n[k]]
    BY <1>1, <2>2, <2>4, Zenon
  <2>. QED
    BY <2>3, <2>5, Zenon
<1>. QED
  BY <1>5, <1>8, <1>9, <1>10, Zenon DEF Moved

\* What the move of a name leaves at every path.
LEMMA MoveEffect ==
  ASSUME TypeOK, NEW from \in Paths, NEW to \in Paths, MoveName(from, to)
  PROVE  /\ UNCHANGED <<inode, posix, file_to_master, file_to_sizes, holder>>
         /\ \A m \in Paths :
              /\ Arrives(m, from, to) =>
                   /\ Under(m, to) /\ Moved(m, to, from) \in Paths /\ Under(Moved(m, to, from), from)
                   /\ Moved(Moved(m, to, from), from, to) = m /\ lower'[m] = lower[Moved(m, to, from)]
              /\ ~Arrives(m, from, to) => lower'[m] = IF Under(m, from) \/ Under(m, to) THEN NULL ELSE lower[m]
<1>1. ASSUME NEW m \in Paths, Arrives(m, from, to)
      PROVE  /\ Under(m, to) /\ Moved(m, to, from) \in Paths /\ Under(Moved(m, to, from), from)
             /\ Moved(Moved(m, to, from), from, to) = m /\ lower'[m] = lower[Moved(m, to, from)]
  <2>1. Under(m, to) /\ Moved(m, to, from) \in Paths
    BY <1>1, Zenon DEF Arrives
  <2>. QED
    BY <1>1, <2>1, MovedBack, Zenon DEF MoveName
<1>2. ASSUME NEW m \in Paths, ~Arrives(m, from, to)
      PROVE  lower'[m] = IF Under(m, from) \/ Under(m, to) THEN NULL ELSE lower[m]
  BY <1>2, Zenon DEF MoveName
<1>. QED
  BY <1>1, <1>2, Zenon DEF MoveName, index

\* What the move of a name makes of an open handle.
LEMMA MoveHandle ==
  ASSUME TypeOK, NEW from \in Paths, NEW to \in Paths, MoveName(from, to), NEW h \in Handles, handle[h] # NULL
  PROVE  /\ handle[h] \in [path : Paths, ino : Inodes]
         /\ Under(handle[h].path, from) => /\ handle'[h] \in [path : Paths, ino : Inodes]
                                           /\ handle'[h].path = Moved(handle[h].path, from, to)
                                           /\ handle'[h].ino = handle[h].ino
         /\ ~Under(handle[h].path, from) => handle'[h] = handle[h]
<1>1. handle[h] \in [path : Paths, ino : Inodes]
  BY Zenon DEF TypeOK, NamesOK
<1>2. ~Under(handle[h].path, from) => handle'[h] = handle[h]
  BY Zenon DEF MoveName
<1>3. ASSUME Under(handle[h].path, from)
      PROVE  /\ handle'[h] \in [path : Paths, ino : Inodes]
             /\ handle'[h].path = Moved(handle[h].path, from, to) /\ handle'[h].ino = handle[h].ino
  <2>1. handle[h].path \in Paths /\ h \in OpenAt(handle[h].path)
    BY <1>1, Zenon DEF OpenAt
  <2>2. PICK m \in Paths : m = Moved(handle[h].path, from, to)
    BY <1>3, <2>1, Zenon DEF MoveName
  <2>3. handle'[h] = [handle[h] EXCEPT !.path = m]
    BY <1>3, <2>2, Zenon DEF MoveName
  <2>. QED
    BY <1>1, <2>2, <2>3
<1>. QED
  BY <1>1, <1>2, <1>3, Zenon

\* The move of a name keeps the types.
LEMMA MoveTypes ==
  ASSUME TypeOK, NEW from \in Paths, NEW to \in Paths, MoveName(from, to)
  PROVE  TypeOK'
<1>1. UNCHANGED <<inode, posix, file_to_master, file_to_sizes, holder>> /\ odd' \in Nat
  <2>1. PICK P \in BOOLEAN : Odd(P)
    BY Zenon DEF MoveName
  <2>. QED
    BY <2>1, MoveEffect, OddStep, Zenon DEF TypeOK, ReferenceOK
<1>2. lower' \in [Paths -> Inodes \cup {NULL}]
  <2>1. ASSUME NEW m \in Paths PROVE lower'[m] \in Inodes \cup {NULL}
    BY MoveEffect, Zenon DEF TypeOK, NamesOK
  <2>2. \E f : lower' = [m \in Paths |-> f[m]]
    <3>1. lower' = [m \in Paths |-> lower'[m]]
      BY Zenon DEF MoveName
    <3>. QED
      BY <3>1, Zenon
  <2>. QED
    BY <2>1, <2>2, Zenon
<1>3. handle' \in [Handles -> [path : Paths, ino : Inodes] \cup {NULL}]
  <2>1. ASSUME NEW h \in Handles PROVE handle'[h] \in [path : Paths, ino : Inodes] \cup {NULL}
    <3>1. CASE handle[h] = NULL
      BY <3>1, Zenon DEF MoveName
    <3>2. CASE handle[h] # NULL
      BY <3>2, MoveHandle, Zenon
    <3>. QED
      BY <3>1, <3>2, Zenon
  <2>2. handle' = [h \in Handles |-> handle'[h]]
    BY Zenon DEF MoveName
  <2>. QED
    BY <2>1, <2>2, Zenon
<1>. QED
  BY <1>1, <1>2, <1>3, NameTypes, Zenon

\* The part of xmp_unlink that forgets a path keeps the types of the tables.
LEMMA ForgetTypes ==
  ASSUME TypeOK, NEW n \in Paths, ForgetFile(n)
  PROVE  /\ file_to_master' \in [Paths \X Blocks -> Contents \cup {NULL}]
         /\ file_to_sizes' \in [Paths -> Nat \cup {NULL}]
         /\ holder' \in [Paths \X Blocks -> Inodes \cup {NULL}]
<1>1. CASE file_to_sizes[n] = NULL
  BY <1>1, Zenon DEF ForgetFile, index, TypeOK, TablesOK
<1>2. CASE file_to_sizes[n] # NULL
  <2>1. PICK S : S = AllBlocks(file_to_sizes[n])
    BY Zenon
  <2>2. /\ file_to_master' = Without(file_to_master, n, S) /\ holder' = Without(holder, n, S)
        /\ file_to_sizes' = [file_to_sizes EXCEPT ![n] = NULL]
    BY <1>2, <2>1, Zenon DEF ForgetFile, Forget
  <2>. QED
    BY <2>2, Removed, Zenon DEF TypeOK, TablesOK
<1>. QED
  BY <1>1, <1>2, Zenon

\* xmp_unlink keeps the types.
LEMMA UnlinkTypes ==
  ASSUME TypeOK, NEW n \in Paths, Unlink(n)
  PROVE  TypeOK'
<1>1. ForgetFile(n) /\ UNCHANGED <<inode, handle, posix>>
  BY Zenon DEF Unlink
<1>2. lower' \in [Paths -> Inodes \cup {NULL}]
  BY Zenon DEF Unlink, TypeOK, NamesOK
<1>3. odd' \in Nat
  BY OddStep DEF Unlink, TypeOK, ReferenceOK
<1>. QED
  BY <1>1, <1>2, <1>3, ForgetTypes, Zenon DEF TypeOK, NamesOK, TablesOK, ReferenceOK, Inodes

\* xmp_release keeps the types.
LEMMA ReleaseTypes ==
  ASSUME TypeOK, NEW h \in Handles, Release(h)
  PROVE  TypeOK'
<1>1. UNCHANGED <<inode, posix, odd>> /\ handle' = [handle EXCEPT ![h] = NULL] /\ handle[h].path \in Paths
  BY Zenon DEF Release, TypeOK, NamesOK
<1>2. handle' \in [Handles -> [path : Paths, ino : Inodes] \cup {NULL}]
  BY <1>1, Zenon DEF TypeOK, NamesOK
<1>3. CASE handle[h].path \in Hidden /\ OpenAt(handle[h].path) = {h}
  <2>1. ForgetFile(handle[h].path) /\ lower' = [lower EXCEPT ![handle[h].path] = NULL]
    BY <1>3, Zenon DEF Release
  <2>2. lower' \in [Paths -> Inodes \cup {NULL}]
    BY <1>1, <2>1, Zenon DEF TypeOK, NamesOK
  <2>3. /\ file_to_master' \in [Paths \X Blocks -> Contents \cup {NULL}]
        /\ file_to_sizes' \in [Paths -> Nat \cup {NULL}]
        /\ holder' \in [Paths \X Blocks -> Inodes \cup {NULL}]
    BY <1>1, <2>1, ForgetTypes, Zenon
  <2>. QED
    BY <1>1, <1>2, <2>2, <2>3, Zenon DEF TypeOK, NamesOK, TablesOK, ReferenceOK, Inodes
<1>4. CASE ~(handle[h].path \in Hidden /\ OpenAt(handle[h].path) = {h})
  <2>1. UNCHANGED <<file_to_master, file_to_sizes, holder, lower>>
    BY <1>4, Zenon DEF Release, index
  <2>2. lower' \in [Paths -> Inodes \cup {NULL}] /\ odd' \in Nat
    BY <1>1, <2>1, Zenon DEF TypeOK, NamesOK, ReferenceOK
  <2>. QED
    BY <1>1, <1>2, <2>1, <2>2, NameTypes, Zenon
<1>. QED
  BY <1>3, <1>4, Zenon

\* xmp_open keeps the types, with O_TRUNC or without.
LEMMA OpenTypes ==
  ASSUME TypeOK, NEW n \in Paths, NEW h \in Handles, NEW trunc \in BOOLEAN, Open(n, h, trunc)
  PROVE  TypeOK'
<1>1. /\ lower[n] \in Inodes /\ UNCHANGED <<lower, file_to_master, file_to_sizes, holder>>
      /\ handle' = [handle EXCEPT ![h] = [path |-> n, ino |-> lower[n]]]
  BY Zenon DEF Open, IsFile, index, TypeOK, NamesOK
<1>2. handle' \in [Handles -> [path : Paths, ino : Inodes] \cup {NULL}]
  BY <1>1, Zenon DEF TypeOK, NamesOK
<1>3. odd' \in Nat
  <2>1. (trunc /\ HasMetadata(n)) \in BOOLEAN
    BY Zenon DEF HasMetadata
  <2>. QED
    BY <2>1, OddStep, Zenon DEF Open, TypeOK, ReferenceOK
<1>4. /\ inode' \in Seq(Inode) /\ Len(inode') = Len(inode)
      /\ posix' \in Seq(File) /\ Len(posix') = Len(inode)
  <2>1. CASE trunc
    <3>1. PICK i \in Inodes : i = lower[n]
      BY <1>1, Zenon
    <3>2. inode' = [inode EXCEPT ![i].size = 0] /\ posix' = [posix EXCEPT ![i] = EmptyFile]
      BY <2>1, <3>1, Zenon DEF Open
    <3>3. EmptyFile \in File
      BY DEF EmptyFile, File
    <3>4. i \in 1 .. Len(posix) /\ 0 \in Nat /\ inode \in Seq(Inode) /\ posix \in Seq(File) /\ Len(posix) = Len(inode)
      BY <3>1 DEF Inodes, TypeOK, NamesOK, ReferenceOK
    <3>. QED
      BY <3>1, <3>2, <3>3, <3>4, Resized, Rewritten, Zenon
  <2>2. CASE ~trunc
    BY <2>2, Zenon DEF Open, TypeOK, NamesOK, ReferenceOK
  <2>. QED
    BY <2>1, <2>2, Zenon
<1>. QED
  BY <1>1, <1>2, <1>3, <1>4, Zenon DEF TypeOK, NamesOK, TablesOK, ReferenceOK, Inodes

\* The larger of two sizes.
Larger(a, b) == IF a >= b THEN a ELSE b

\* xmp_write of content c at an offset, in terms of the path n, the inode i
\* and the block b it is for, the size it finds and the reference it leaves.
WriteTo(h, c, offset, n, i, b, old, r) ==
  /\ handle[h] # NULL /\ n = handle[h].path /\ i = handle[h].ino /\ b = offset \div BlockSize
  /\ offset <= posix[i].size
  /\ old = IF file_to_sizes[n] = NULL THEN 0 ELSE file_to_sizes[n]
  /\ odd' \in Nat /\ odd' >= odd /\ (odd' = 0 => odd = 0 /\ offset % BlockSize = 0)
  /\ file_to_master' = [file_to_master EXCEPT ![<<n, b>>] = c]
  /\ holder' = [holder EXCEPT ![<<n, b>>] = i]
  /\ file_to_sizes' = [file_to_sizes EXCEPT ![n] = Larger(old, (b + 1) * BlockSize)]
  /\ (b + 1) * BlockSize \in Nat
  /\ posix' = [posix EXCEPT ![i] = r]
  /\ r.size = Larger(posix[i].size, offset + BlockSize)
  /\ offset % BlockSize = 0 => r.data = [posix[i].data EXCEPT ![b] = c]
  /\ UNCHANGED <<lower, inode, handle>>

\* What xmp_write does to the tables and to the inode, with its parts named.
LEMMA WriteEffect ==
  ASSUME TypeOK, NEW h \in Handles, NEW c \in Contents, NEW offset \in Offsets, Write(h, c, offset)
  PROVE  \E n \in Paths, i \in Inodes, b \in Blocks, old \in Nat, r \in File : WriteTo(h, c, offset, n, i, b, old, r)
<1>0. offset \in Nat /\ BlockSize \in Nat /\ offset + BlockSize \in Nat
  BY SizeAssumption DEF Offsets
<1>1. PICK n \in Paths, i \in Inodes : handle[h] # NULL /\ n = handle[h].path /\ i = handle[h].ino
  <2>1. handle[h] # NULL
    BY Zenon DEF Write
  <2>2. handle[h].path \in Paths /\ handle[h].ino \in Inodes
    BY <2>1, Zenon DEF TypeOK, NamesOK
  <2>. QED
    BY <2>1, <2>2, Zenon
<1>2. PICK b \in Blocks : b = StartBlock(offset)
  BY Zenon DEF Write
<1>3. PICK old \in Nat : old = IF file_to_sizes[n] = NULL THEN 0 ELSE file_to_sizes[n]
  BY DEF TypeOK, TablesOK
<1>4. b \in Nat /\ (b + 1) * BlockSize \in Nat
  <2>1. b \in Nat
    BY DEF Blocks
  <2>. QED
    BY <1>0, <2>1
<1>5. posix[i] \in File /\ posix[i].size \in Nat /\ posix[i].data \in [Blocks -> Contents \cup {NULL}]
  <2>1. posix[i] \in File
    BY DEF TypeOK, ReferenceOK, Inodes
  <2>. QED
    BY <2>1, Zenon DEF File
<1>6. PICK size \in Nat : size = Larger(posix[i].size, offset + BlockSize) /\ size = Max({posix[i].size, offset + BlockSize})
  BY <1>0, <1>5, MaxOfTwo DEF Larger
<1>7. PICK data \in [Blocks -> Contents \cup {NULL}] :
        data = IF offset % BlockSize = 0 THEN [posix[i].data EXCEPT ![b] = c] ELSE posix[i].data
  BY <1>5, Zenon
<1>8. Max({old, NewEnd(b)}) = Larger(old, (b + 1) * BlockSize)
  BY <1>4, MaxOfTwo, Zenon DEF Larger, NewEnd
<1>9. PICK r \in File : r = [data |-> data, size |-> size]
  BY Zenon DEF File
<1>10. r.data = data /\ r.size = size
  BY <1>9
<1>11. odd' \in Nat /\ odd' >= odd /\ (odd' = 0 => odd = 0 /\ offset % BlockSize = 0)
  <2>1. odd \in Nat /\ Odd(~(offset % BlockSize = 0))
    BY Zenon DEF Write, TypeOK, ReferenceOK
  <2>. QED
    BY <2>1, OddStep
<1>12. /\ file_to_master' = [file_to_master EXCEPT ![<<n, b>>] = c]
       /\ holder' = [holder EXCEPT ![<<n, b>>] = i]
       /\ file_to_sizes' = [file_to_sizes EXCEPT ![n] = Larger(old, (b + 1) * BlockSize)]
       /\ offset <= posix[i].size
       /\ UNCHANGED <<lower, inode, handle>>
  BY <1>1, <1>2, <1>3, <1>8, Zenon DEF Write
<1>13. posix' = [posix EXCEPT ![i] = r]
  BY <1>1, <1>2, <1>6, <1>7, <1>9, Zenon DEF Write
<1>. QED
  BY <1>1, <1>2, <1>3, <1>4, <1>6, <1>7, <1>10, <1>11, <1>12, <1>13, Zenon DEF StartBlock, WriteTo

\* xmp_write keeps the types.
LEMMA WriteTypes ==
  ASSUME TypeOK, NEW h \in Handles, NEW c \in Contents, NEW offset \in Offsets, Write(h, c, offset)
  PROVE  TypeOK'
<1>0. PICK n \in Paths, i \in Inodes, b \in Blocks, old \in Nat, r \in File : WriteTo(h, c, offset, n, i, b, old, r)
  BY WriteEffect, Zenon
<1>1. /\ odd' \in Nat
      /\ file_to_master' = [file_to_master EXCEPT ![<<n, b>>] = c]
      /\ holder' = [holder EXCEPT ![<<n, b>>] = i]
      /\ file_to_sizes' = [file_to_sizes EXCEPT ![n] = Larger(old, (b + 1) * BlockSize)]
      /\ (b + 1) * BlockSize \in Nat
      /\ posix' = [posix EXCEPT ![i] = r]
      /\ UNCHANGED <<lower, inode, handle>>
  BY <1>0, Zenon DEF WriteTo
<1>2. file_to_master' \in [Paths \X Blocks -> Contents \cup {NULL}] /\ holder' \in [Paths \X Blocks -> Inodes \cup {NULL}]
  BY <1>1 DEF TypeOK, TablesOK
<1>3. file_to_sizes' \in [Paths -> Nat \cup {NULL}]
  BY <1>1, Zenon DEF TypeOK, TablesOK, Larger
<1>4. posix' \in Seq(File) /\ Len(posix') = Len(posix)
  BY <1>1, Rewritten DEF TypeOK, ReferenceOK, Inodes
<1>. QED
  BY <1>1, <1>2, <1>3, <1>4, Zenon DEF TypeOK, NamesOK, TablesOK, ReferenceOK, Inodes

\* xmp_truncate in terms of the inode i it finds: a step that stays plain did
\* not grow the file, and the lower file system went along.
Cut(i, size) ==
  [data |-> [b \in Blocks |-> IF b * BlockSize < size THEN posix[i].data[b] ELSE NULL], size |-> size]

TruncateTo(n, size, i) ==
  /\ i = lower[n] /\ lower[n] # NULL /\ inode[i].kind = "file" /\ size \in Nat /\ size % BlockSize = 0
  /\ IF file_to_sizes[n] # NULL /\ size < file_to_sizes[n]
     THEN /\ file_to_master' = Without(file_to_master, n, CutBlocks(size, file_to_sizes[n]))
          /\ holder' = Without(holder, n, CutBlocks(size, file_to_sizes[n]))
          /\ file_to_sizes' = [file_to_sizes EXCEPT ![n] = size]
     ELSE UNCHANGED <<file_to_master, holder, file_to_sizes>>
  /\ inode' \in Seq(Inode) /\ Len(inode') = Len(inode) /\ \A j \in Inodes : inode'[j].kind = inode[j].kind
  /\ posix' \in Seq(File) /\ Len(posix') = Len(posix)
  /\ odd' \in Nat /\ odd' >= odd
  /\ odd' = 0 => /\ odd = 0 /\ ~(size > posix[i].size)
                 /\ inode' = [inode EXCEPT ![i].size = size]
                 /\ posix' = [posix EXCEPT ![i] = Cut(i, size)]
  /\ UNCHANGED <<lower, handle>>

\* What xmp_truncate does to the tables and to the inode.
LEMMA TruncateEffect ==
  ASSUME TypeOK, NEW n \in Paths, NEW size \in Offsets, Truncate(n, size)
  PROVE  \E i \in Inodes : TruncateTo(n, size, i)
<1>0. size \in Nat /\ size % BlockSize = 0
  <2>1. size \in Nat
    BY DEF Offsets
  <2>. QED
    BY <2>1, Zenon DEF Truncate, Accepts
<1>1. PICK i \in Inodes : i = lower[n] /\ lower[n] # NULL /\ inode[i].kind = "file"
  <2>1. lower[n] # NULL /\ inode[lower[n]].kind = "file"
    BY Zenon DEF Truncate, IsFile
  <2>2. lower[n] \in Inodes
    BY <2>1, Zenon DEF TypeOK, NamesOK
  <2>. QED
    BY <2>1, <2>2, Zenon
<1>2. inode \in Seq(Inode) /\ posix \in Seq(File) /\ Len(posix) = Len(inode) /\ odd \in Nat
      /\ i \in 1 .. Len(posix)
  BY Zenon DEF TypeOK, NamesOK, ReferenceOK, Inodes
<1>3. Cut(i, size) \in File
  <2>1. posix[i] \in File
    BY <1>2
  <2>2. posix[i].data \in [Blocks -> Contents \cup {NULL}]
    BY <2>1, Zenon DEF File
  <2>. QED
    BY <1>0, <2>2, Zenon DEF Cut, File
<1>4. /\ IF file_to_sizes[n] # NULL /\ size < file_to_sizes[n]
         THEN /\ file_to_master' = Without(file_to_master, n, CutBlocks(size, file_to_sizes[n]))
              /\ holder' = Without(holder, n, CutBlocks(size, file_to_sizes[n]))
              /\ file_to_sizes' = [file_to_sizes EXCEPT ![n] = size]
         ELSE UNCHANGED <<file_to_master, holder, file_to_sizes>>
      /\ UNCHANGED <<lower, handle>>
  BY Zenon DEF Truncate, Forget, index
<1>5. CASE Odd(TRUE) /\ UNCHANGED <<inode, posix>>
  <2>1. odd' \in Nat /\ odd' >= odd /\ odd' # 0
    BY <1>2, <1>5, OddStep
  <2>2. inode' = inode /\ posix' = posix
    BY <1>5, Zenon
  <2>. QED
    BY <1>0, <1>1, <1>2, <1>4, <2>1, <2>2, Zenon DEF TruncateTo
<1>6. CASE /\ inode' = [inode EXCEPT ![lower[n]].size = size]
           /\ posix' = [posix EXCEPT ![lower[n]] =
                [data |-> [b \in Blocks |-> IF b * BlockSize < size THEN @.data[b] ELSE NULL],
                 size |-> size]]
           /\ Odd(size > posix[lower[n]].size)
  <2>1. inode' = [inode EXCEPT ![i].size = size] /\ posix' = [posix EXCEPT ![i] = Cut(i, size)]
    BY <1>1, <1>6, Zenon DEF Cut
  <2>2. odd' \in Nat /\ odd' >= odd /\ (odd' = 0 => odd = 0 /\ ~(size > posix[i].size))
    <3>1. Odd(size > posix[i].size)
      BY <1>1, <1>6, Zenon
    <3>. QED
      BY <1>2, <3>1 DEF Odd
  <2>3. inode' \in Seq(Inode) /\ Len(inode') = Len(inode) /\ \A j \in Inodes : inode'[j].kind = inode[j].kind
    <3>1. PICK new : new = [inode EXCEPT ![i].size = size]
      BY Zenon
    <3>2. new \in Seq(Inode) /\ Len(new) = Len(inode) /\ \A j \in Inodes : new[j].kind = inode[j].kind
      BY <1>0, <1>2, <3>1, Resized
    <3>. QED
      BY <2>1, <3>1, <3>2, Zenon
  <2>4. posix' \in Seq(File) /\ Len(posix') = Len(posix)
    BY <1>2, <1>3, <2>1, Rewritten, Zenon
  <2>. QED
    BY <1>0, <1>1, <1>4, <2>1, <2>2, <2>3, <2>4, Zenon DEF TruncateTo
<1>. QED
  BY <1>5, <1>6, Zenon DEF Truncate

\* xmp_truncate keeps the types.
LEMMA TruncateTypes ==
  ASSUME TypeOK, NEW n \in Paths, NEW size \in Offsets, Truncate(n, size)
  PROVE  TypeOK'
<1>1. PICK i \in Inodes : TruncateTo(n, size, i)
  BY TruncateEffect, Zenon
<1>2. /\ file_to_master' \in [Paths \X Blocks -> Contents \cup {NULL}]
      /\ holder' \in [Paths \X Blocks -> Inodes \cup {NULL}]
      /\ file_to_sizes' \in [Paths -> Nat \cup {NULL}]
  <2>1. CASE file_to_sizes[n] # NULL /\ size < file_to_sizes[n]
    <3>1. PICK S : S = CutBlocks(size, file_to_sizes[n])
      BY Zenon
    <3>2. /\ file_to_master' = Without(file_to_master, n, S) /\ holder' = Without(holder, n, S)
          /\ file_to_sizes' = [file_to_sizes EXCEPT ![n] = size] /\ size \in Nat
      BY <1>1, <2>1, <3>1, Zenon DEF TruncateTo
    <3>. QED
      BY <3>2, Removed, Zenon DEF TypeOK, TablesOK
  <2>2. CASE ~(file_to_sizes[n] # NULL /\ size < file_to_sizes[n])
    BY <1>1, <2>2, Zenon DEF TruncateTo, TypeOK, TablesOK
  <2>. QED
    BY <2>1, <2>2, Zenon
<1>. QED
  BY <1>1, <1>2, Zenon DEF TruncateTo, TypeOK, NamesOK, TablesOK, ReferenceOK, Inodes

\* Every request keeps the types.
LEMMA NextTypes ==
  ASSUME TypeOK, [Next]_vars
  PROVE  TypeOK'
<1>0. Names \subseteq Paths /\ Hidden \subseteq Paths /\ odd \in Nat
  BY Zenon DEF Paths, TypeOK, ReferenceOK
<1>1. CASE PassThrough \/ UNCHANGED vars
  BY <1>1, Zenon DEF PassThrough, vars, index, TypeOK, NamesOK, TablesOK, ReferenceOK, Inodes
<1>2. ASSUME NEW n \in Names, Mkdir(n) \/ Symlink(n) PROVE TypeOK'
  BY <1>0, <1>2, OtherMakeTypes, Zenon DEF Mkdir, Symlink
<1>3. ASSUME NEW n \in Names, NEW kind \in {"file", "fifo"}, Mknod(n, kind) PROVE TypeOK'
  BY <1>0, <1>3, OtherMakeTypes, Zenon DEF Mknod
<1>4. ASSUME NEW n \in Names, Rmdir(n) PROVE TypeOK'
  <2>1. /\ lower' = [lower EXCEPT ![n] = NULL]
        /\ UNCHANGED <<inode, posix, file_to_master, file_to_sizes, holder, odd, handle>>
    BY <1>4, Zenon DEF Rmdir, index
  <2>2. lower' \in [Paths -> Inodes \cup {NULL}] /\ handle' \in [Handles -> [path : Paths, ino : Inodes] \cup {NULL}]
        /\ odd' \in Nat
    BY <1>0, <2>1, Zenon DEF TypeOK, NamesOK
  <2>. QED
    BY <2>1, <2>2, NameTypes, Zenon
<1>5. ASSUME NEW from \in Names, NEW to \in Names, LinkTo(from, to) PROVE TypeOK'
  <2>1. /\ lower' = [lower EXCEPT ![to] = lower[from]]
        /\ UNCHANGED <<inode, posix, file_to_master, file_to_sizes, holder, handle>>
    BY <1>5, Zenon DEF LinkTo, index
  <2>2. lower' \in [Paths -> Inodes \cup {NULL}] /\ handle' \in [Handles -> [path : Paths, ino : Inodes] \cup {NULL}]
    BY <1>0, <2>1, Zenon DEF TypeOK, NamesOK
  <2>3. odd' \in Nat
    BY <1>0, <1>5 DEF LinkTo, Odd
  <2>. QED
    BY <2>1, <2>2, <2>3, NameTypes, Zenon
<1>6. ASSUME NEW from \in Names, NEW to \in Names, Rename(from, to) PROVE TypeOK'
  BY <1>0, <1>6, MoveTypes, Zenon DEF Rename
<1>7. ASSUME NEW n \in Names, NEW hidden \in Hidden, UnlinkOpen(n, hidden) PROVE TypeOK'
  BY <1>0, <1>7, MoveTypes, Zenon DEF UnlinkOpen
<1>8. Request => TypeOK'
  BY <1>0, <1>1, <1>2, <1>3, <1>4, <1>5, <1>6, <1>7, CreateTypes, OpenTypes, WriteTypes, TruncateTypes,
     UnlinkTypes, ReleaseTypes, ZenonT(30) DEF Request
<1>. QED
  BY <1>1, <1>8, Zenon DEF Next

-----------------------------------------------------------------------------
(* Mapped blocks lie below the logical size, whatever the requests. *)

\* A path whose metadata was forgotten has no mapping left.
LEMMA ForgetEffect ==
  ASSUME TypeOK, MappedWithinSize, NEW n \in Paths, ForgetFile(n)
  PROVE  /\ file_to_sizes'[n] = NULL /\ \A b \in Blocks : file_to_master'[<<n, b>>] = NULL
         /\ \A m \in Paths \ {n} :
              /\ file_to_sizes'[m] = file_to_sizes[m]
              /\ \A b \in Blocks : /\ file_to_master'[<<m, b>>] = file_to_master[<<m, b>>]
                                   /\ holder'[<<m, b>>] = holder[<<m, b>>]
<1>1. CASE file_to_sizes[n] = NULL
  BY <1>1, Zenon DEF ForgetFile, index, MappedWithinSize
<1>2. CASE file_to_sizes[n] # NULL
  <2>1. PICK s \in Nat : s = file_to_sizes[n]
    BY <1>2, Zenon DEF TypeOK, TablesOK
  <2>2. /\ file_to_master' = Without(file_to_master, n, AllBlocks(s)) /\ holder' = Without(holder, n, AllBlocks(s))
        /\ file_to_sizes' = [file_to_sizes EXCEPT ![n] = NULL]
    BY <1>2, <2>1, Zenon DEF ForgetFile, Forget
  <2>3. /\ file_to_master \in [Paths \X Blocks -> Contents \cup {NULL}] /\ file_to_sizes \in [Paths -> Nat \cup {NULL}]
        /\ holder \in [Paths \X Blocks -> Inodes \cup {NULL}]
    BY Zenon DEF TypeOK, TablesOK
  <2>4. \A m \in Paths, b \in Blocks :
          /\ file_to_master'[<<m, b>>] = IF m = n /\ b \in AllBlocks(s) THEN NULL ELSE file_to_master[<<m, b>>]
          /\ holder'[<<m, b>>] = IF m = n /\ b \in AllBlocks(s) THEN NULL ELSE holder[<<m, b>>]
    <3>2. \A m \in Paths, b \in Blocks : Without(file_to_master, n, AllBlocks(s))[<<m, b>>] =
            IF m = n /\ b \in AllBlocks(s) THEN NULL ELSE file_to_master[<<m, b>>]
      BY <2>3 DEF Without
    <3>3. \A m \in Paths, b \in Blocks : Without(holder, n, AllBlocks(s))[<<m, b>>] =
            IF m = n /\ b \in AllBlocks(s) THEN NULL ELSE holder[<<m, b>>]
      BY <2>3 DEF Without
    <3>. QED
      BY <2>2, <3>2, <3>3, Zenon
  <2>5. ASSUME NEW b \in Blocks, file_to_master[<<n, b>>] # NULL PROVE b \in AllBlocks(s)
    <3>1. (b + 1) * BlockSize <= s /\ b \in Nat
      BY <2>1, <2>5 DEF MappedWithinSize, Blocks
    <3>2. b < NumBlocks(s) /\ NumBlocks(s) \in Nat
      BY <3>1, BlocksOfSize
    <3>. QED
      BY <3>1, <3>2 DEF AllBlocks
  <2>6. file_to_sizes'[n] = NULL /\ \A m \in Paths \ {n} : file_to_sizes'[m] = file_to_sizes[m]
    BY <2>2, <2>3, Zenon
  <2>. QED
    BY <2>4, <2>5, <2>6, Zenon
<1>. QED
  BY <1>1, <1>2, Zenon

\* The blocks of a file that xmp_unlink removed are all unmapped.
LEMMA ForgetWithin ==
  ASSUME TypeOK, MappedWithinSize, NEW n \in Paths, ForgetFile(n)
  PROVE  MappedWithinSize'
<1>1. ASSUME NEW m \in Paths, NEW b \in Blocks, file_to_master'[<<m, b>>] # NULL
      PROVE  file_to_sizes'[m] # NULL /\ (b + 1) * BlockSize <= file_to_sizes'[m]
  <2>1. m # n
    BY <1>1, ForgetEffect, Zenon
  <2>2. \A x \in Paths \ {n} : /\ file_to_sizes'[x] = file_to_sizes[x]
                               /\ \A d \in Blocks : file_to_master'[<<x, d>>] = file_to_master[<<x, d>>]
    BY ForgetEffect, Zenon
  <2>3. file_to_sizes'[m] = file_to_sizes[m] /\ file_to_master'[<<m, b>>] = file_to_master[<<m, b>>]
    BY <2>1, <2>2, Zenon
  <2>. QED
    BY <1>1, <2>3, Zenon DEF MappedWithinSize
<1>. QED
  BY <1>1, Zenon DEF MappedWithinSize

\* xmp_write maps a block within the size it sets.
LEMMA WriteWithin ==
  ASSUME TypeOK, MappedWithinSize, NEW h \in Handles, NEW c \in Contents, NEW offset \in Offsets, Write(h, c, offset)
  PROVE  MappedWithinSize'
<1>0. PICK n \in Paths, i \in Inodes, b \in Blocks, old \in Nat, r \in File : WriteTo(h, c, offset, n, i, b, old, r)
  BY WriteEffect, Zenon
<1>1. PICK new \in Nat : new = Larger(old, (b + 1) * BlockSize)
  BY <1>0, Zenon DEF WriteTo, Larger
<1>2. old <= new /\ (b + 1) * BlockSize <= new
  <2>1. (b + 1) * BlockSize \in Nat
    BY <1>0, Zenon DEF WriteTo
  <2>. QED
    BY <1>1, <2>1 DEF Larger
<1>3. \A m \in Paths, d \in Blocks : <<m, d>> # <<n, b>> => file_to_master'[<<m, d>>] = file_to_master[<<m, d>>]
  BY <1>0 DEF WriteTo, TypeOK, TablesOK
<1>4. file_to_sizes'[n] = new /\ \A m \in Paths \ {n} : file_to_sizes'[m] = file_to_sizes[m]
  BY <1>0, <1>1, Zenon DEF WriteTo, TypeOK, TablesOK
<1>5. ASSUME NEW m \in Paths, NEW d \in Blocks, file_to_master'[<<m, d>>] # NULL
      PROVE  file_to_sizes'[m] # NULL /\ (d + 1) * BlockSize <= file_to_sizes'[m]
  <2>1. CASE m # n
    <3>1. file_to_master'[<<m, d>>] = file_to_master[<<m, d>>]
      BY <1>3, <2>1
    <3>. QED
      BY <1>4, <1>5, <2>1, <3>1, Zenon DEF MappedWithinSize
  <2>2. CASE m = n /\ d = b
    BY <1>1, <1>2, <1>4, <2>2, NullAssumption
  <2>3. CASE m = n /\ d # b
    <3>1. file_to_master[<<n, d>>] # NULL
      BY <1>3, <1>5, <2>3
    <3>2. old = file_to_sizes[n] /\ (d + 1) * BlockSize <= old
      BY <1>0, <3>1, Zenon DEF WriteTo, MappedWithinSize
    <3>3. (d + 1) * BlockSize \in Nat
      BY BlockOrder DEF Blocks
    <3>. QED
      BY <1>1, <1>2, <1>4, <2>3, <3>2, <3>3, NullAssumption
  <2>. QED
    BY <2>1, <2>2, <2>3, Zenon
<1>. QED
  BY <1>5, Zenon DEF MappedWithinSize

\* xmp_truncate unmaps the blocks beyond the size it sets.
LEMMA TruncateWithin ==
  ASSUME TypeOK, MappedWithinSize, NEW n \in Paths, NEW size \in Offsets, Truncate(n, size)
  PROVE  MappedWithinSize'
<1>0. PICK i \in Inodes : TruncateTo(n, size, i)
  BY TruncateEffect, Zenon
<1>1. CASE ~(file_to_sizes[n] # NULL /\ size < file_to_sizes[n])
  BY <1>0, <1>1, Zenon DEF TruncateTo, MappedWithinSize
<1>2. CASE file_to_sizes[n] # NULL /\ size < file_to_sizes[n]
  <2>1. PICK s \in Nat : s = file_to_sizes[n]
    BY <1>2, Zenon DEF TypeOK, TablesOK
  <2>2. size \in Nat /\ size = NumBlocks(size) * BlockSize /\ NumBlocks(size) \in Nat /\ NumBlocks(s) \in Nat
    BY <1>0, BlocksOfSize DEF TruncateTo
  <2>3. /\ file_to_master' = Without(file_to_master, n, CutBlocks(size, s))
        /\ file_to_sizes' = [file_to_sizes EXCEPT ![n] = size]
    BY <1>0, <1>2, <2>1, Zenon DEF TruncateTo
  <2>4. \A m \in Paths, b \in Blocks : file_to_master'[<<m, b>>] =
          IF m = n /\ b \in CutBlocks(size, s) THEN NULL ELSE file_to_master[<<m, b>>]
    BY <2>3 DEF Without, TypeOK, TablesOK
  <2>5. file_to_sizes'[n] = size /\ \A m \in Paths \ {n} : file_to_sizes'[m] = file_to_sizes[m]
    BY <2>3, Zenon DEF TypeOK, TablesOK
  <2>6. ASSUME NEW m \in Paths, NEW b \in Blocks, file_to_master'[<<m, b>>] # NULL
        PROVE  file_to_sizes'[m] # NULL /\ (b + 1) * BlockSize <= file_to_sizes'[m]
    <3>1. file_to_master[<<m, b>>] # NULL /\ ~(m = n /\ b \in CutBlocks(size, s))
      BY <2>4, <2>6, Zenon
    <3>2. file_to_sizes[m] # NULL /\ (b + 1) * BlockSize <= file_to_sizes[m]
      BY <3>1, Zenon DEF MappedWithinSize
    <3>3. CASE m # n
      BY <2>5, <3>2, <3>3, Zenon
    <3>4. CASE m = n
      <4>1. b \in Nat
        BY DEF Blocks
      <4>2. b < NumBlocks(s)
        BY <2>1, <3>2, <3>4, <4>1, BlocksOfSize
      <4>3. b < NumBlocks(size)
        BY <2>2, <3>1, <3>4, <4>1, <4>2 DEF CutBlocks
      <4>4. (b + 1) * BlockSize <= NumBlocks(size) * BlockSize
        BY <2>2, <4>1, <4>3, BlockOrder
      <4>. QED
        BY <2>2, <2>5, <3>4, <4>4, NullAssumption
    <3>. QED
      BY <3>3, <3>4, Zenon
  <2>. QED
    BY <2>6, Zenon DEF MappedWithinSize
<1>. QED
  BY <1>1, <1>2, Zenon

\* Every request keeps the mapped blocks below the size.
LEMMA NextWithin ==
  ASSUME TypeOK, MappedWithinSize, [Next]_vars
  PROVE  MappedWithinSize'
<1>0. Names \subseteq Paths /\ Hidden \subseteq Paths
  BY Zenon DEF Paths
<1>1. CASE UNCHANGED index
  BY <1>1, Zenon DEF index, MappedWithinSize
<1>2. ASSUME NEW n \in Names, Unlink(n) PROVE MappedWithinSize'
  BY <1>0, <1>2, ForgetWithin, Zenon DEF Unlink
<1>3. ASSUME NEW h \in Handles, Release(h) PROVE MappedWithinSize'
  <2>1. handle[h].path \in Paths
    BY <1>3, Zenon DEF Release, TypeOK, NamesOK
  <2>. QED
    BY <1>1, <1>3, <2>1, ForgetWithin, Zenon DEF Release
<1>4. Request => MappedWithinSize'
  <2>1. ASSUME NEW n \in Names, Mkdir(n) \/ Symlink(n) \/ Rmdir(n) PROVE UNCHANGED index
    BY <2>1, Zenon DEF Mkdir, Symlink, Rmdir, Make
  <2>2. ASSUME NEW n \in Names, NEW kind \in {"file", "fifo"}, Mknod(n, kind) PROVE UNCHANGED index
    BY <2>2, Zenon DEF Mknod, Make
  <2>3. ASSUME NEW n \in Names, NEW h \in Handles, Create(n, h) PROVE UNCHANGED index
    BY <2>3, Zenon DEF Create, Make
  <2>4. ASSUME NEW n \in Names, NEW h \in Handles, NEW trunc \in BOOLEAN, Open(n, h, trunc) PROVE UNCHANGED index
    BY <2>4, Zenon DEF Open
  <2>5. ASSUME NEW from \in Names, NEW to \in Names, LinkTo(from, to) \/ Rename(from, to) PROVE UNCHANGED index
    BY <2>5, Zenon DEF LinkTo, Rename, MoveName
  <2>6. ASSUME NEW n \in Names, NEW hidden \in Hidden, UnlinkOpen(n, hidden) PROVE UNCHANGED index
    BY <2>6, Zenon DEF UnlinkOpen, MoveName
  <2>7. PassThrough => UNCHANGED index
    BY Zenon DEF PassThrough, vars
  <2>. QED
    BY <1>1, <1>2, <1>3, <2>1, <2>2, <2>3, <2>4, <2>5, <2>6, <2>7, WriteWithin, TruncateWithin, ZenonT(30) DEF Request
<1>. QED
  BY <1>1, <1>4, Zenon DEF Next, vars

-----------------------------------------------------------------------------
(* After plain requests the tables agree with what was written. *)

\* The tables of path n stay as they are.
SameTables(n) ==
  /\ file_to_sizes'[n] = file_to_sizes[n]
  /\ \A b \in Blocks : /\ file_to_master'[<<n, b>>] = file_to_master[<<n, b>>]
                       /\ holder'[<<n, b>>] = holder[<<n, b>>]

\* A path that a request is not about: its inode, its reference and its
\* tables stay as they are.
LEMMA PathKept ==
  ASSUME NEW n \in Paths, AtPath(n), SameTables(n), lower'[n] = lower[n],
         lower[n] # NULL => inode'[lower[n]] = inode[lower[n]] /\ posix'[lower[n]] = posix[lower[n]]
  PROVE  AtPath(n)' /\ (IsFile(n)' <=> IsFile(n))
<1>1. IsFile(n)' <=> IsFile(n)
  BY Zenon DEF IsFile
<1>2. CASE ~IsFile(n)
  BY <1>1, <1>2, Zenon DEF AtPath, Nothing, SameTables
<1>3. CASE IsFile(n)
  <2>1. PICK i : i = lower[n]
    BY Zenon
  <2>2. inode'[i] = inode[i] /\ posix'[i] = posix[i] /\ Agrees(n, i)
    BY <1>3, <2>1, Zenon DEF IsFile, AtPath
  <2>3. PICK q \in Nat :
          /\ posix[i].size = q * BlockSize
          /\ \A b \in Blocks : /\ file_to_master[<<n, b>>] = posix[i].data[b]
                               /\ posix[i].data[b] # NULL <=> b < q
                               /\ posix[i].data[b] # NULL => holder[<<n, b>>] = i
          /\ \/ file_to_sizes[n] = posix[i].size
             \/ file_to_sizes[n] = NULL /\ q = 0 /\ inode[i].size = 0
    BY <2>2, Zenon DEF Agrees
  <2>4. Agrees(n, i)'
    <3>1. /\ posix'[i].size = q * BlockSize
          /\ \/ file_to_sizes'[n] = posix'[i].size
             \/ file_to_sizes'[n] = NULL /\ q = 0 /\ inode'[i].size = 0
      BY <2>2, <2>3, Zenon DEF SameTables
    <3>2. \A b \in Blocks : /\ file_to_master'[<<n, b>>] = posix'[i].data[b]
                            /\ posix'[i].data[b] # NULL <=> b < q
                            /\ posix'[i].data[b] # NULL => holder'[<<n, b>>] = i
      BY <2>2, <2>3, Zenon DEF SameTables
    <3>. QED
      BY <3>1, <3>2, Zenon DEF Agrees
  <2>5. lower'[n] = i
    BY <2>1, Zenon
  <2>. QED
    BY <1>1, <1>3, <2>4, <2>5, Zenon DEF AtPath
<1>. QED
  BY <1>2, <1>3, Zenon

\* A path without metadata: nothing is mapped, and a file there is empty.
LEMMA NoMetadata ==
  ASSUME NEW n \in Paths, AtPath(n), file_to_sizes[n] = NULL, IsFile(n) => posix[lower[n]].size \in Nat
  PROVE  /\ \A b \in Blocks : file_to_master[<<n, b>>] = NULL
         /\ IsFile(n) => /\ posix[lower[n]].size = 0 /\ inode[lower[n]].size = 0
                         /\ \A b \in Blocks : posix[lower[n]].data[b] = NULL
<1>1. CASE ~IsFile(n)
  BY <1>1, Zenon DEF AtPath, Nothing
<1>2. CASE IsFile(n)
  <2>1. PICK q \in Nat :
          /\ posix[lower[n]].size = q * BlockSize
          /\ \A b \in Blocks : /\ file_to_master[<<n, b>>] = posix[lower[n]].data[b]
                               /\ posix[lower[n]].data[b] # NULL <=> b < q
          /\ \/ file_to_sizes[n] = posix[lower[n]].size
             \/ file_to_sizes[n] = NULL /\ q = 0 /\ inode[lower[n]].size = 0
    BY <1>2, Zenon DEF AtPath, Agrees
  <2>2. q = 0 /\ inode[lower[n]].size = 0
    BY <1>2, <2>1, NullAssumption, Zenon
  <2>3. posix[lower[n]].size = 0
    BY <2>1, <2>2, SizeAssumption
  <2>4. \A b \in Blocks : ~(b < q)
    BY <2>2 DEF Blocks
  <2>. QED
    BY <2>1, <2>2, <2>3, <2>4, Zenon
<1>. QED
  BY <1>1, <1>2, Zenon

\* An empty file at a path without metadata.
LEMMA EmptyAgrees ==
  ASSUME NEW n \in Paths, NEW i, lower'[n] = i, i # NULL, inode'[i].kind = "file", inode'[i].size = 0,
         posix'[i].size = 0, \A b \in Blocks : posix'[i].data[b] = NULL,
         file_to_sizes'[n] = NULL, \A b \in Blocks : file_to_master'[<<n, b>>] = NULL
  PROVE  AtPath(n)' /\ IsFile(n)'
<1>1. 0 = 0 * BlockSize /\ \A b \in Blocks : ~(b < 0)
  BY SizeAssumption DEF Blocks
<1>2. Agrees(n, i)'
  <2>1. /\ posix'[i].size = 0 * BlockSize
        /\ \A b \in Blocks : /\ file_to_master'[<<n, b>>] = posix'[i].data[b]
                             /\ posix'[i].data[b] # NULL <=> b < 0
                             /\ posix'[i].data[b] # NULL => holder'[<<n, b>>] = i
        /\ file_to_sizes'[n] = NULL /\ 0 = 0 /\ inode'[i].size = 0
    BY <1>1, Zenon
  <2>2. 0 \in Nat
    OBVIOUS
  <2>. QED
    BY <2>1, <2>2, Zenon DEF Agrees
<1>3. IsFile(n)'
  BY Zenon DEF IsFile
<1>. QED
  BY <1>2, <1>3, Zenon DEF AtPath

\* A handle stays where it is when its path keeps its inode, of that kind.
LEMMA HandleKept ==
  ASSUME NEW h \in Handles, AtFile(h), handle'[h] = handle[h],
         NEW p, handle[h] # NULL => p = handle[h].path, NEW i, i = lower[p],
         handle[h] # NULL => lower'[p] = i /\ inode'[i].kind = inode[i].kind
  PROVE  AtFile(h)'
<1>1. CASE handle[h] = NULL
  BY <1>1, Zenon DEF AtFile
<1>2. CASE handle[h] # NULL
  <2>1. i # NULL /\ inode[i].kind = "file" /\ i = handle[h].ino
    BY <1>2, Zenon DEF AtFile, IsFile
  <2>2. handle'[h].path = p /\ handle'[h].ino = i
    BY <1>2, <2>1, Zenon
  <2>3. lower'[handle'[h].path] = i /\ inode'[i].kind = "file"
    BY <1>2, <2>1, <2>2, Zenon
  <2>. QED
    BY <2>1, <2>2, <2>3, Zenon DEF AtFile, IsFile
<1>. QED
  BY <1>1, <1>2, Zenon

\* A handle just opened or moved.
LEMMA HandleNew ==
  ASSUME NEW h \in Handles, NEW n, NEW i, handle'[h] # NULL => handle'[h].path = n /\ handle'[h].ino = i,
         lower'[n] = i, IsFile(n)'
  PROVE  AtFile(h)'
<1>1. CASE handle'[h] = NULL
  BY <1>1, Zenon DEF AtFile
<1>2. CASE handle'[h] # NULL
  <2>1. i # NULL /\ inode'[i].kind = "file"
    BY Zenon DEF IsFile
  <2>2. handle'[h].path = n /\ handle'[h].ino = i
    BY <1>2, Zenon
  <2>3. lower'[handle'[h].path] = i
    BY <2>2, Zenon
  <2>. QED
    BY <2>1, <2>2, <2>3, Zenon DEF AtFile, IsFile
<1>. QED
  BY <1>1, <1>2, Zenon

\* A new inode has no metadata, as its name had none.
LEMMA MakePlain ==
  ASSUME TypeOK, Plain, NEW n \in Paths, NEW kind \in {"file", "dir", "symlink", "fifo"}, Make(n, kind)
  PROVE  /\ OneName' /\ TablesAgree'
         /\ \A h \in Handles : handle'[h] = handle[h] => AtFile(h)'
         /\ lower'[n] = Len(inode) + 1 /\ (kind = "file" => IsFile(n)')
<1>1. PICK i : i = Len(inode) + 1
  BY Zenon
<1>2. i \in Nat /\ i \notin Inodes /\ i # NULL
  BY <1>1, NullAssumption DEF TypeOK, NamesOK, Inodes
<1>3. /\ lower[n] = NULL /\ lower'[n] = i /\ \A m \in Paths \ {n} : lower'[m] = lower[m]
      /\ \A m \in Paths : lower[m] # NULL => lower[m] \in Inodes
      /\ \A m \in Paths : SameTables(m)
  BY <1>1, Zenon DEF Make, index, TypeOK, NamesOK, SameTables
<1>4. /\ \A j \in Inodes : inode'[j] = inode[j] /\ posix'[j] = posix[j]
      /\ inode'[i] = [kind |-> kind, size |-> 0] /\ posix'[i] = EmptyFile
  BY <1>1, MakeEffect, Zenon
<1>5. OneName'
  BY <1>2, <1>3, Zenon DEF OneName, Plain
<1>6. ASSUME NEW m \in Paths \ {n} PROVE AtPath(m)'
  BY <1>3, <1>4, PathKept, Zenon DEF Plain, TablesAgree
<1>7. Nothing(n)
  BY <1>3, Zenon DEF Plain, TablesAgree, AtPath, IsFile
<1>8. file_to_sizes'[n] = NULL /\ \A b \in Blocks : file_to_master'[<<n, b>>] = NULL
  BY <1>3, <1>7, Zenon DEF Nothing, SameTables
<1>9. inode'[i].kind = kind /\ inode'[i].size = 0 /\ posix'[i].size = 0 /\ \A b \in Blocks : posix'[i].data[b] = NULL
  BY <1>4 DEF EmptyFile
<1>10. kind = "file" => AtPath(n)' /\ IsFile(n)'
  BY <1>2, <1>3, <1>8, <1>9, EmptyAgrees, Zenon
<1>11. kind # "file" => AtPath(n)'
  <2>1. ASSUME kind # "file" PROVE ~IsFile(n)'
    BY <1>3, <1>9, <2>1, Zenon DEF IsFile
  <2>2. Nothing(n)'
    BY <1>8, Zenon DEF Nothing
  <2>. QED
    BY <2>1, <2>2, Zenon DEF AtPath
<1>12. ASSUME NEW h \in Handles, handle'[h] = handle[h] PROVE AtFile(h)'
  <2>1. PICK p : p = handle[h].path
    BY Zenon
  <2>2. PICK k : k = lower[p]
    BY Zenon
  <2>3. AtFile(h)
    BY Zenon DEF Plain, HandlesAtFiles
  <2>4. ASSUME handle[h] # NULL PROVE lower'[p] = k /\ inode'[k].kind = inode[k].kind
    <3>1. p \in Paths /\ lower[p] # NULL
      BY <2>1, <2>3, <2>4, Zenon DEF AtFile, IsFile, TypeOK, NamesOK
    <3>2. p # n /\ k \in Inodes
      BY <1>3, <2>2, <3>1, Zenon
    <3>. QED
      BY <1>3, <1>4, <2>2, <3>1, <3>2, Zenon
  <2>. QED
    BY <1>12, <2>1, <2>2, <2>3, <2>4, HandleKept, Zenon
<1>. QED
  BY <1>1, <1>3, <1>5, <1>6, <1>10, <1>11, <1>12, Zenon DEF TablesAgree

\* xmp_create keeps tables and files in agreement.
LEMMA CreatePlain ==
  ASSUME TypeOK, Plain, NEW n \in Paths, NEW h \in Handles, Create(n, h)
  PROVE  Plain'
<1>0. "file" \in {"file", "dir", "symlink", "fifo"}
  BY Zenon
<1>1. Make(n, "file") /\ handle' = [handle EXCEPT ![h] = [path |-> n, ino |-> Len(inode) + 1]]
  BY Zenon DEF Create
<1>2. /\ OneName' /\ TablesAgree'
      /\ \A g \in Handles : handle'[g] = handle[g] => AtFile(g)'
      /\ lower'[n] = Len(inode) + 1 /\ IsFile(n)'
  BY <1>0, <1>1, MakePlain, Zenon
<1>3. ASSUME NEW g \in Handles \ {h} PROVE AtFile(g)'
  BY <1>1, <1>2, Zenon DEF TypeOK, NamesOK
<1>4. handle'[h] = [path |-> n, ino |-> Len(inode) + 1]
  BY <1>1, Zenon DEF TypeOK, NamesOK
<1>5. handle'[h].path = n /\ handle'[h].ino = Len(inode) + 1
  BY <1>4
<1>6. AtFile(h)'
  BY <1>2, <1>5, HandleNew, Zenon
<1>. QED
  BY <1>2, <1>3, <1>6, Zenon DEF Plain, HandlesAtFiles

\* A name goes, with its metadata: rmdir, unlink and the last release of a
\* hidden file.
LEMMA NameDropped ==
  ASSUME TypeOK, Plain, NEW n \in Paths, lower' = [lower EXCEPT ![n] = NULL], UNCHANGED <<inode, posix>>,
         Nothing(n)', \A m \in Paths \ {n} : SameTables(m)
  PROVE  /\ OneName' /\ TablesAgree'
         /\ \A h \in Handles : handle'[h] = handle[h] /\ (handle[h] # NULL => handle[h].path # n) => AtFile(h)'
<1>1. lower'[n] = NULL /\ \A m \in Paths \ {n} : lower'[m] = lower[m]
  BY Zenon DEF TypeOK, NamesOK
<1>2. OneName'
  BY <1>1, Zenon DEF Plain, OneName
<1>3. ASSUME NEW m \in Paths \ {n} PROVE AtPath(m)'
  BY <1>1, PathKept, Zenon DEF Plain, TablesAgree
<1>4. AtPath(n)'
  BY <1>1, Zenon DEF AtPath, IsFile
<1>5. ASSUME NEW h \in Handles, handle'[h] = handle[h], handle[h] # NULL => handle[h].path # n PROVE AtFile(h)'
  <2>1. PICK p : p = handle[h].path
    BY Zenon
  <2>2. PICK k : k = lower[p]
    BY Zenon
  <2>3. AtFile(h)
    BY Zenon DEF Plain, HandlesAtFiles
  <2>4. ASSUME handle[h] # NULL PROVE lower'[p] = k /\ inode'[k].kind = inode[k].kind
    <3>1. p \in Paths \ {n}
      BY <1>5, <2>1, <2>4, Zenon DEF TypeOK, NamesOK
    <3>. QED
      BY <1>1, <2>2, <3>1, Zenon
  <2>. QED
    BY <1>5, <2>1, <2>2, <2>3, <2>4, HandleKept, Zenon
<1>. QED
  BY <1>2, <1>3, <1>4, <1>5, Zenon DEF TablesAgree

\* xmp_rmdir removes a name without metadata.
LEMMA RmdirPlain ==
  ASSUME TypeOK, Plain, NEW n \in Paths, Rmdir(n)
  PROVE  Plain'
<1>1. /\ lower[n] # NULL /\ inode[lower[n]].kind = "dir" /\ lower' = [lower EXCEPT ![n] = NULL]
      /\ UNCHANGED <<inode, posix, handle, file_to_master, file_to_sizes, holder>>
  BY Zenon DEF Rmdir, IsDir, index
<1>2. ~IsFile(n)
  BY <1>1 DEF IsFile
<1>3. Nothing(n)' /\ \A m \in Paths \ {n} : SameTables(m)
  BY <1>1, <1>2, Zenon DEF Plain, TablesAgree, AtPath, Nothing, SameTables
<1>4. \A h \in Handles : handle'[h] = handle[h] /\ (handle[h] # NULL => handle[h].path # n)
  BY <1>1, <1>2, Zenon DEF Plain, HandlesAtFiles, AtFile
<1>. QED
  BY <1>1, <1>3, <1>4, NameDropped, Zenon DEF Plain, HandlesAtFiles

\* xmp_unlink leaves no metadata of its path and touches no other.
LEMMA ForgetNothing ==
  ASSUME TypeOK, MappedWithinSize, NEW n \in Paths, ForgetFile(n)
  PROVE  Nothing(n)' /\ \A m \in Paths \ {n} : SameTables(m)
<1>1. \A m \in Paths \ {n} :
        /\ file_to_sizes'[m] = file_to_sizes[m]
        /\ \A b \in Blocks : file_to_master'[<<m, b>>] = file_to_master[<<m, b>>] /\ holder'[<<m, b>>] = holder[<<m, b>>]
  BY ForgetEffect, Zenon
<1>2. file_to_sizes'[n] = NULL /\ \A b \in Blocks : file_to_master'[<<n, b>>] = NULL
  BY ForgetEffect, Zenon
<1>. QED
  BY <1>1, <1>2, Zenon DEF Nothing, SameTables

\* xmp_unlink keeps tables and files in agreement.
LEMMA UnlinkPlain ==
  ASSUME TypeOK, MappedWithinSize, Plain, NEW n \in Paths, Unlink(n), odd' = 0
  PROVE  Plain'
<1>1. ForgetFile(n) /\ UNCHANGED <<inode, posix, handle>> /\ OpenAt(n) = {}
  BY Zenon DEF Unlink
<1>2. ~Odd(TRUE)
  BY OddStep DEF TypeOK, ReferenceOK
<1>3. lower' = [lower EXCEPT ![n] = NULL]
  BY <1>2, Zenon DEF Unlink
<1>4. \A h \in Handles : handle'[h] = handle[h] /\ (handle[h] # NULL => handle[h].path # n)
  BY <1>1, Zenon DEF OpenAt
<1>. QED
  BY <1>1, <1>3, <1>4, ForgetNothing, NameDropped, Zenon DEF Plain, HandlesAtFiles

\* xmp_release, with the unlink of a hidden name, keeps the agreement.
LEMMA ReleasePlain ==
  ASSUME TypeOK, MappedWithinSize, Plain, NEW h \in Handles, Release(h)
  PROVE  Plain'
<1>1. /\ handle[h] # NULL /\ UNCHANGED <<inode, posix>> /\ handle' = [handle EXCEPT ![h] = NULL]
      /\ handle'[h] = NULL /\ \A g \in Handles \ {h} : handle'[g] = handle[g]
  BY Zenon DEF Release, TypeOK, NamesOK
<1>2. PICK n \in Paths : n = handle[h].path
  BY <1>1, Zenon DEF TypeOK, NamesOK
<1>3. AtFile(h)'
  BY <1>1, Zenon DEF AtFile
<1>4. CASE n \in Hidden /\ OpenAt(n) = {h}
  <2>1. ForgetFile(n) /\ lower' = [lower EXCEPT ![n] = NULL]
    BY <1>2, <1>4, Zenon DEF Release
  <2>2. \A g \in Handles \ {h} : handle[g] # NULL => handle[g].path # n
    BY <1>4, Zenon DEF OpenAt
  <2>3. Nothing(n)' /\ \A m \in Paths \ {n} : SameTables(m)
    BY <2>1, ForgetNothing, Zenon
  <2>4. /\ OneName' /\ TablesAgree'
        /\ \A g \in Handles : handle'[g] = handle[g] /\ (handle[g] # NULL => handle[g].path # n) => AtFile(g)'
    BY <1>1, <2>1, <2>3, NameDropped, Zenon
  <2>. QED
    BY <1>1, <1>3, <2>2, <2>4, Zenon DEF Plain, HandlesAtFiles
<1>5. CASE ~(n \in Hidden /\ OpenAt(n) = {h})
  <2>1. UNCHANGED <<lower, file_to_master, file_to_sizes, holder>>
    BY <1>2, <1>5, Zenon DEF Release, index
  <2>2. OneName'
    BY <2>1, Zenon DEF Plain, OneName
  <2>3. ASSUME NEW m \in Paths PROVE AtPath(m)'
    <3>1. SameTables(m)
      BY <2>1, Zenon DEF SameTables
    <3>. QED
      BY <1>1, <2>1, <3>1, PathKept, Zenon DEF Plain, TablesAgree
  <2>4. ASSUME NEW g \in Handles \ {h} PROVE AtFile(g)'
    BY <1>1, <2>1, HandleKept, Zenon DEF Plain, HandlesAtFiles
  <2>. QED
    BY <1>3, <2>2, <2>3, <2>4, Zenon DEF Plain, TablesAgree, HandlesAtFiles
<1>. QED
  BY <1>4, <1>5, Zenon

\* A path without metadata has no mapping, and its file is empty.
LEMMA WithoutMetadata ==
  ASSUME TypeOK, Plain, NEW n \in Paths, ~HasMetadata(n)
  PROVE  /\ file_to_sizes[n] = NULL /\ \A b \in Blocks : file_to_master[<<n, b>>] = NULL
         /\ IsFile(n) => /\ posix[lower[n]].size = 0 /\ inode[lower[n]].size = 0
                         /\ \A b \in Blocks : posix[lower[n]].data[b] = NULL
<1>1. AtPath(n) /\ file_to_sizes[n] = NULL
  BY Zenon DEF Plain, TablesAgree, HasMetadata
<1>2. ASSUME IsFile(n) PROVE posix[lower[n]].size \in Nat
  <2>1. lower[n] \in Inodes
    BY <1>2, Zenon DEF IsFile, TypeOK, NamesOK
  <2>2. posix[lower[n]] \in File
    BY <2>1 DEF TypeOK, ReferenceOK, Inodes
  <2>. QED
    BY <2>2, Zenon DEF File
<1>. QED
  BY <1>1, <1>2, NoMetadata, Zenon

\* A name moves with all that is below it and with the handles open there, when
\* neither they nor what they replace have metadata: xmp_rename, and the unlink
\* of an open file.
LEMMA MovePlain ==
  ASSUME TypeOK, Plain, NEW from \in Paths, NEW to \in Paths, MoveName(from, to), OpenAt(to) = {}, odd' = 0
  PROVE  Plain'
<1>1. /\ UNCHANGED <<inode, posix, file_to_master, file_to_sizes, holder>>
      /\ \A m \in Paths :
           /\ Arrives(m, from, to) =>
                /\ Under(m, to) /\ Moved(m, to, from) \in Paths /\ Under(Moved(m, to, from), from)
                /\ Moved(Moved(m, to, from), from, to) = m /\ lower'[m] = lower[Moved(m, to, from)]
           /\ ~Arrives(m, from, to) => lower'[m] = IF Under(m, from) \/ Under(m, to) THEN NULL ELSE lower[m]
  BY MoveEffect, Zenon
<1>2. \A m \in Paths : Under(m, from) \/ Under(m, to) => ~HasMetadata(m)
  <2>1. PICK P \in BOOLEAN :
          P = (\E m \in Paths : (Under(m, from) \/ Under(m, to)) /\ HasMetadata(m)) /\ Odd(P)
    BY Zenon DEF MoveName
  <2>2. ~P
    BY <2>1, OddStep, Zenon DEF TypeOK, ReferenceOK
  <2>. QED
    BY <2>1, <2>2, Zenon
<1>3. ASSUME NEW m \in Paths, NEW k \in Paths, lower'[m] = lower'[k], lower'[m] # NULL PROVE m = k
  <2>1. CASE Arrives(m, from, to) /\ Arrives(k, from, to)
    BY <1>1, <1>3, <2>1, Zenon DEF Plain, OneName
  <2>2. CASE Arrives(m, from, to) /\ ~Arrives(k, from, to)
    BY <1>1, <1>3, <2>2, Zenon DEF Plain, OneName
  <2>3. CASE ~Arrives(m, from, to) /\ Arrives(k, from, to)
    BY <1>1, <1>3, <2>3, Zenon DEF Plain, OneName
  <2>4. CASE ~Arrives(m, from, to) /\ ~Arrives(k, from, to)
    BY <1>1, <1>3, <2>4, Zenon DEF Plain, OneName
  <2>. QED
    BY <2>1, <2>2, <2>3, <2>4, Zenon
<1>4. ASSUME NEW m \in Paths, Arrives(m, from, to)
      PROVE  AtPath(m)' /\ (IsFile(Moved(m, to, from)) => IsFile(m)')
  <2>1. PICK n \in Paths : n = Moved(m, to, from) /\ Under(n, from) /\ Under(m, to) /\ lower'[m] = lower[n]
    BY <1>1, <1>4, Zenon
  <2>2. ~HasMetadata(n) /\ ~HasMetadata(m)
    BY <1>2, <2>1, Zenon
  <2>3. file_to_sizes'[m] = NULL /\ \A b \in Blocks : file_to_master'[<<m, b>>] = NULL
    BY <1>1, <2>2, WithoutMetadata, Zenon
  <2>4. CASE IsFile(n)
    <3>1. PICK i : i = lower[n] /\ i # NULL /\ inode[i].kind = "file"
      BY <2>4, Zenon DEF IsFile
    <3>2. posix[i].size = 0 /\ inode[i].size = 0 /\ \A b \in Blocks : posix[i].data[b] = NULL
      BY <2>2, <2>4, <3>1, WithoutMetadata, Zenon
    <3>3. /\ lower'[m] = i /\ inode'[i].kind = "file" /\ inode'[i].size = 0
          /\ posix'[i].size = 0 /\ \A b \in Blocks : posix'[i].data[b] = NULL
      BY <1>1, <2>1, <3>1, <3>2, Zenon
    <3>. QED
      BY <2>3, <3>1, <3>3, EmptyAgrees, Zenon
  <2>5. CASE ~IsFile(n)
    <3>1. ~IsFile(m)'
      BY <1>1, <2>1, <2>5, Zenon DEF IsFile
    <3>2. Nothing(m)'
      BY <2>3, Zenon DEF Nothing
    <3>. QED
      BY <2>1, <2>5, <3>1, <3>2, Zenon DEF AtPath
  <2>. QED
    BY <2>4, <2>5, Zenon
<1>5. ASSUME NEW m \in Paths, ~Arrives(m, from, to) PROVE AtPath(m)'
  <2>1. CASE Under(m, from) \/ Under(m, to)
    <3>1. lower'[m] = NULL /\ ~HasMetadata(m)
      BY <1>1, <1>2, <1>5, <2>1, Zenon
    <3>2. file_to_sizes'[m] = NULL /\ \A b \in Blocks : file_to_master'[<<m, b>>] = NULL
      BY <1>1, <3>1, WithoutMetadata, Zenon
    <3>. QED
      BY <3>1, <3>2, Zenon DEF AtPath, IsFile, Nothing
  <2>2. CASE ~(Under(m, from) \/ Under(m, to))
    <3>1. lower'[m] = lower[m] /\ SameTables(m)
      BY <1>1, <1>5, <2>2, Zenon DEF SameTables
    <3>. QED
      BY <1>1, <3>1, PathKept, Zenon DEF Plain, TablesAgree
  <2>. QED
    BY <2>1, <2>2, Zenon
<1>6. ASSUME NEW h \in Handles, handle[h] # NULL PROVE AtFile(h)'
  <2>0. /\ handle[h] \in [path : Paths, ino : Inodes]
        /\ Under(handle[h].path, from) => /\ handle'[h] \in [path : Paths, ino : Inodes]
                                          /\ handle'[h].path = Moved(handle[h].path, from, to)
                                          /\ handle'[h].ino = handle[h].ino
        /\ ~Under(handle[h].path, from) => handle'[h] = handle[h]
    BY <1>6, MoveHandle, Zenon
  <2>1. PICK p \in Paths : p = handle[h].path
    BY <2>0, Zenon
  <2>2. AtFile(h) /\ IsFile(p) /\ lower[p] = handle[h].ino /\ lower[p] # NULL
    BY <1>6, <2>1, Zenon DEF Plain, HandlesAtFiles, AtFile, IsFile
  <2>3. CASE Under(p, from)
    <3>1. PICK m : m = Moved(p, from, to)
      BY Zenon
    <3>2. handle'[h] \in [path : Paths, ino : Inodes] /\ handle'[h].path = m /\ handle'[h].ino = handle[h].ino
      BY <2>0, <2>1, <2>3, <3>1, Zenon
    <3>3. m \in Paths
      BY <3>2
    <3>4. Under(m, to) /\ Moved(m, to, from) = p
      BY <2>3, <3>1, MovedBack, Zenon
    <3>5. Arrives(m, from, to)
      BY <3>4, Zenon DEF Arrives
    <3>6. IsFile(m)' /\ lower'[m] = handle[h].ino
      BY <1>1, <1>4, <2>2, <3>3, <3>4, <3>5, Zenon
    <3>. QED
      BY <3>2, <3>6, HandleNew, Zenon
  <2>4. CASE ~Under(p, from)
    <3>1. handle'[h] = handle[h]
      BY <2>0, <2>1, <2>4, Zenon
    <3>2. ~Under(p, to)
      BY <1>6, <2>1, <2>2, Zenon DEF OpenAt, MoveName, EmptyBelow, Under
    <3>3. lower'[p] = lower[p]
      BY <1>1, <2>4, <3>2, Zenon DEF Arrives
    <3>. QED
      BY <1>1, <2>1, <2>2, <3>1, <3>3, HandleKept, Zenon
  <2>. QED
    BY <2>3, <2>4, Zenon
<1>7. ASSUME NEW h \in Handles, handle[h] = NULL PROVE AtFile(h)'
  BY <1>7, Zenon DEF MoveName, AtFile
<1>. QED
  BY <1>3, <1>4, <1>5, <1>6, <1>7, Zenon DEF Plain, OneName, TablesAgree, HandlesAtFiles

\* xmp_rename of paths without metadata keeps the agreement.
LEMMA RenamePlain ==
  ASSUME TypeOK, Plain, NEW from \in Paths, NEW to \in Paths, Rename(from, to), odd' = 0
  PROVE  Plain'
BY MovePlain, Zenon DEF Rename

\* The rename of an open file without metadata keeps the agreement.
LEMMA UnlinkOpenPlain ==
  ASSUME TypeOK, Plain, NEW n \in Names, NEW hidden \in Hidden, UnlinkOpen(n, hidden), odd' = 0
  PROVE  Plain'
<1>1. n \in Paths /\ hidden \in Paths /\ MoveName(n, hidden) /\ ~IsFile(hidden)
  BY Zenon DEF Paths, UnlinkOpen, IsFile
<1>2. OpenAt(hidden) = {}
  BY <1>1, Zenon DEF OpenAt, Plain, HandlesAtFiles, AtFile
<1>. QED
  BY <1>1, <1>2, MovePlain, Zenon

\* xmp_open keeps the agreement unless it truncates a path with metadata.
LEMMA OpenPlain ==
  ASSUME TypeOK, Plain, NEW n \in Paths, NEW h \in Handles, NEW trunc \in BOOLEAN, Open(n, h, trunc), odd' = 0
  PROVE  Plain'
<1>1. /\ IsFile(n) /\ UNCHANGED <<lower, file_to_master, file_to_sizes, holder>>
      /\ handle' = [handle EXCEPT ![h] = [path |-> n, ino |-> lower[n]]]
  BY Zenon DEF Open, index
<1>2. PICK i \in Inodes : i = lower[n] /\ i # NULL /\ inode[i].kind = "file"
  BY <1>1, Zenon DEF IsFile, TypeOK, NamesOK
<1>3. trunc => file_to_sizes[n] = NULL
  BY OddStep DEF Open, Odd, HasMetadata, TypeOK, ReferenceOK
<1>4. /\ inode \in Seq(Inode) /\ posix \in Seq(File) /\ Len(posix) = Len(inode) /\ i \in 1 .. Len(posix)
      /\ \A m \in Paths : lower[m] # NULL => lower[m] \in Inodes
  BY Zenon DEF TypeOK, NamesOK, ReferenceOK, Inodes
<1>5. \A j \in Inodes \ {i} : inode'[j] = inode[j] /\ posix'[j] = posix[j]
  <2>1. CASE trunc
    <3>1. inode' = [inode EXCEPT ![i].size = 0] /\ posix' = [posix EXCEPT ![i] = EmptyFile]
      BY <1>2, <2>1, Zenon DEF Open
    <3>. QED
      BY <1>4, <3>1 DEF Inodes
  <2>2. CASE ~trunc
    BY <2>2, Zenon DEF Open
  <2>. QED
    BY <2>1, <2>2, Zenon
<1>6. \A m \in Paths : SameTables(m) /\ AtPath(m)
  BY <1>1, Zenon DEF SameTables, Plain, TablesAgree
<1>7. AtPath(n)' /\ IsFile(n)'
  <2>1. CASE trunc
    <3>1. PICK new : new = [inode EXCEPT ![i].size = 0]
      BY Zenon
    <3>2. inode' = new /\ posix' = [posix EXCEPT ![i] = EmptyFile]
      BY <1>2, <2>1, <3>1, Zenon DEF Open
    <3>3. new[i].kind = "file" /\ new[i].size = 0
      BY <1>2, <1>4, <3>1, Resized
    <3>4. posix'[i] = EmptyFile
      BY <1>4, <3>2
    <3>5. posix'[i].size = 0 /\ \A b \in Blocks : posix'[i].data[b] = NULL
      BY <3>4 DEF EmptyFile
    <3>6. posix[i] \in File
      BY <1>4
    <3>7. posix[lower[n]].size \in Nat
      BY <1>2, <3>6, Zenon DEF File
    <3>8. file_to_sizes[n] = NULL /\ \A b \in Blocks : file_to_master[<<n, b>>] = NULL
      BY <1>3, <1>6, <2>1, <3>7, NoMetadata, Zenon
    <3>. QED
      BY <1>1, <1>2, <3>2, <3>3, <3>5, <3>8, EmptyAgrees, Zenon
  <2>2. CASE ~trunc
    <3>1. inode' = inode /\ posix' = posix
      BY <2>2, Zenon DEF Open
    <3>. QED
      BY <1>1, <1>6, <3>1, PathKept, Zenon
  <2>. QED
    BY <2>1, <2>2, Zenon
<1>8. ASSUME NEW m \in Paths \ {n} PROVE AtPath(m)'
  <2>1. lower[m] # NULL => lower[m] \in Inodes \ {i}
    BY <1>2, <1>4, Zenon DEF Plain, OneName
  <2>. QED
    BY <1>1, <1>5, <1>6, <2>1, PathKept, Zenon
<1>9. OneName'
  BY <1>1, Zenon DEF Plain, OneName
<1>10. inode'[i].kind = inode[i].kind
  BY <1>1, <1>2, <1>7, Zenon DEF IsFile
<1>11. ASSUME NEW g \in Handles \ {h} PROVE AtFile(g)'
  <2>1. handle'[g] = handle[g] /\ AtFile(g)
    BY <1>1, Zenon DEF TypeOK, NamesOK, Plain, HandlesAtFiles
  <2>2. PICK p : p = handle[g].path
    BY Zenon
  <2>3. PICK k : k = lower[p]
    BY Zenon
  <2>4. ASSUME handle[g] # NULL PROVE lower'[p] = k /\ inode'[k].kind = inode[k].kind
    <3>1. p \in Paths /\ lower[p] # NULL
      BY <2>1, <2>2, <2>4, Zenon DEF AtFile, IsFile, TypeOK, NamesOK
    <3>2. k \in Inodes
      BY <1>4, <2>3, <3>1, Zenon
    <3>. QED
      BY <1>1, <1>5, <1>10, <2>3, <3>2, Zenon
  <2>. QED
    BY <2>1, <2>2, <2>3, <2>4, HandleKept, Zenon
<1>12. AtFile(h)'
  <2>1. handle'[h] = [path |-> n, ino |-> i]
    BY <1>1, <1>2, Zenon DEF TypeOK, NamesOK
  <2>2. handle'[h].path = n /\ handle'[h].ino = i
    BY <2>1
  <2>. QED
    BY <1>1, <1>2, <1>7, <2>2, HandleNew, Zenon
<1>. QED
  BY <1>7, <1>8, <1>9, <1>11, <1>12, Zenon DEF Plain, TablesAgree, HandlesAtFiles

\* Handles do not move and no inode changes its kind: xmp_write, xmp_truncate.
LEMMA SameHandles ==
  ASSUME TypeOK, HandlesAtFiles, UNCHANGED <<lower, handle>>, \A j \in Inodes : inode'[j].kind = inode[j].kind
  PROVE  HandlesAtFiles'
<1>1. ASSUME NEW h \in Handles PROVE AtFile(h)'
  <2>1. AtFile(h)
    BY Zenon DEF HandlesAtFiles
  <2>2. PICK p : p = handle[h].path
    BY Zenon
  <2>3. PICK k : k = lower[p]
    BY Zenon
  <2>4. handle[h] # NULL => lower'[p] = k /\ inode'[k].kind = inode[k].kind
    BY <2>1, <2>2, <2>3, Zenon DEF AtFile, IsFile, TypeOK, NamesOK
  <2>. QED
    BY <2>1, <2>2, <2>3, <2>4, HandleKept, Zenon
<1>. QED
  BY <1>1, Zenon DEF HandlesAtFiles

\* An aligned xmp_write does to the tables what POSIX does to the file.
LEMMA WritePlain ==
  ASSUME TypeOK, Plain, NEW h \in Handles, NEW c \in Contents, NEW offset \in Offsets, Write(h, c, offset), odd' = 0
  PROVE  Plain'
<1>0. PICK n \in Paths, i \in Inodes, b \in Blocks, old \in Nat, r \in File : WriteTo(h, c, offset, n, i, b, old, r)
  BY WriteEffect, Zenon
<1>1. /\ handle[h] # NULL /\ n = handle[h].path /\ i = handle[h].ino /\ b = offset \div BlockSize
      /\ offset <= posix[i].size /\ old = IF file_to_sizes[n] = NULL THEN 0 ELSE file_to_sizes[n]
      /\ offset % BlockSize = 0 /\ UNCHANGED <<lower, inode, handle>>
  BY <1>0, Zenon DEF WriteTo
<1>2. /\ file_to_master' = [file_to_master EXCEPT ![<<n, b>>] = c]
      /\ holder' = [holder EXCEPT ![<<n, b>>] = i]
      /\ file_to_sizes' = [file_to_sizes EXCEPT ![n] = Larger(old, (b + 1) * BlockSize)]
      /\ posix' = [posix EXCEPT ![i] = r] /\ r.size = Larger(posix[i].size, offset + BlockSize)
      /\ r.data = [posix[i].data EXCEPT ![b] = c]
  BY <1>0, <1>1, Zenon DEF WriteTo
<1>3. IsFile(n) /\ lower[n] = i
  BY <1>1, Zenon DEF Plain, HandlesAtFiles, AtFile
<1>4. PICK q \in Nat :
        /\ posix[i].size = q * BlockSize
        /\ \A d \in Blocks : /\ file_to_master[<<n, d>>] = posix[i].data[d]
                             /\ posix[i].data[d] # NULL <=> d < q
                             /\ posix[i].data[d] # NULL => holder[<<n, d>>] = i
        /\ \/ file_to_sizes[n] = posix[i].size
           \/ file_to_sizes[n] = NULL /\ q = 0 /\ inode[i].size = 0
  BY <1>3, Zenon DEF Plain, TablesAgree, AtPath, Agrees
<1>5. b \in Nat /\ offset \in Nat /\ BlockSize \in Nat /\ offset = b * BlockSize
  <2>1. b \in Nat /\ offset \in Nat
    BY DEF Blocks, Offsets
  <2>. QED
    BY <1>1, <2>1, Quotient, SizeAssumption
<1>6. b <= q /\ (b + 1) * BlockSize = offset + BlockSize /\ (b + 1) * BlockSize \in Nat /\ q * BlockSize \in Nat
  <2>1. b * BlockSize \in Nat /\ q * BlockSize \in Nat /\ (b + 1) * BlockSize = b * BlockSize + BlockSize
    BY <1>5, BlockOrder
  <2>2. ~(q < b)
    <3>1. b * BlockSize <= q * BlockSize
      BY <1>1, <1>4, <1>5, Zenon
    <3>2. q < b => q * BlockSize < b * BlockSize
      BY <1>5, BlockOrder
    <3>. QED
      BY <2>1, <3>1, <3>2
  <2>. QED
    BY <1>5, <2>1, <2>2
<1>7. old = q * BlockSize
  <2>1. CASE file_to_sizes[n] = posix[i].size
    BY <1>1, <1>4, <1>6, <2>1, NullAssumption, Zenon
  <2>2. CASE file_to_sizes[n] = NULL /\ q = 0
    BY <1>1, <1>5, <2>2
  <2>. QED
    BY <1>4, <2>1, <2>2, Zenon
<1>8. PICK k \in Nat : k = IF b < q THEN q ELSE b + 1
  BY <1>5
<1>9. Larger(q * BlockSize, (b + 1) * BlockSize) = k * BlockSize
  <2>1. CASE b < q
    <3>1. k = q /\ (b + 1) * BlockSize <= q * BlockSize
      BY <1>5, <1>8, <2>1, BlockOrder
    <3>. QED
      BY <1>6, <3>1 DEF Larger
  <2>2. CASE b = q
    <3>1. k = b + 1 /\ q * BlockSize < (b + 1) * BlockSize
      BY <1>5, <1>6, <1>8, <2>2, BlockOrder
    <3>. QED
      BY <1>6, <3>1 DEF Larger
  <2>3. b < q \/ b = q
    BY <1>5, <1>6
  <2>. QED
    BY <2>1, <2>2, <2>3, Zenon
<1>10. \A d \in Blocks : d < k <=> (d < q \/ d = b)
  BY <1>5, <1>6, <1>8 DEF Blocks
<1>11. posix'[i] = r /\ \A j \in Inodes \ {i} : posix'[j] = posix[j]
  BY <1>2 DEF TypeOK, ReferenceOK, Inodes
<1>12. posix'[i].size = k * BlockSize /\ file_to_sizes'[n] = k * BlockSize
  BY <1>2, <1>4, <1>6, <1>7, <1>9, <1>11, Zenon DEF TypeOK, TablesOK
<1>13. ASSUME NEW d \in Blocks
       PROVE  /\ file_to_master'[<<n, d>>] = posix'[i].data[d]
              /\ posix'[i].data[d] # NULL <=> d < k
              /\ posix'[i].data[d] # NULL => holder'[<<n, d>>] = i
  <2>0. posix[i] \in File
    BY DEF TypeOK, ReferenceOK, Inodes
  <2>1. posix[i].data \in [Blocks -> Contents \cup {NULL}]
    BY <2>0, Zenon DEF File
  <2>2. /\ file_to_master'[<<n, d>>] = IF d = b THEN c ELSE file_to_master[<<n, d>>]
        /\ holder'[<<n, d>>] = IF d = b THEN i ELSE holder[<<n, d>>]
    BY <1>2 DEF TypeOK, TablesOK
  <2>3. posix'[i].data[d] = IF d = b THEN c ELSE posix[i].data[d]
    BY <1>2, <1>11, <2>1, Zenon
  <2>4. c # NULL
    BY NullAssumption, Zenon
  <2>. QED
    BY <1>4, <1>10, <2>2, <2>3, <2>4, Zenon
<1>14. AtPath(n)'
  <2>1. IsFile(n)' /\ lower'[n] = i
    BY <1>1, <1>3, Zenon DEF IsFile
  <2>2. Agrees(n, i)'
    BY <1>12, <1>13, Zenon DEF Agrees
  <2>. QED
    BY <2>1, <2>2, Zenon DEF AtPath
<1>15. ASSUME NEW m \in Paths \ {n} PROVE AtPath(m)'
  <2>1. SameTables(m)
    BY <1>2 DEF SameTables, TypeOK, TablesOK
  <2>2. lower[m] # NULL => lower[m] \in Inodes \ {i}
    BY <1>3, Zenon DEF Plain, OneName, TypeOK, NamesOK
  <2>. QED
    BY <1>1, <1>11, <2>1, <2>2, PathKept, Zenon DEF Plain, TablesAgree
<1>16. OneName'
  BY <1>1, Zenon DEF Plain, OneName
<1>17. HandlesAtFiles'
  BY <1>1, SameHandles, Zenon DEF Plain
<1>. QED
  BY <1>14, <1>15, <1>16, <1>17, Zenon DEF Plain, TablesAgree

\* A shrinking xmp_truncate does to the tables what POSIX does to the file.
LEMMA TruncatePlain ==
  ASSUME TypeOK, Plain, NEW n \in Paths, NEW size \in Offsets, Truncate(n, size), odd' = 0
  PROVE  Plain'
<1>0. PICK i \in Inodes : TruncateTo(n, size, i)
  BY TruncateEffect, Zenon
<1>1. /\ i = lower[n] /\ lower[n] # NULL /\ inode[i].kind = "file" /\ size \in Nat /\ size % BlockSize = 0
      /\ ~(size > posix[i].size) /\ inode' = [inode EXCEPT ![i].size = size]
      /\ posix' = [posix EXCEPT ![i] = Cut(i, size)] /\ UNCHANGED <<lower, handle>>
      /\ \A j \in Inodes : inode'[j].kind = inode[j].kind
  BY <1>0, Zenon DEF TruncateTo
<1>2. IsFile(n)
  BY <1>1, Zenon DEF IsFile
<1>3. PICK q \in Nat :
        /\ posix[i].size = q * BlockSize
        /\ \A d \in Blocks : /\ file_to_master[<<n, d>>] = posix[i].data[d]
                             /\ posix[i].data[d] # NULL <=> d < q
                             /\ posix[i].data[d] # NULL => holder[<<n, d>>] = i
        /\ \/ file_to_sizes[n] = posix[i].size
           \/ file_to_sizes[n] = NULL /\ q = 0 /\ inode[i].size = 0
  BY <1>1, <1>2, Zenon DEF Plain, TablesAgree, AtPath, Agrees
<1>4. PICK k \in Nat : k = NumBlocks(size) /\ size = k * BlockSize
  BY <1>1, BlocksOfSize
<1>5. q * BlockSize \in Nat /\ k <= q
  <2>1. q * BlockSize \in Nat /\ k * BlockSize \in Nat
    BY BlockOrder
  <2>2. k * BlockSize <= q * BlockSize
    <3>1. ~(k * BlockSize > q * BlockSize)
      BY <1>1, <1>3, <1>4, Zenon
    <3>. QED
      BY <2>1, <3>1
  <2>3. q < k => q * BlockSize < k * BlockSize
    BY BlockOrder
  <2>. QED
    BY <2>1, <2>2, <2>3
<1>6. /\ inode'[i].size = size /\ \A j \in Inodes \ {i} : inode'[j] = inode[j]
  BY <1>1 DEF TypeOK, NamesOK, Inodes, Inode
<1>7. posix'[i] = Cut(i, size) /\ \A j \in Inodes \ {i} : posix'[j] = posix[j]
  BY <1>1 DEF TypeOK, ReferenceOK, Inodes
<1>8. posix'[i].size = k * BlockSize /\ \A d \in Blocks : posix'[i].data[d] = IF d < k THEN posix[i].data[d] ELSE NULL
  <2>1. \A d \in Blocks : d * BlockSize < size <=> d < k
    <3>1. \A d \in Blocks : d \in Nat
      BY DEF Blocks
    <3>. QED
      BY <1>4, <3>1, BlockOrder
  <2>2. Cut(i, size).size = size /\ \A d \in Blocks : Cut(i, size).data[d] = IF d * BlockSize < size THEN posix[i].data[d] ELSE NULL
    BY DEF Cut
  <2>. QED
    BY <1>4, <1>7, <2>1, <2>2, Zenon
<1>9. \A d \in Blocks : d < k <=> (d < q /\ ~(k <= d /\ d < q))
  BY <1>5 DEF Blocks
<1>10. \A d \in Blocks : posix'[i].data[d] # NULL <=> d < k
  BY <1>3, <1>8, <1>9, Zenon
<1>11. /\ \A d \in Blocks : /\ file_to_master'[<<n, d>>] = posix'[i].data[d]
                            /\ posix'[i].data[d] # NULL => holder'[<<n, d>>] = i
       /\ \/ file_to_sizes'[n] = k * BlockSize
          \/ file_to_sizes'[n] = NULL /\ k = 0 /\ inode'[i].size = 0
       /\ \A m \in Paths \ {n} : SameTables(m)
  <2>1. CASE file_to_sizes[n] # NULL /\ size < file_to_sizes[n]
    <3>1. file_to_sizes[n] = q * BlockSize
      BY <1>3, <2>1, Zenon
    <3>2. NumBlocks(q * BlockSize) = q
      BY <1>5, BlocksOfSize
    <3>3. \A d \in Blocks : d \in CutBlocks(size, q * BlockSize) <=> k <= d /\ d < q
      BY <1>4, <3>2 DEF CutBlocks, Blocks
    <3>4. /\ file_to_master' = Without(file_to_master, n, CutBlocks(size, q * BlockSize))
          /\ holder' = Without(holder, n, CutBlocks(size, q * BlockSize))
          /\ file_to_sizes' = [file_to_sizes EXCEPT ![n] = size]
      BY <1>0, <2>1, <3>1, Zenon DEF TruncateTo
    <3>5. \A m \in Paths, d \in Blocks : file_to_master'[<<m, d>>] =
            IF m = n /\ d \in CutBlocks(size, q * BlockSize) THEN NULL ELSE file_to_master[<<m, d>>]
      BY <3>4 DEF Without, TypeOK, TablesOK
    <3>6. \A m \in Paths, d \in Blocks : holder'[<<m, d>>] =
            IF m = n /\ d \in CutBlocks(size, q * BlockSize) THEN NULL ELSE holder[<<m, d>>]
      BY <3>4 DEF Without, TypeOK, TablesOK
    <3>7. file_to_sizes'[n] = size /\ \A m \in Paths \ {n} : file_to_sizes'[m] = file_to_sizes[m]
      BY <3>4, Zenon DEF TypeOK, TablesOK
    <3>8. ASSUME NEW d \in Blocks
          PROVE  file_to_master'[<<n, d>>] = posix'[i].data[d] /\ (posix'[i].data[d] # NULL => holder'[<<n, d>>] = i)
      <4>1. file_to_master'[<<n, d>>] = IF k <= d /\ d < q THEN NULL ELSE posix[i].data[d]
        BY <1>3, <3>3, <3>5, Zenon
      <4>2. holder'[<<n, d>>] = IF k <= d /\ d < q THEN NULL ELSE holder[<<n, d>>]
        BY <3>3, <3>6, Zenon
      <4>. QED
        BY <1>3, <1>8, <1>9, <4>1, <4>2, Zenon
    <3>9. \A m \in Paths \ {n} : SameTables(m)
      BY <3>5, <3>6, <3>7, Zenon DEF SameTables
    <3>. QED
      BY <1>4, <3>7, <3>8, <3>9, Zenon
  <2>2. CASE ~(file_to_sizes[n] # NULL /\ size < file_to_sizes[n])
    <3>1. UNCHANGED <<file_to_master, holder, file_to_sizes>>
      BY <1>0, <2>2, Zenon DEF TruncateTo
    <3>2. k = q
      <4>1. CASE q = 0
        BY <1>5, <4>1
      <4>2. CASE file_to_sizes[n] = q * BlockSize
        <5>1. ~(k * BlockSize < q * BlockSize)
          BY <1>4, <1>5, <2>2, <4>2, NullAssumption, Zenon
        <5>2. k < q => k * BlockSize < q * BlockSize
          BY BlockOrder
        <5>. QED
          BY <1>5, <5>1, <5>2
      <4>. QED
        BY <1>3, <4>1, <4>2, Zenon
    <3>3. ASSUME NEW d \in Blocks
          PROVE  file_to_master'[<<n, d>>] = posix'[i].data[d] /\ (posix'[i].data[d] # NULL => holder'[<<n, d>>] = i)
      BY <1>3, <1>8, <3>1, <3>2, Zenon
    <3>4. \/ file_to_sizes'[n] = k * BlockSize
          \/ file_to_sizes'[n] = NULL /\ k = 0 /\ inode'[i].size = 0
      <4>1. q = 0 => size = 0
        BY <1>4, <3>2, SizeAssumption
      <4>. QED
        BY <1>3, <1>6, <3>1, <3>2, <4>1, Zenon
    <3>. QED
      BY <3>1, <3>3, <3>4, Zenon DEF SameTables
  <2>. QED
    BY <2>1, <2>2, Zenon
<1>12. AtPath(n)'
  <2>1. IsFile(n)' /\ lower'[n] = i
    BY <1>1, Zenon DEF IsFile
  <2>2. Agrees(n, i)'
    BY <1>8, <1>10, <1>11, Zenon DEF Agrees
  <2>. QED
    BY <2>1, <2>2, Zenon DEF AtPath
<1>13. ASSUME NEW m \in Paths \ {n} PROVE AtPath(m)'
  <2>1. lower[m] # NULL => lower[m] \in Inodes \ {i}
    BY <1>1, Zenon DEF Plain, OneName, TypeOK, NamesOK
  <2>. QED
    BY <1>1, <1>6, <1>7, <1>11, <2>1, PathKept, Zenon DEF Plain, TablesAgree
<1>14. OneName' /\ HandlesAtFiles'
  BY <1>1, SameHandles, Zenon DEF Plain, OneName
<1>. QED
  BY <1>12, <1>13, <1>14, Zenon DEF Plain, TablesAgree

\* Requests never make up for one that was not plain.
LEMMA OddKept ==
  ASSUME odd \in Nat, Request \/ UNCHANGED vars, odd' = 0
  PROVE  odd = 0
<1>1. ASSUME NEW P, Odd(P) PROVE odd = 0
  BY <1>1 DEF Odd
<1>2. CASE UNCHANGED odd
  BY <1>2, Zenon
<1>3. ASSUME NEW h \in Handles, NEW c \in Contents, NEW offset \in Offsets, Write(h, c, offset) PROVE odd = 0
  BY <1>1, <1>3, Zenon DEF Write
<1>4. ASSUME NEW n \in Paths, NEW size \in Offsets, Truncate(n, size) PROVE odd = 0
  BY <1>1, <1>4, Zenon DEF Truncate
<1>5. ASSUME NEW from \in Names, NEW to \in Names, LinkTo(from, to) \/ Rename(from, to) PROVE odd = 0
  BY <1>1, <1>5, Zenon DEF LinkTo, Rename, MoveName
<1>6. ASSUME NEW n \in Names, NEW h \in Handles, NEW trunc \in BOOLEAN, Open(n, h, trunc) PROVE odd = 0
  BY <1>1, <1>6, Zenon DEF Open
<1>7. ASSUME NEW n \in Names, NEW hidden \in Hidden, UnlinkOpen(n, hidden) PROVE odd = 0
  BY <1>1, <1>7, Zenon DEF UnlinkOpen, MoveName
<1>8. ASSUME NEW n \in Names, Mkdir(n) \/ Symlink(n) \/ Rmdir(n) \/ Unlink(n) PROVE odd = 0
  BY <1>1, <1>2, <1>8, Zenon DEF Mkdir, Symlink, Rmdir, Unlink, Make
<1>9. ASSUME NEW n \in Names, NEW kind \in {"file", "fifo"}, Mknod(n, kind) PROVE odd = 0
  BY <1>2, <1>9, Zenon DEF Mknod, Make
<1>10. ASSUME NEW n \in Names, NEW h \in Handles, Create(n, h) PROVE odd = 0
  BY <1>2, <1>10, Zenon DEF Create, Make
<1>11. ASSUME NEW h \in Handles, Release(h) PROVE odd = 0
  BY <1>2, <1>11, Zenon DEF Release
<1>12. UNCHANGED vars => odd = 0
  BY <1>2, Zenon DEF vars
<1>. QED
  BY <1>3, <1>4, <1>5, <1>6, <1>7, <1>8, <1>9, <1>10, <1>11, <1>12, ZenonT(30) DEF Request, PassThrough

\* Plain requests keep the tables in agreement.
LEMMA NextPlain ==
  ASSUME TypeOK, MappedWithinSize, Plain, Request \/ UNCHANGED vars, odd' = 0
  PROVE  Plain'
<1>0. Names \subseteq Paths
  BY Zenon DEF Paths
<1>1. UNCHANGED vars => Plain'
  <2>1. ASSUME UNCHANGED <<lower, inode, handle, posix, file_to_master, file_to_sizes, holder>> PROVE Plain'
    <3>1. \A m \in Paths : SameTables(m)
      BY <2>1, Zenon DEF SameTables
    <3>2. ASSUME NEW m \in Paths PROVE AtPath(m)'
      BY <2>1, <3>1, PathKept, Zenon DEF Plain, TablesAgree
    <3>3. OneName' /\ HandlesAtFiles'
      BY <2>1, SameHandles, Zenon DEF Plain, OneName
    <3>. QED
      BY <3>2, <3>3, Zenon DEF Plain, TablesAgree
  <2>. QED
    BY <2>1, Zenon DEF vars, index
<1>2. ASSUME NEW n \in Names, NEW kind \in {"file", "dir", "symlink", "fifo"}, Make(n, kind), UNCHANGED handle
      PROVE  Plain'
  BY <1>0, <1>2, MakePlain, Zenon DEF Plain, HandlesAtFiles
<1>3. ASSUME NEW n \in Names, Mkdir(n) \/ Symlink(n) PROVE Plain'
  BY <1>2, <1>3, Zenon DEF Mkdir, Symlink
<1>4. ASSUME NEW n \in Names, NEW kind \in {"file", "fifo"}, Mknod(n, kind) PROVE Plain'
  BY <1>2, <1>4, Zenon DEF Mknod
<1>5. ASSUME NEW from \in Names, NEW to \in Names, LinkTo(from, to) PROVE FALSE
  BY <1>5 DEF LinkTo, Odd, TypeOK, ReferenceOK
<1>. QED
  BY <1>0, <1>1, <1>3, <1>4, <1>5, CreatePlain, RmdirPlain, UnlinkPlain, OpenPlain, RenamePlain, WritePlain,
     TruncatePlain, UnlinkOpenPlain, ReleasePlain, ZenonT(30) DEF Request, PassThrough

-----------------------------------------------------------------------------
(* Theorems. *)

\* NsInv holds at first, when there is no file.
LEMMA InitInv == Init => NsInv
<1>. SUFFICES ASSUME Init PROVE NsInv
  OBVIOUS
<1>1. TypeOK
  BY DEF Init, TypeOK, NamesOK, TablesOK, ReferenceOK, Inodes
<1>2. MappedWithinSize
  BY DEF Init, MappedWithinSize
<1>3. Plain
  BY DEF Init, Plain, OneName, HandlesAtFiles, AtFile, TablesAgree, AtPath, IsFile, Nothing
<1>. QED
  BY <1>1, <1>2, <1>3, Zenon DEF NsInv

\* NsInv is inductive: one lemma per handler above.
LEMMA NextInv == NsInv /\ [Next]_vars => NsInv'
<1>. SUFFICES ASSUME NsInv, [Next]_vars PROVE NsInv'
  OBVIOUS
<1>1. Request \/ UNCHANGED vars
  BY Zenon DEF Next
<1>2. TypeOK' /\ MappedWithinSize'
  BY NextTypes, NextWithin, Zenon DEF NsInv
<1>3. ASSUME odd' = 0 PROVE Plain'
  <2>1. odd = 0
    BY <1>1, <1>3, OddKept, Zenon DEF NsInv, TypeOK, ReferenceOK
  <2>. QED
    BY <1>1, <1>3, <2>1, NextPlain, Zenon DEF NsInv
<1>. QED
  BY <1>2, <1>3, Zenon DEF NsInv

\* The tables and the lower file system always fit together as NsInv says.
THEOREM NamespaceInvariance == Spec => []NsInv
BY InitInv, NextInv, PTL DEF Spec

\* After any sequence of requests, plain or not, xmp_read returns no byte past
\* the end of the file that xmp_getattr reports.
THEOREM ReadsEnd == Spec => []ReadsEndBeforeEOF
<1>1. NsInv => ReadsEndBeforeEOF
  <2>. SUFFICES ASSUME NsInv, NEW n \in Names, NEW b \in Readable(n)
                PROVE  (b + 1) * BlockSize <= ReportedSize(n)
    BY Zenon DEF ReadsEndBeforeEOF
  <2>1. b \in Blocks /\ n \in Paths /\ b \in 0 .. b
    BY DEF Readable, Paths, Blocks
  <2>2. file_to_master[<<n, b>>] # NULL
    BY <2>1, Zenon DEF Readable
  <2>. QED
    BY <2>1, <2>2, Zenon DEF NsInv, MappedWithinSize, ReportedSize
<1>. QED
  BY <1>1, NamespaceInvariance, PTL

\* After plain requests xmp_getattr reports the size that the writes and the
\* truncations of the file left it with.
THEOREM SizesTrue == Spec => []ReportedSizeTrue
<1>1. NsInv => ReportedSizeTrue
  <2>. SUFFICES ASSUME NsInv, odd = 0, NEW n \in Names, IsFile(n)
                PROVE  ReportedSize(n) = posix[lower[n]].size
    BY Zenon DEF ReportedSizeTrue
  <2>1. n \in Paths
    BY Zenon DEF Paths
  <2>2. lower[n] \in Inodes
    BY <2>1, Zenon DEF NsInv, TypeOK, NamesOK, IsFile
  <2>3. posix[lower[n]] \in File
    BY <2>2 DEF NsInv, TypeOK, ReferenceOK, Inodes
  <2>4. posix[lower[n]].size \in Nat
    BY <2>3, Zenon DEF File
  <2>5. AtPath(n)
    BY <2>1, Zenon DEF NsInv, Plain, TablesAgree
  <2>6. CASE file_to_sizes[n] = NULL
    BY <2>1, <2>4, <2>5, <2>6, NoMetadata, Zenon DEF ReportedSize
  <2>7. CASE file_to_sizes[n] # NULL
    BY <2>5, <2>7, Zenon DEF ReportedSize, AtPath, Agrees
  <2>. QED
    BY <2>6, <2>7, Zenon
<1>. QED
  BY <1>1, NamespaceInvariance, PTL

\* After plain requests reading a file gives the blocks that were written to
\* it and not cut off since, whatever other files had its name before.
THEOREM ContentsKept == Spec => []ContentPreserved
<1>1. NsInv => ContentPreserved
  <2>. SUFFICES ASSUME NsInv, odd = 0, NEW n \in Names, IsFile(n), NEW b \in Blocks
                PROVE  ReadBlock(n, b) = posix[lower[n]].data[b]
    BY Zenon DEF ContentPreserved
  <2>1. n \in Paths
    BY Zenon DEF Paths
  <2>2. PICK q \in Nat : \A d \in Blocks : /\ file_to_master[<<n, d>>] = posix[lower[n]].data[d]
                                           /\ posix[lower[n]].data[d] # NULL <=> d < q
    BY <2>1, Zenon DEF NsInv, Plain, TablesAgree, AtPath, Agrees
  <2>3. b < q => \A d \in 0 .. b : d \in Blocks /\ d < q
    BY SizeAssumption DEF Blocks
  <2>4. b \in 0 .. b
    BY DEF Blocks
  <2>5. b \in Readable(n) <=> b < q
    BY <2>2, <2>3, <2>4, Zenon DEF Readable
  <2>. QED
    BY <2>2, <2>5, Zenon DEF ReadBlock
<1>. QED
  BY <1>1, NamespaceInvariance, PTL

\* When a file is gone after plain requests, with its last name and its last
\* handle, no mapping keeps a block for it.
THEOREM DeletedFilesGone == Spec => []DeletedFilesCleaned
<1>1. NsInv => DeletedFilesCleaned
  <2>. SUFFICES ASSUME NsInv, odd = 0, NEW n \in Paths, NEW b \in Blocks, file_to_master[<<n, b>>] # NULL
                PROVE  Alive(holder[<<n, b>>])
    BY DEF DeletedFilesCleaned
  <2>1. IsFile(n)
    BY Zenon DEF NsInv, Plain, TablesAgree, AtPath, Nothing
  <2>2. holder[<<n, b>>] = lower[n]
    BY <2>1, Zenon DEF NsInv, Plain, TablesAgree, AtPath, Agrees
  <2>. QED
    BY <2>2, Zenon DEF Alive
<1>. QED
  BY <1>1, NamespaceInvariance, PTL

=============================================================================
