----------------------------- MODULE Namespace -----------------------------
(***************************************************************************)
(* The handlers of src/passthrough.c that create, name, open, change and   *)
(* delete files, over the lower file system and the path-keyed tables of   *)
(* the index.  The kernel holds the locks of the inode and its directory   *)
(* for each of them, so a handler is one step; what runs inside            *)
(* write_dedup and remove_blocks_dedup_batch is Dedup.  Here a mapping     *)
(* stands for the content it leads to.                                     *)
(*                                                                         *)
(* A path is the sequence of names that leads to it from the root.         *)
(* Sizes and offsets are in bytes, of blocks of BlockSize bytes.  What     *)
(* POSIX says of each file is kept beside it as a reference.               *)
(***************************************************************************)
EXTENDS Integers, Sequences, FiniteSetsExt

CONSTANTS
  Components,   \* the names that paths are made of
  Names,        \* the paths that applications use
  Hidden,       \* the .fuse_hidden paths that libfuse makes up
  Handles,      \* open file handles
  Contents,     \* what a block can hold
  NULL,
  BlockSize,    \* BLOCK_SIZE
  MaxBlocks,    \* bound: blocks of a file
  MaxInodes,    \* bound: files, directories and links ever made
  MaxOdd        \* bound: requests that are not plain

ASSUME SizeAssumption == BlockSize \in Nat \ {0} /\ MaxBlocks \in Nat /\ MaxInodes \in Nat /\ MaxOdd \in Nat
ASSUME NamesAssumption ==
  /\ Names \cap Hidden = {}
  /\ Names \cup Hidden \subseteq Seq(Components) \ {<<>>}
ASSUME NullAssumption == NULL \notin Nat \cup Contents

VARIABLES
  lower,            \* lower file system: path -> inode or NULL
  inode,            \* lower file system: the kind and size of each inode made
  handle,           \* handle -> the path and inode it stands for, or NULL
  file_to_master,   \* Index: <<path, block>> -> content or NULL
  file_to_sizes,    \* Index: path -> logical size or NULL
  posix,            \* reference: the blocks and the size of each inode
  holder,           \* history: the inode that each mapped block was written to
  odd               \* history: how many requests were not plain

index == <<file_to_master, file_to_sizes, holder>>
vars == <<lower, inode, handle, index, posix, odd>>

Paths == Names \cup Hidden
Blocks == 0 .. MaxBlocks - 1
Offsets == 0 .. MaxBlocks * BlockSize
NumBlocks(size) == (size + BlockSize - 1) \div BlockSize

Parent(n) == SubSeq(n, 1, Len(n) - 1)
Below(n, d) == Len(d) < Len(n) /\ SubSeq(n, 1, Len(d)) = d
Under(n, d) == n = d \/ Below(n, d)

IsFile(n) == lower[n] # NULL /\ inode[lower[n]].kind = "file"
IsDir(n) == lower[n] # NULL /\ inode[lower[n]].kind = "dir"
InDir(n) == Len(n) > 1 => IsDir(Parent(n))
EmptyBelow(n) == \A m \in Paths : Below(m, n) => lower[m] = NULL
OpenAt(n) == {h \in Handles : handle[h] # NULL /\ handle[h].path = n}
HasMetadata(n) == file_to_sizes[n] # NULL

\* A request that is not plain: a link, a rename that moves a path with metadata
\* or moves onto one, a truncating open of one, a growing truncate, an unaligned
\* write, a failing lower call.
Odd(is_odd) == odd' = IF is_odd THEN odd + 1 ELSE odd

EmptyFile == [data |-> [b \in Blocks |-> NULL], size |-> 0]

Init ==
  /\ lower = [n \in Paths |-> NULL]
  /\ inode = <<>>
  /\ handle = [h \in Handles |-> NULL]
  /\ file_to_master = [nb \in Paths \X Blocks |-> NULL]
  /\ file_to_sizes = [n \in Paths |-> NULL]
  /\ posix = <<>>
  /\ holder = [nb \in Paths \X Blocks |-> NULL]
  /\ odd = 0

-----------------------------------------------------------------------------
(* Making names. *)

Make(n, kind) ==
  /\ lower[n] = NULL /\ InDir(n) /\ Len(inode) < MaxInodes
  /\ inode' = Append(inode, [kind |-> kind, size |-> 0])
  /\ lower' = [lower EXCEPT ![n] = Len(inode) + 1]
  /\ posix' = Append(posix, EmptyFile)
  /\ UNCHANGED <<index, odd>>

\* xmp_create: the new file comes with an open handle.
Create(n, h) ==
  /\ Make(n, "file")
  /\ handle[h] = NULL
  /\ handle' = [handle EXCEPT ![h] = [path |-> n, ino |-> Len(inode) + 1]]

\* xmp_mknod: what mknod_wrapper makes of the mode.
Mknod(n, kind) == Make(n, kind) /\ UNCHANGED handle
Mkdir(n) == Make(n, "dir") /\ UNCHANGED handle
Symlink(n) == Make(n, "symlink") /\ UNCHANGED handle

\* rmdir fails unless it finds an empty directory.
Rmdir(n) ==
  /\ IsDir(n) /\ EmptyBelow(n)
  /\ lower' = [lower EXCEPT ![n] = NULL]
  /\ UNCHANGED <<inode, handle, index, posix, odd>>

\* xmp_link: only the lower file system learns of the second name.
LinkTo(from, to) ==
  /\ Odd(TRUE)
  /\ lower[from] # NULL /\ ~IsDir(from) /\ lower[to] = NULL /\ InDir(to)
  /\ lower' = [lower EXCEPT ![to] = lower[from]]
  /\ UNCHANGED <<inode, handle, index, posix>>

\* Where a path at or below from leads after from was renamed to to.
Moved(n, from, to) == to \o SubSeq(n, Len(from) + 1, Len(n))

\* All that is below a name moves with it.  libfuse moves the paths of open
\* handles along; the index stays as it is.
Arrives(m, from, to) == Under(m, to) /\ Moved(m, to, from) \in Paths

MoveName(from, to) ==
  /\ EmptyBelow(to)
  /\ \A m \in Paths : Under(m, from) /\ (lower[m] # NULL \/ OpenAt(m) # {}) => Moved(m, from, to) \in Paths
  /\ Odd(\E m \in Paths : (Under(m, from) \/ Under(m, to)) /\ HasMetadata(m))
  /\ lower' = [m \in Paths |-> IF Arrives(m, from, to) THEN lower[Moved(m, to, from)]
                               ELSE IF Under(m, from) \/ Under(m, to) THEN NULL ELSE lower[m]]
  /\ handle' = [h \in Handles |-> IF handle[h] # NULL /\ Under(handle[h].path, from)
                                  THEN [handle[h] EXCEPT !.path = Moved(@, from, to)] ELSE handle[h]]
  /\ UNCHANGED <<inode, index, posix>>

\* xmp_rename without flags; with any it returns EINVAL.  No directory moves
\* below itself or onto one that is not empty; the kernel does not pass on a
\* rename between two links of one file; libfuse first hides an open target,
\* which is UnlinkOpen.
Rename(from, to) ==
  /\ from # to /\ lower[from] # NULL /\ lower[to] # lower[from] /\ OpenAt(to) = {}
  /\ InDir(to) /\ ~Below(to, from)
  /\ lower[to] # NULL => (IsDir(from) <=> IsDir(to))
  /\ MoveName(from, to)

-----------------------------------------------------------------------------
(* Open handles. *)

\* xmp_open.  FUSE_CAP_ATOMIC_O_TRUNC is on by default, so O_TRUNC comes with
\* the flags and open truncates the lower file, which holds no data.
Open(n, h, trunc) ==
  /\ IsFile(n) /\ handle[h] = NULL
  /\ Odd(trunc /\ HasMetadata(n))
  /\ handle' = [handle EXCEPT ![h] = [path |-> n, ino |-> lower[n]]]
  /\ IF trunc
     THEN /\ inode' = [inode EXCEPT ![lower[n]].size = 0]
          /\ posix' = [posix EXCEPT ![lower[n]] = EmptyFile]
     ELSE UNCHANGED <<inode, posix>>
  /\ UNCHANGED <<lower, index>>

\* xmp_write through a handle: write_dedup gets the path and the size must be
\* whole blocks; the offset is rounded down.  A hole is never asked for.
StartBlock(offset) == offset \div BlockSize
StartOfLast(b) == b * BlockSize
NewEnd(b) == (b + 1) * BlockSize

Write(h, c, offset) ==
  LET n == handle[h].path
      i == handle[h].ino
      b == StartBlock(offset)
      aligned == offset % BlockSize = 0
      old == IF file_to_sizes[n] = NULL THEN 0 ELSE file_to_sizes[n]
  IN
  /\ handle[h] # NULL
  /\ b \in Blocks /\ offset <= posix[i].size
  /\ Odd(~aligned)
  /\ file_to_master' = [file_to_master EXCEPT ![<<n, b>>] = c]
  /\ holder' = [holder EXCEPT ![<<n, b>>] = i]
  /\ file_to_sizes' = [file_to_sizes EXCEPT ![n] = Max({old, NewEnd(b)})]
  /\ posix' = [posix EXCEPT ![i] =
                 [data |-> IF aligned THEN [@.data EXCEPT ![b] = c] ELSE @.data,
                  size |-> Max({@.size, offset + BlockSize})]]
  /\ UNCHANGED <<lower, inode, handle>>

-----------------------------------------------------------------------------
(* Truncating and deleting. *)

Without(f, n, S) == [nb \in DOMAIN f |-> IF nb[1] = n /\ nb[2] \in S THEN NULL ELSE f[nb]]
Forget(n, S) ==
  /\ file_to_master' = Without(file_to_master, n, S)
  /\ holder' = Without(holder, n, S)

\* The blocks that xmp_truncate gives to remove_blocks_dedup_batch.
CutBlocksButFirst(size, old) == NumBlocks(size) + 1 .. NumBlocks(old) - 1
CutBlocks(size, old) == NumBlocks(size) .. NumBlocks(old) - 1

AcceptsAnySize(size) == TRUE
Accepts(size) == size >= 0 /\ size % BlockSize = 0

\* xmp_truncate: the index first, only if the size shrinks; then the lower
\* file, which may refuse.
Truncate(n, size) ==
  LET old == file_to_sizes[n] IN
  /\ IsFile(n) /\ Accepts(size)
  /\ IF old # NULL /\ size < old
     THEN /\ Forget(n, CutBlocks(size, old))
          /\ file_to_sizes' = [file_to_sizes EXCEPT ![n] = size]
     ELSE UNCHANGED index
  /\ \/ /\ inode' = [inode EXCEPT ![lower[n]].size = size]
        /\ posix' = [posix EXCEPT ![lower[n]] =
             [data |-> [b \in Blocks |-> IF b * BlockSize < size THEN @.data[b] ELSE NULL],
              size |-> size]]
        /\ Odd(size > posix[lower[n]].size)
     \/ Odd(TRUE) /\ UNCHANGED <<inode, posix>>
  /\ UNCHANGED <<lower, handle>>

\* The part of xmp_unlink before unlink: all blocks, then the size.
AllBlocksButLast(size) == 0 .. NumBlocks(size) - 2
AllBlocks(size) == 0 .. NumBlocks(size) - 1

ForgetFile(n) ==
  IF file_to_sizes[n] = NULL THEN UNCHANGED index
  ELSE /\ Forget(n, AllBlocks(file_to_sizes[n]))
       /\ file_to_sizes' = [file_to_sizes EXCEPT ![n] = NULL]

Unlink(n) ==
  /\ lower[n] # NULL /\ ~IsDir(n) /\ OpenAt(n) = {}
  /\ ForgetFile(n)
  /\ \/ lower' = [lower EXCEPT ![n] = NULL] /\ UNCHANGED odd
     \/ Odd(TRUE) /\ UNCHANGED lower
  /\ UNCHANGED <<inode, handle, posix>>

\* An unlink of an open file reaches the handlers as a rename to a name that
\* libfuse makes up in the same directory: hard_remove is not set.
UnlinkOpen(n, hidden) ==
  /\ IsFile(n) /\ OpenAt(n) # {} /\ lower[hidden] = NULL /\ Parent(hidden) = Parent(n)
  /\ MoveName(n, hidden)

\* xmp_release; after the last one of a hidden file libfuse unlinks it.
Release(h) ==
  LET n == handle[h].path IN
  /\ handle[h] # NULL
  /\ handle' = [handle EXCEPT ![h] = NULL]
  /\ IF n \in Hidden /\ OpenAt(n) = {h}
     THEN ForgetFile(n) /\ lower' = [lower EXCEPT ![n] = NULL]
     ELSE UNCHANGED <<index, lower>>
  /\ UNCHANGED <<inode, posix, odd>>

\* The handlers that change neither names nor data nor sizes: xmp_getattr,
\* xmp_access, xmp_readlink, xmp_readdir, xmp_chmod, xmp_chown, xmp_read,
\* xmp_statfs and xmp_fsync.
PassThrough == UNCHANGED vars

Request ==
  \/ PassThrough
  \/ \E n \in Names : Mkdir(n) \/ Symlink(n) \/ Rmdir(n) \/ Unlink(n)
  \/ \E n \in Names, kind \in {"file", "fifo"} : Mknod(n, kind)
  \/ \E n \in Names, h \in Handles : Create(n, h)
  \/ \E n \in Names, h \in Handles, trunc \in BOOLEAN : Open(n, h, trunc)
  \/ \E from, to \in Names : LinkTo(from, to) \/ Rename(from, to)
  \/ \E h \in Handles, c \in Contents, offset \in Offsets : Write(h, c, offset)
  \/ \E n \in Paths, size \in Offsets : Truncate(n, size)
  \/ \E n \in Names, hidden \in Hidden : UnlinkOpen(n, hidden)
  \/ \E h \in Handles : Release(h)

Next == Request /\ odd' <= MaxOdd

Spec == Init /\ [][Next]_vars

-----------------------------------------------------------------------------
(* What applications see. *)

\* xmp_getattr: the lower size, unless the index has one.
ReportedSize(n) == IF file_to_sizes[n] # NULL THEN file_to_sizes[n] ELSE inode[lower[n]].size

\* xmp_read through read_dedup: the blocks up to the first that has no entry.
Readable(n) == {b \in Blocks : \A d \in 0 .. b : file_to_master[<<n, d>>] # NULL}
ReadBlock(n, b) == IF b \in Readable(n) THEN file_to_master[<<n, b>>] ELSE NULL

Alive(i) == \/ \E n \in Paths : lower[n] = i
            \/ \E h \in Handles : handle[h] # NULL /\ handle[h].ino = i

-----------------------------------------------------------------------------
(* Properties. *)

\* After plain requests, reading a file gives the blocks that were written to
\* it and not cut off since, whatever other files had its name before and
\* whichever files without metadata were renamed, alone or with a directory
\* above them.  A file that has metadata loses it when it is renamed, or when
\* a directory above it is: xmp_rename, which is not plain then, moves no key.
ContentPreserved ==
  odd = 0 => \A n \in Names : IsFile(n) =>
    \A b \in Blocks : ReadBlock(n, b) = posix[lower[n]].data[b]

\* After plain requests, xmp_getattr reports the size that the writes and
\* truncations of the file left it with.  A rename of a path with metadata at
\* or below it is not plain.
ReportedSizeTrue ==
  odd = 0 => \A n \in Names : IsFile(n) => ReportedSize(n) = posix[lower[n]].size

\* When a file is gone after plain requests, with its last name and its last
\* handle, so is all its metadata: no mapping keeps a block for it.  A rename
\* of a path with metadata at or below it, an unlink of an open file that has
\* some among them, is not plain.
DeletedFilesCleaned ==
  odd = 0 => \A nb \in Paths \X Blocks : file_to_master[nb] # NULL => Alive(holder[nb])

\* After any sequence of requests a read returns no byte past the end of the
\* file that xmp_getattr reports (the note before xmp_truncate).
ReadsEndBeforeEOF ==
  \A n \in Names : IsFile(n) =>
    \A b \in Readable(n) : (b + 1) * BlockSize <= ReportedSize(n)

=============================================================================
