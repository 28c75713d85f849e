----------------------------- MODULE BufferedIO -----------------------------
(***************************************************************************)
(* The buffered context of src/persistence.c and the stream of elements    *)
(* that gslist_save writes and gslist_load reads through it: a count, then *)
(* for each element its size and its bytes.  save_values_array, ghash_save *)
(* and their loads move their elements in the same way.                    *)
(*                                                                         *)
(* The elements are slots or block indices, in the encodings of            *)
(* metaindex.c.  A cell is a character of a path, or a whole number, which *)
(* only takes part in the stream as a unit that is there or is cut off.    *)
(***************************************************************************)
EXTENDS Integers, Sequences, SequencesExt, FiniteSetsExt

CONSTANTS
  BufferSize,        \* BUFFER_SIZE, in cells
  Lists              \* the lists to save: records of a kind and its elements

BlockIndice == [path : Seq(Nat), offset : Nat]

ASSUME BufferAssumption == BufferSize \in Nat \ {0}
ASSUME ListsAssumption ==
  \A l \in Lists : \/ l.kind = "free_block" /\ l.elems \in Seq(Nat)
                   \/ l.kind = "block_indice" /\ l.elems \in Seq(BlockIndice)

VARIABLES
  list,          \* the list that is saved
  mode,          \* "write", "overrun", "closed", "read", "ended"
  file,          \* the cells of the file
  buffer,        \* the cells of ctx->buffer up to its fill level
  buffer_pos,    \* the read position; a write's is the fill level
  file_offset,   \* ctx->file_offset
  calls,         \* the buffered_write calls to come, each a sequence of cells
  src,           \* what the current buffered_write still has to copy
  taken,         \* history: all cells copied from the callers so far
  want, dst,     \* the current buffered_read: cells still to get, cells got
  n, field,      \* the load: elements still to read, which field is next
  loaded,        \* the elements read
  faulty         \* history: a pwrite was short or failed, or a pread failed

ctx == <<buffer, buffer_pos, file_offset>>
writer == <<calls, src, taken>>
reader == <<want, dst, n, field, loaded>>
vars == <<list, mode, file, ctx, writer, reader, faulty>>

\* A block index is the length of its path, the path and the offset.
encode_block_indice(b) ==
  << <<"path_len", Len(b.path)>> >> \o [j \in DOMAIN b.path |-> <<"char", b.path[j]>>]
    \o << <<"offset", b.offset>> >>
decode_block_indice(data) ==
  LET path_len == data[1][2]
  IN  [path |-> [j \in 1 .. path_len |-> data[j + 1][2]], offset |-> data[path_len + 2][2]]

encode_free_block(slot) == << <<"uint64_t", slot>> >>
decode_free_block(data) == data[1][2]

Encode(kind, e) == IF kind = "free_block" THEN encode_free_block(e) ELSE encode_block_indice(e)
Decode(kind, data) == IF kind = "free_block" THEN decode_free_block(data) ELSE decode_block_indice(data)

\* write_elem_buffered: the size and the payload are two buffered_writes.
ElemCalls(kind, e) == << << <<"size", Len(Encode(kind, e))>> >>, Encode(kind, e) >>

\* gslist_save: the count, then the elements in the order of the list.
SaveCalls(l) ==
  [k \in 1 .. 2 * Len(l.elems) + 1 |->
     IF k = 1 THEN << <<"n", Len(l.elems)>> >>
              ELSE ElemCalls(l.kind, l.elems[k \div 2])[(k % 2) + 1]]

\* buffered_io_init on a file opened with O_TRUNC.
Init ==
  /\ list \in Lists
  /\ mode = "write"
  /\ file = <<>>
  /\ buffer = <<>> /\ buffer_pos = 0 /\ file_offset = 0
  /\ calls = SaveCalls(list) /\ src = <<>> /\ taken = <<>>
  /\ want = 0 /\ dst = <<>> /\ n = 0 /\ field = "n" /\ loaded = <<>>
  /\ faulty = FALSE

-----------------------------------------------------------------------------
(* Saving. *)

\* pwrite puts its cells at the offset, over what is there.
PWrite(offset, data) ==
  SubSeq(file, 1, offset) \o data \o SubSeq(file, offset + Len(data) + 1, Len(file))

\* flush_write_buffer: the w cells that pwrite wrote, none when it fails, leave
\* the buffer, the rest moves to its beginning.  A failure is only reported.
AllGone(w) == <<>>
Remaining(w) == SubSeq(buffer, w + 1, Len(buffer))
Flush(w) ==
  /\ file' = PWrite(file_offset, SubSeq(buffer, 1, w))
  /\ file_offset' = file_offset + w
  /\ faulty' = (faulty \/ w < Len(buffer))

\* The next call of buffered_write.
BufferedWrite ==
  /\ mode = "write" /\ src = <<>> /\ calls # <<>>
  /\ src' = Head(calls) /\ calls' = Tail(calls)
  /\ UNCHANGED <<list, mode, file, ctx, taken, reader, faulty>>

AvailableOneMore == BufferSize + 1 - Len(buffer)
Available == BufferSize - Len(buffer)

\* to_copy cells follow what the buffer holds.  What a memcpy past its end
\* leads to is undefined: nothing is said of what comes after.
Copy(held, room) ==
  LET to_copy == Min({Len(src), room}) IN
  /\ mode' = IF Len(held) + to_copy > BufferSize THEN "overrun" ELSE "write"
  /\ buffer' = held \o SubSeq(src, 1, to_copy)
  /\ src' = SubSeq(src, to_copy + 1, Len(src))
  /\ taken' = taken \o SubSeq(src, 1, to_copy)

\* One turn of buffered_write's loop with room in the buffer.
CopyChunk ==
  /\ mode = "write" /\ src # <<>> /\ Available # 0
  /\ Copy(buffer, Available)
  /\ UNCHANGED <<list, file, file_offset, buffer_pos, calls, reader, faulty>>

\* One turn with a full buffer: after the flush the code takes all of the
\* buffer for available.
FlushAndCopy ==
  /\ mode = "write" /\ src # <<>> /\ Available = 0
  /\ \E w \in 0 .. Len(buffer) : Flush(w) /\ Copy(Remaining(w), BufferSize)
  /\ UNCHANGED <<list, buffer_pos, calls, reader>>

\* The end of gslist_save: one flush, then the buffer is freed.
FinalFlush ==
  /\ mode = "write" /\ src = <<>> /\ calls = <<>>
  /\ \E w \in 0 .. Len(buffer) : Flush(w)
  /\ mode' = "closed" /\ buffer' = <<>>
  /\ UNCHANGED <<list, buffer_pos, writer, reader>>

-----------------------------------------------------------------------------
(* Loading. *)

\* gslist_load opens the file and reads the count.
OpenRead ==
  /\ mode = "closed"
  /\ mode' = "read" /\ file_offset' = 0 /\ buffer' = <<>> /\ buffer_pos' = 0
  /\ field' = "n" /\ want' = 1
  /\ UNCHANGED <<list, file, writer, dst, n, loaded, faulty>>

Unread == Len(buffer) - buffer_pos

\* refill_read_buffer: a pread may return less than was asked for.
Refill ==
  /\ mode = "read" /\ want > 0 /\ Unread = 0
  /\ \E nread \in 1 .. Min({BufferSize, Len(file) - file_offset}) :
       /\ buffer' = SubSeq(file, file_offset + 1, file_offset + nread)
       /\ buffer_pos' = 0
       /\ file_offset' = file_offset + nread
  /\ UNCHANGED <<list, mode, file, writer, reader, faulty>>

\* The end of the file, or a pread that fails: buffered_read returns FALSE,
\* the element is dropped and the load ends with what it has.
ReadFailsWithAPart ==
  /\ mode = "read" /\ want > 0 /\ Unread = 0
  /\ \/ file_offset = Len(file) /\ UNCHANGED faulty
     \/ faulty' = TRUE
  /\ mode' = "ended" /\ dst' = <<>> /\ want' = 0 /\ loaded' = Append(loaded, dst)
  /\ UNCHANGED <<list, file, ctx, writer, n, field>>
ReadFails ==
  /\ mode = "read" /\ want > 0 /\ Unread = 0
  /\ \/ file_offset = Len(file) /\ UNCHANGED faulty
     \/ faulty' = TRUE
  /\ mode' = "ended" /\ dst' = <<>> /\ want' = 0
  /\ UNCHANGED <<list, file, ctx, writer, n, field, loaded>>

\* One turn of buffered_read's loop.
TakeChunk ==
  LET to_copy == Min({want, Unread}) IN
  /\ mode = "read" /\ want > 0 /\ Unread > 0
  /\ dst' = dst \o SubSeq(buffer, buffer_pos + 1, buffer_pos + to_copy)
  /\ buffer_pos' = buffer_pos + to_copy
  /\ want' = want - to_copy
  /\ UNCHANGED <<list, mode, file, buffer, file_offset, writer, n, field, loaded, faulty>>

\* The next element, or the end of the loop over n.
NextElemButLast(left) ==
  /\ n' = left /\ dst' = <<>> /\ field' = "size"
  /\ IF left > 1 THEN want' = 1 /\ UNCHANGED mode
                 ELSE want' = 0 /\ mode' = "ended"
NextElem(left) ==
  /\ n' = left /\ dst' = <<>> /\ field' = "size"
  /\ IF left > 0 THEN want' = 1 /\ UNCHANGED mode
                 ELSE want' = 0 /\ mode' = "ended"

\* A field is complete: the count, a size (read_elem_buffered goes on with
\* the payload), or a payload, which is decoded and appended.
FieldDone ==
  /\ mode = "read" /\ want = 0
  /\ \/ field = "n" /\ NextElem(dst[1][2]) /\ UNCHANGED loaded
     \/ /\ field = "size"
        /\ field' = "payload" /\ want' = dst[1][2] /\ dst' = <<>>
        /\ UNCHANGED <<mode, n, loaded>>
     \/ field = "payload" /\ loaded' = Append(loaded, Decode(list.kind, dst)) /\ NextElem(n - 1)
  /\ UNCHANGED <<list, file, ctx, writer, faulty>>

Ended == mode \in {"ended", "overrun"} /\ UNCHANGED vars

Next ==
  \/ BufferedWrite \/ CopyChunk \/ FlushAndCopy \/ FinalFlush
  \/ OpenRead \/ Refill \/ ReadFails \/ TakeChunk \/ FieldDone
  \/ Ended

Spec == Init /\ [][Next]_vars /\ WF_vars(Next)

-----------------------------------------------------------------------------
(* Properties. *)

\* Whatever flushes were short or failed, the file followed by the buffer is
\* what the callers handed over: flush_write_buffer writes no cell twice,
\* skips none and keeps their order.
FileThenBuffer == mode = "write" => file \o buffer = taken

\* Unless a pwrite was short or failed, the fill level of the buffer stays
\* within what buffered_io_init allocated, although buffered_write takes all
\* of the buffer for available after a flush.
FillWithinBuffer == ~faulty => Len(buffer) <= BufferSize

\* Whatever was cut off, gslist_load returns the elements that gslist_save was
\* given, in their order, up to the first one that it cannot read completely.
LoadsAPrefix == IsPrefix(loaded, list.elems)

\* Unless a call failed nothing stays behind in the buffer of the save and
\* nothing is cut off: the load ends with every element of the saved list.
RoundTrip == <>(faulty \/ (mode = "ended" /\ loaded = list.elems))

=============================================================================
