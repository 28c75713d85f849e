-------------------------- MODULE BufferedIOProofs --------------------------
(***************************************************************************)
(* The write side of the buffered context, for every size of the buffer    *)
(* and every list: whatever flushes fail or are short, no cell is lost,    *)
(* doubled or moved, and as long as none was the buffer is not overrun.    *)
(***************************************************************************)
EXTENDS BufferedIO, SequenceTheorems, TLAPS

Tag == {"n", "size", "path_len", "char", "offset", "uint64_t"}
Cell == Tag \X Nat

\* The inductive invariant: pwrites go to the end of the file.
BufInv ==
  /\ file \in Seq(Cell) /\ buffer \in Seq(Cell) /\ taken \in Seq(Cell)
  /\ src \in Seq(Cell) /\ calls \in Seq(Seq(Cell))
  /\ file_offset \in Nat /\ faulty \in BOOLEAN
  /\ mode \in {"write", "overrun", "closed", "read", "ended"}
  /\ mode = "write" => /\ file_offset = Len(file)
                       /\ Len(buffer) <= BufferSize
                       /\ file \o buffer = taken
  /\ mode # "overrun" \/ faulty
  /\ ~faulty => Len(buffer) <= BufferSize

-----------------------------------------------------------------------------
(* Operators. *)

\* The smaller of two numbers, as buffered_write computes to_copy.
LEMMA MinOfTwo ==
  ASSUME NEW a \in Int, NEW b \in Int
  PROVE  Min({a, b}) \in {a, b} /\ Min({a, b}) <= a /\ Min({a, b}) <= b
<1>1. \E x \in {a, b} : \A y \in {a, b} : x <= y
  OBVIOUS
<1> QED BY <1>1 DEF Min

\* A prefix and the rest of a sequence, of any length up to its own.
LEMMA Cut ==
  ASSUME NEW s \in Seq(Cell), NEW k \in 0 .. Len(s)
  PROVE  /\ SubSeq(s, 1, k) \in Seq(Cell) /\ Len(SubSeq(s, 1, k)) = k
         /\ SubSeq(s, k + 1, Len(s)) \in Seq(Cell) /\ Len(SubSeq(s, k + 1, Len(s))) = Len(s) - k
         /\ SubSeq(s, 1, k) \o SubSeq(s, k + 1, Len(s)) = s
<1>1. Len(s) \in Nat /\ \A i \in 1 .. Len(s) : s[i] \in Cell
  BY LenProperties, ElementOfSeq, Zenon
<1>2. SubSeq(s, 1, k) \in Seq(Cell) /\ Len(SubSeq(s, 1, k)) = k
  BY <1>1, SubSeqProperties
<1>3. SubSeq(s, k + 1, Len(s)) \in Seq(Cell) /\ Len(SubSeq(s, k + 1, Len(s))) = Len(s) - k
  BY <1>1, SubSeqProperties
<1>4. SubSeq(s, 1, k) \o SubSeq(s, k + 1, Len(s)) = SubSeq(s, 1, Len(s))
  <2>1. 1 \in 1 .. Len(s) + 1 /\ k \in 1 - 1 .. Len(s) /\ Len(s) \in k .. Len(s)
    BY <1>1
  <2> QED BY <2>1, ConcatAdjacentSubSeq, Zenon
<1> QED BY <1>2, <1>3, <1>4, SubSeqFull, Zenon

\* Appending in two steps.
LEMMA Appending ==
  ASSUME NEW a \in Seq(Cell), NEW b \in Seq(Cell), NEW c \in Seq(Cell)
  PROVE  (a \o b) \o c = a \o (b \o c)
  BY ConcatAssociative

\* A pwrite at the end of the file appends.
LEMMA PWriteAppends ==
  ASSUME file \in Seq(Cell), NEW data \in Seq(Cell)
  PROVE  PWrite(Len(file), data) = file \o data
<1>1. Len(file) \in Nat /\ Len(data) \in Nat
  BY LenProperties, Zenon
<1>2. SubSeq(file, 1, Len(file)) = file
  BY SubSeqFull, Zenon
<1>3. SubSeq(file, Len(file) + Len(data) + 1, Len(file)) = <<>>
  BY <1>1, SubSeqEmpty
<1>4. file \o data \in Seq(Cell)
  BY ConcatProperties, Zenon
<1> QED BY <1>2, <1>3, <1>4, ConcatEmptySeq, Zenon DEF PWrite

\* A cell, and the sequence of one.
LEMMA OneCell ==
  ASSUME NEW s \in Tag, NEW x \in Nat
  PROVE  <<s, x>> \in Cell /\ << <<s, x>> >> \in Seq(Cell)
<1>1. <<s, x>> \in Cell
  BY Zenon DEF Cell
<1>2. ASSUME NEW c \in Cell PROVE <<c>> \in Seq(Cell)
  OBVIOUS
<1> QED BY <1>1, <1>2

\* encode_free_block and encode_block_indice make cells.
LEMMA EncodeTyped ==
  ASSUME NEW kind, NEW e,
         (kind = "free_block" /\ e \in Nat) \/ (kind = "block_indice" /\ e \in BlockIndice)
  PROVE  Encode(kind, e) \in Seq(Cell)
<1>1. CASE kind = "free_block" /\ e \in Nat
  BY <1>1, OneCell, Zenon DEF Encode, encode_free_block, Tag
<1>2. CASE kind = "block_indice" /\ e \in BlockIndice
  <2>1. e.path \in Seq(Nat) /\ e.offset \in Nat
    BY <1>2, Zenon DEF BlockIndice
  <2>2. Len(e.path) \in Nat /\ DOMAIN e.path = 1 .. Len(e.path) /\ \A j \in 1 .. Len(e.path) : e.path[j] \in Nat
    BY <2>1, LenProperties, ElementOfSeq, Zenon
  <2>3. << <<"path_len", Len(e.path)>> >> \in Seq(Cell) /\ << <<"offset", e.offset>> >> \in Seq(Cell)
    BY <2>1, <2>2, OneCell, Zenon DEF Tag
  <2>4. [j \in DOMAIN e.path |-> <<"char", e.path[j]>>] \in Seq(Cell)
    <3>1. \A j \in 1 .. Len(e.path) : <<"char", e.path[j]>> \in Cell
      BY <2>2, OneCell, Zenon DEF Tag
    <3>2. [j \in 1 .. Len(e.path) |-> <<"char", e.path[j]>>] \in [1 .. Len(e.path) -> Cell]
      BY <3>1, Zenon
    <3> QED BY <2>2, <3>2, SeqDef
  <2>5. encode_block_indice(e) \in Seq(Cell)
    BY <2>3, <2>4, ConcatProperties, Zenon DEF encode_block_indice
  <2> QED BY <1>2, <2>5 DEF Encode
<1> QED BY <1>1, <1>2

\* What gslist_save hands to buffered_write is cells.
LEMMA CallsTyped ==
  ASSUME NEW l \in Lists
  PROVE  SaveCalls(l) \in Seq(Seq(Cell))
<1>1. Len(l.elems) \in Nat
  BY ListsAssumption, LenProperties, Zenon
<1>2. << <<"n", Len(l.elems)>> >> \in Seq(Cell)
  BY <1>1, OneCell, Zenon DEF Tag
<1>3. ASSUME NEW k \in 2 .. 2 * Len(l.elems) + 1
      PROVE  ElemCalls(l.kind, l.elems[k \div 2])[(k % 2) + 1] \in Seq(Cell)
  <2> DEFINE e == l.elems[k \div 2]
  <2>1. k \div 2 \in 1 .. Len(l.elems) /\ k % 2 \in {0, 1}
    BY <1>1, <1>3
  <2>2. (l.kind = "free_block" /\ e \in Nat) \/ (l.kind = "block_indice" /\ e \in BlockIndice)
    <3>1. CASE l.kind = "free_block" /\ l.elems \in Seq(Nat)
      BY <2>1, <3>1, ElementOfSeq, Zenon
    <3>2. CASE l.kind = "block_indice" /\ l.elems \in Seq(BlockIndice)
      BY <2>1, <3>2, ElementOfSeq, Zenon
    <3> QED BY <3>1, <3>2, ListsAssumption
  <2>3. Encode(l.kind, e) \in Seq(Cell)
    BY <2>2, EncodeTyped, Zenon
  <2>4. Len(Encode(l.kind, e)) \in Nat
    BY <2>3, LenProperties, Zenon
  <2>5. << <<"size", Len(Encode(l.kind, e))>> >> \in Seq(Cell)
    BY <2>4, OneCell, Zenon DEF Tag
  <2> HIDE DEF e
  <2>6. ElemCalls(l.kind, e)[(k % 2) + 1] \in Seq(Cell)
    <3> DEFINE size == << <<"size", Len(Encode(l.kind, e))>> >>
               payload == Encode(l.kind, e)
    <3>1. size \in Seq(Cell) /\ payload \in Seq(Cell) /\ ElemCalls(l.kind, e) = <<size, payload>>
      BY <2>3, <2>5, Zenon DEF ElemCalls
    <3> HIDE DEF size, payload
    <3>2. (k % 2) + 1 \in {1, 2}
      BY <2>1
    <3> QED BY <3>1, <3>2
  <2> QED BY <2>6 DEF e
<1>4. \A k \in 1 .. 2 * Len(l.elems) + 1 : SaveCalls(l)[k] \in Seq(Cell)
  BY <1>1, <1>2, <1>3 DEF SaveCalls
<1>5. SaveCalls(l) = [k \in 1 .. 2 * Len(l.elems) + 1 |-> SaveCalls(l)[k]]
  BY Zenon DEF SaveCalls
<1> QED BY <1>1, <1>4, <1>5

\* One memcpy of buffered_write: the cells move from src to the buffer.
LEMMA CopyMoves ==
  ASSUME src \in Seq(Cell), taken \in Seq(Cell), NEW held \in Seq(Cell), NEW room \in Nat,
         Copy(held, room)
  PROVE  \E c \in Seq(Cell) :
           /\ Len(c) <= room /\ buffer' = held \o c /\ taken' = taken \o c
           /\ src' \in Seq(Cell)
           /\ mode' = IF Len(held) + Len(c) > BufferSize THEN "overrun" ELSE "write"
<1> DEFINE to_copy == Min({Len(src), room})
           c == SubSeq(src, 1, to_copy)
<1>1. Len(src) \in Nat
  BY LenProperties, Zenon
<1>2. to_copy \in 0 .. Len(src) /\ to_copy <= room
  <2>1. Len(src) \in Int /\ room \in Int
    BY <1>1
  <2>2. to_copy \in {Len(src), room} /\ to_copy <= Len(src) /\ to_copy <= room
    BY <2>1, MinOfTwo, Zenon
  <2> HIDE DEF to_copy
  <2> QED BY <1>1, <2>2
<1> HIDE DEF to_copy
<1>3. c \in Seq(Cell) /\ Len(c) = to_copy /\ SubSeq(src, to_copy + 1, Len(src)) \in Seq(Cell)
  BY <1>2, Cut, Zenon
<1>4. /\ buffer' = held \o c /\ taken' = taken \o c
      /\ src' = SubSeq(src, to_copy + 1, Len(src))
      /\ mode' = IF Len(held) + to_copy > BufferSize THEN "overrun" ELSE "write"
  BY Zenon DEF Copy, to_copy
<1> HIDE DEF c
<1> QED BY <1>2, <1>3, <1>4, Zenon

-----------------------------------------------------------------------------
(* The invariant. *)

\* buffered_io_init on an empty file.
LEMMA BufInit == Init => BufInv
<1> SUFFICES ASSUME Init PROVE BufInv
  OBVIOUS
<1>1. calls \in Seq(Seq(Cell))
  BY CallsTyped, Zenon DEF Init
<1>2. <<>> \in Seq(Cell) /\ Len(<<>>) = 0 /\ <<>> \o <<>> = <<>>
  OBVIOUS
<1>3. /\ mode = "write" /\ file = <<>> /\ buffer = <<>> /\ taken = <<>> /\ src = <<>>
      /\ file_offset = 0 /\ faulty = FALSE
  BY Zenon DEF Init
<1>4. Len(buffer) <= BufferSize /\ file_offset = Len(file) /\ file_offset \in Nat
  BY <1>2, <1>3, BufferAssumption
<1>5. /\ file \in Seq(Cell) /\ buffer \in Seq(Cell) /\ taken \in Seq(Cell) /\ src \in Seq(Cell)
      /\ file \o buffer = taken
  BY <1>2, <1>3, Zenon
<1>6. mode # "overrun" /\ mode \in {"write", "overrun", "closed", "read", "ended"}
  BY <1>3, Zenon
<1> QED BY <1>1, <1>3, <1>4, <1>5, <1>6, Zenon DEF BufInv

\* A turn with room in the buffer.
LEMMA CopyChunkStep == BufInv /\ CopyChunk => BufInv'
<1> SUFFICES ASSUME BufInv, CopyChunk PROVE BufInv'
  OBVIOUS
<1>1. /\ mode = "write" /\ buffer \in Seq(Cell) /\ src \in Seq(Cell) /\ taken \in Seq(Cell)
      /\ file \in Seq(Cell) /\ Len(buffer) <= BufferSize /\ file \o buffer = taken
  BY Zenon DEF BufInv, CopyChunk
<1>2. Len(buffer) \in Nat
  BY <1>1, LenProperties, Zenon
<1>3. Available \in Nat /\ Available = BufferSize - Len(buffer)
  BY <1>1, <1>2, BufferAssumption DEF Available
<1>4. Copy(buffer, Available)
  BY Zenon DEF CopyChunk
<1>5. PICK c \in Seq(Cell) :
        /\ Len(c) <= Available /\ buffer' = buffer \o c /\ taken' = taken \o c
        /\ src' \in Seq(Cell)
        /\ mode' = IF Len(buffer) + Len(c) > BufferSize THEN "overrun" ELSE "write"
  BY <1>1, <1>3, <1>4, CopyMoves, Zenon
<1>6. Len(c) \in Nat
  BY LenProperties, Zenon
<1>7. /\ buffer' \in Seq(Cell) /\ Len(buffer') = Len(buffer) + Len(c)
      /\ taken' \in Seq(Cell) /\ file \o buffer' = taken'
  <2>1. (file \o buffer) \o c = file \o (buffer \o c)
    BY <1>1, Appending, ZenonT(60)
  <2>2. file \o buffer' = taken'
    BY <1>1, <1>5, <2>1, Zenon
  <2>3. /\ buffer' \in Seq(Cell) /\ Len(buffer') = Len(buffer) + Len(c)
        /\ taken' \in Seq(Cell)
    BY <1>1, <1>5, ConcatProperties, Zenon
  <2> QED BY <2>2, <2>3
<1>8. mode' = "write" /\ Len(buffer') <= BufferSize
  BY <1>2, <1>3, <1>5, <1>6, <1>7, BufferAssumption
<1>9. UNCHANGED <<file, file_offset, calls, faulty>>
  BY Zenon DEF CopyChunk
<1> QED BY <1>1, <1>5, <1>7, <1>8, <1>9, Zenon DEF BufInv

\* What a flush writes and what it leaves.
LEMMA FlushMoves ==
  ASSUME BufInv, mode = "write", NEW w \in 0 .. Len(buffer), Flush(w)
  PROVE  /\ file' \in Seq(Cell) /\ Remaining(w) \in Seq(Cell)
         /\ file' \o Remaining(w) = taken
         /\ file_offset' = Len(file') /\ file_offset' \in Nat
         /\ faulty' \in BOOLEAN
         /\ ~faulty' => ~faulty /\ Len(Remaining(w)) = 0
<1> DEFINE gone == SubSeq(buffer, 1, w)
<1>1. /\ file \in Seq(Cell) /\ buffer \in Seq(Cell) /\ file_offset = Len(file)
      /\ file \o buffer = taken /\ faulty \in BOOLEAN
  BY Zenon DEF BufInv
<1>2. Len(file) \in Nat /\ Len(buffer) \in Nat
  BY <1>1, LenProperties, Zenon
<1>3. /\ gone \in Seq(Cell) /\ Len(gone) = w /\ Remaining(w) \in Seq(Cell)
      /\ Len(Remaining(w)) = Len(buffer) - w /\ gone \o Remaining(w) = buffer
  BY <1>1, Cut, Zenon DEF Remaining
<1>4. file' = PWrite(file_offset, gone) /\ file_offset' = file_offset + w
      /\ faulty' = (faulty \/ w < Len(buffer))
  BY Zenon DEF Flush
<1> HIDE DEF gone
<1>5. file' = file \o gone
  BY <1>1, <1>3, <1>4, PWriteAppends, ZenonT(60)
<1>6. file' \in Seq(Cell) /\ Len(file') = Len(file) + w
  BY <1>1, <1>3, <1>5, ConcatProperties, ZenonT(60)
<1>7. (file \o gone) \o Remaining(w) = file \o buffer
  <2>1. (file \o gone) \o Remaining(w) = file \o (gone \o Remaining(w))
    BY <1>1, <1>3, Appending, ZenonT(60)
  <2> QED BY <1>3, <2>1, Zenon
<1>8. file' \o Remaining(w) = taken
  BY <1>1, <1>5, <1>7, Zenon
<1>9. faulty' \in BOOLEAN /\ (~faulty' => ~faulty /\ ~(w < Len(buffer)))
  BY <1>1, <1>4, Zenon
<1> QED BY <1>1, <1>2, <1>3, <1>4, <1>6, <1>8, <1>9

\* A turn with a full buffer.
LEMMA FlushAndCopyStep == BufInv /\ FlushAndCopy => BufInv'
<1> SUFFICES ASSUME BufInv, FlushAndCopy PROVE BufInv'
  OBVIOUS
<1>1. mode = "write" /\ src \in Seq(Cell) /\ taken \in Seq(Cell)
  BY Zenon DEF BufInv, FlushAndCopy
<1>2. PICK w \in 0 .. Len(buffer) : Flush(w) /\ Copy(Remaining(w), BufferSize)
  BY Zenon DEF FlushAndCopy
<1>3. /\ file' \in Seq(Cell) /\ Remaining(w) \in Seq(Cell)
      /\ file' \o Remaining(w) = taken
      /\ file_offset' = Len(file') /\ file_offset' \in Nat
      /\ faulty' \in BOOLEAN
      /\ ~faulty' => ~faulty /\ Len(Remaining(w)) = 0
  BY <1>1, <1>2, FlushMoves, Zenon
<1>4. PICK c \in Seq(Cell) :
        /\ Len(c) <= BufferSize /\ buffer' = Remaining(w) \o c /\ taken' = taken \o c
        /\ src' \in Seq(Cell)
        /\ mode' = IF Len(Remaining(w)) + Len(c) > BufferSize THEN "overrun" ELSE "write"
  BY <1>1, <1>2, <1>3, CopyMoves, BufferAssumption, ZenonT(60)
<1>5. Len(c) \in Nat /\ Len(Remaining(w)) \in Nat
  BY <1>3, LenProperties, Zenon
<1>6. /\ buffer' \in Seq(Cell) /\ Len(buffer') = Len(Remaining(w)) + Len(c)
      /\ taken' \in Seq(Cell)
  BY <1>1, <1>3, <1>4, ConcatProperties, ZenonT(60)
<1>7. file' \o buffer' = taken'
  <2>1. (file' \o Remaining(w)) \o c = file' \o (Remaining(w) \o c)
    BY <1>3, Appending, Zenon
  <2> QED BY <1>3, <1>4, <2>1, Zenon
<1>8. ~faulty' => Len(buffer') <= BufferSize /\ mode' = "write"
  BY <1>3, <1>4, <1>5, <1>6, BufferAssumption
<1>9. mode' = "write" => Len(buffer') <= BufferSize
  BY <1>4, <1>5, <1>6, BufferAssumption
<1>10. mode' \in {"write", "overrun"} /\ UNCHANGED calls
  BY <1>4, Zenon DEF FlushAndCopy
<1>11. calls' \in Seq(Seq(Cell))
  BY <1>10, Zenon DEF BufInv
<1> QED BY <1>3, <1>4, <1>6, <1>7, <1>8, <1>9, <1>10, <1>11 DEF BufInv

\* The end of gslist_save.
LEMMA FinalFlushStep == BufInv /\ FinalFlush => BufInv'
<1> SUFFICES ASSUME BufInv, FinalFlush PROVE BufInv'
  OBVIOUS
<1>1. mode = "write" /\ mode' = "closed" /\ buffer' = <<>> /\ UNCHANGED writer
  BY Zenon DEF FinalFlush
<1>2. PICK w \in 0 .. Len(buffer) : Flush(w)
  BY Zenon DEF FinalFlush
<1>3. file' \in Seq(Cell) /\ file_offset' \in Nat /\ faulty' \in BOOLEAN
  BY <1>1, <1>2, FlushMoves, Zenon
<1>4. <<>> \in Seq(Cell) /\ Len(<<>>) = 0
  OBVIOUS
<1> QED BY <1>1, <1>3, <1>4, BufferAssumption DEF BufInv, writer

\* A refill takes at most a buffer from the file.
LEMMA RefillStep == BufInv /\ Refill => BufInv'
<1> SUFFICES ASSUME BufInv, Refill PROVE BufInv'
  OBVIOUS
<1>1. mode = "read" /\ UNCHANGED <<mode, file, writer, faulty>>
  BY Zenon DEF Refill
<1>2. PICK nread \in 1 .. Min({BufferSize, Len(file) - file_offset}) :
        /\ buffer' = SubSeq(file, file_offset + 1, file_offset + nread)
        /\ file_offset' = file_offset + nread
  BY Zenon DEF Refill
<1>3. file \in Seq(Cell) /\ file_offset \in Nat /\ Len(file) \in Nat
  BY LenProperties, Zenon DEF BufInv
<1>4. Len(file) - file_offset \in Int /\ BufferSize \in Int
  BY <1>3, BufferAssumption
<1>5. /\ Min({BufferSize, Len(file) - file_offset}) \in Int
      /\ Min({BufferSize, Len(file) - file_offset}) <= BufferSize
      /\ Min({BufferSize, Len(file) - file_offset}) <= Len(file) - file_offset
  BY <1>4, MinOfTwo, Zenon
<1>6. nread \in Nat /\ nread >= 1 /\ nread <= BufferSize /\ file_offset + nread <= Len(file)
  BY <1>2, <1>3, <1>5, BufferAssumption
<1>7. \A i \in file_offset + 1 .. file_offset + nread : file[i] \in Cell
  BY <1>3, <1>6, ElementOfSeq
<1>8. buffer' \in Seq(Cell) /\ Len(buffer') = nread
  <2>1. file_offset + 1 \in Int /\ file_offset + nread \in Int
    BY <1>3, <1>6
  <2>2. /\ buffer' \in Seq(Cell)
        /\ Len(buffer') = IF file_offset + 1 <= file_offset + nread
                          THEN (file_offset + nread) - (file_offset + 1) + 1 ELSE 0
    BY <1>2, <1>7, <2>1, SubSeqProperties
  <2> QED BY <2>2, <1>3, <1>6
<1> QED BY <1>1, <1>2, <1>3, <1>6, <1>8 DEF BufInv, writer

\* Every step keeps the invariant.
LEMMA BufStep == BufInv /\ [Next]_vars => BufInv'
<1> SUFFICES ASSUME BufInv, [Next]_vars PROVE BufInv'
  OBVIOUS
<1>1. CASE BufferedWrite
  <2>1. calls \in Seq(Seq(Cell)) /\ calls # <<>>
    BY <1>1, Zenon DEF BufInv, BufferedWrite
  <2>2. Head(calls) \in Seq(Cell) /\ Tail(calls) \in Seq(Seq(Cell))
    BY <2>1, HeadTailProperties, Zenon
  <2> QED BY <1>1, <2>2 DEF BufInv, BufferedWrite, ctx
<1>2. CASE CopyChunk
  BY <1>2, CopyChunkStep, Zenon
<1>3. CASE FlushAndCopy
  BY <1>3, FlushAndCopyStep, Zenon
<1>4. CASE FinalFlush
  BY <1>4, FinalFlushStep, Zenon
<1>5. CASE OpenRead
  <2>1. <<>> \in Seq(Cell) /\ Len(<<>>) = 0
    OBVIOUS
  <2> QED BY <1>5, <2>1, BufferAssumption DEF BufInv, OpenRead, writer
<1>6. CASE Refill
  BY <1>6, RefillStep, Zenon
<1>7. CASE ReadFails
  <2>1. faulty \in BOOLEAN /\ (faulty' = faulty \/ faulty' = TRUE)
    BY <1>7, Zenon DEF BufInv, ReadFails
  <2>2. faulty' \in BOOLEAN /\ (~faulty' => ~faulty)
    BY <2>1, Zenon
  <2>3. mode' = "ended" /\ UNCHANGED <<file, buffer, file_offset, calls, src, taken>>
    BY <1>7, Zenon DEF ReadFails, ctx, writer
  <2> QED BY <2>2, <2>3 DEF BufInv
<1>8. CASE TakeChunk
  BY <1>8, Zenon DEF BufInv, TakeChunk, writer
<1>9. CASE FieldDone
  BY <1>9, Zenon DEF BufInv, FieldDone, NextElem, ctx, writer
<1>10. CASE Ended \/ UNCHANGED vars
  BY <1>10, Zenon DEF BufInv, Ended, vars, ctx, writer
<1> QED BY <1>1, <1>2, <1>3, <1>4, <1>5, <1>6, <1>7, <1>8, <1>9, <1>10 DEF Next

\* The invariant holds always.
LEMMA BufInvariance == Spec => []BufInv
  BY BufInit, BufStep, PTL DEF Spec

\* However many flushes are short or fail, flush_write_buffer and
\* buffered_write write no cell twice, skip none and keep their order.
THEOREM NoCellLost == Spec => []FileThenBuffer
<1>1. BufInv => FileThenBuffer
  BY Zenon DEF BufInv, FileThenBuffer
<1> QED BY <1>1, BufInvariance, PTL

\* Unless a pwrite was short or failed, buffered_write never copies past the
\* end of the buffer, for any size of it and any list.
THEOREM BufferNotOverrun == Spec => []FillWithinBuffer
<1>1. BufInv => FillWithinBuffer
  BY Zenon DEF BufInv, FillWithinBuffer
<1> QED BY <1>1, BufInvariance, PTL

=============================================================================
