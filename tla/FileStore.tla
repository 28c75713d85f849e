----------------------------- MODULE FileStore -----------------------------
(***************************************************************************)
(* What the file system promises of the contents of files, with no         *)
(* deduplication: a request arrives, changes the blocks it names in one    *)
(* step, and returns.  A write leaves its buffer there, an unlink or a     *)
(* truncate nothing; a write may fail instead, and then changes nothing.   *)
(***************************************************************************)
EXTENDS Integers, Sequences

CONSTANTS Threads, Paths, Contents, NULL, MaxBlocks, Payloads,
          WritesFail    \* whether a write may fail

VARIABLES
  files,    \* <<path, block>> -> content, or NULL where there is none
  req,      \* thread -> the request it serves; a removal has an empty buf
  status    \* thread -> "idle", or the request is "pending", "done" or "failed"

vars == <<files, req, status>>

AllBlocks == Paths \X (0 .. MaxBlocks - 1)
NoRequest == [op |-> "none", path |-> NULL, start |-> 0, count |-> 0, buf |-> <<>>]

Init ==
  /\ files = [fb \in AllBlocks |-> NULL]
  /\ req = [t \in Threads |-> NoRequest]
  /\ status = [t \in Threads |-> "idle"]

Writes ==
  {[op |-> "write", path |-> p, start |-> s, count |-> Len(d), buf |-> d] :
     p \in Paths, s \in 0 .. MaxBlocks - 1, d \in Payloads}
Removals ==
  [op : {"unlink", "truncate"}, path : Paths, start : 0 .. MaxBlocks, count : 0 .. MaxBlocks, buf : {<<>>}]

\* A removal that names no block has nothing left to do.
Begin(t) ==
  /\ status[t] = "idle"
  /\ \E r \in Writes \cup Removals :
       /\ r.start + r.count <= MaxBlocks
       /\ req' = [req EXCEPT ![t] = r]
       /\ status' = [status EXCEPT ![t] = IF r.count = 0 THEN "done" ELSE "pending"]
  /\ UNCHANGED files

InRange(fb, r) == fb[1] = r.path /\ fb[2] \in r.start .. r.start + r.count - 1
Left(fb, r) == IF r.buf = <<>> THEN NULL ELSE r.buf[fb[2] - r.start + 1]

Effect(t) ==
  /\ status[t] = "pending"
  /\ files' = [fb \in AllBlocks |-> IF InRange(fb, req[t]) THEN Left(fb, req[t]) ELSE files[fb]]
  /\ status' = [status EXCEPT ![t] = "done"]
  /\ UNCHANGED req

Fail(t) ==
  /\ WritesFail /\ status[t] = "pending" /\ req[t].buf # <<>>
  /\ status' = [status EXCEPT ![t] = "failed"]
  /\ UNCHANGED <<files, req>>

End(t) ==
  /\ status[t] \in {"done", "failed"}
  /\ req' = [req EXCEPT ![t] = NoRequest]
  /\ status' = [status EXCEPT ![t] = "idle"]
  /\ UNCHANGED files

Next == \E t \in Threads : Begin(t) \/ Effect(t) \/ Fail(t) \/ End(t)

Spec == Init /\ [][Next]_vars

=============================================================================
