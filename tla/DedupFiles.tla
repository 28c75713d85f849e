----------------------------- MODULE DedupFiles -----------------------------
(***************************************************************************)
(* Dedup implements FileStore.  A write takes effect when Passe 3 gets the *)
(* write lock, a removal when remove_blocks_dedup_batch gets it: until the *)
(* lock is released nobody can tell a block already done from one to come. *)
(***************************************************************************)
EXTENDS Dedup

\* The thread that is changing mappings covers block fb.
Covers(t, fb) == fb[1] = req[t].path /\ fb[2] \in req[t].start .. req[t].start + req[t].count - 1

Files ==
  [fb \in Paths \X Blocks |->
     IF wrlock = NULL THEN FileContent(fb)
     ELSE IF pc[wrlock] \in {"publish", "map", "p3unlock"} /\ Covers(wrlock, fb)
          THEN req[wrlock].buf[fb[2] - req[wrlock].start + 1]
     ELSE IF pc[wrlock] \in {"remove", "rmunlock"} /\ Covers(wrlock, fb) THEN NULL
     ELSE FileContent(fb)]

\* How far the request of a thread is, by the step the thread is at.
AppliedSteps == {"publish", "map", "p3unlock", "p3release", "remove", "rmunlock", "rmrelease", "setsize"}
FailedSteps == {"rblock", "rbhits", "rbunlock", "rbrelease", "rbmisses"}
StatusAt(step) ==
  CASE step = "idle" -> "idle"
    [] step \in AppliedSteps -> "done"
    [] step \in FailedSteps -> "failed"
    [] OTHER -> "pending"
Status == [t \in Threads |-> StatusAt(pc[t])]

FS == INSTANCE FileStore WITH files <- Files, status <- Status, WritesFail <- WithIOError

\* Through all passes, races, rollbacks and slot reuse, files change only when
\* a request gets the write lock for its mappings, and then exactly in the
\* blocks it names and to what it carries; every request that returns has done
\* so once, except a write whose pwrite failed, which never does.
ImplementsFileStore == FS!Spec

=============================================================================
