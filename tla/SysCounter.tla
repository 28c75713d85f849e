---------------------------- MODULE SysCounter ----------------------------
(***************************************************************************)
(* syscounter: the BPF programs of syscounter.bpf.c on the system calls of *)
(* several tasks, their three maps, and the report of syscounter.c.        *)
(*                                                                         *)
(* Each BPF map helper and each atomic add is one step, and programs on    *)
(* different CPUs interleave.  Time is a clock that every reading moves.   *)
(* A deleted element of enter_timestamps is not reused while a program     *)
(* still holds a pointer to it.                                            *)
(***************************************************************************)
EXTENDS Integers, Sequences, FiniteSets, FiniteSetsExt, Functions

CONSTANTS
  Tasks,            \* tids; the tid of a process's main thread is its pid
  FirstProcess,     \* the pid given on the command line
  FirstThreads,     \* the other threads it has from the beginning
  Comms,            \* command names
  OpOrder,          \* the traced system calls, in the order of their programs
  NULL,
  MaxPids,          \* MAX_PIDS, the capacity of pids_to_consider
  MaxEntered,       \* MAX_PIDS * MAX_THREADS, that of enter_timestamps
  Capacities,       \* those of counters that are considered, MAX_PIDS * MAX_OPS
  MaxCalls          \* bound: system calls

ASSUME TasksAssumption == FirstProcess \in Tasks /\ FirstThreads \subseteq Tasks \ {FirstProcess}
ASSUME OpsAssumption ==
  OpOrder \in Seq({"openat", "write", "pwrite64", "read", "pread64", "close", "unlink"})
ASSUME CounterBounds == {MaxPids, MaxEntered, MaxCalls} \cup Capacities \subseteq Nat

VARIABLES
  attached,           \* how many programs are attached
  tgid, comm,         \* per task: its process or NULL, its command
  pids_to_consider, enter_timestamps, counters,   \* the maps
  capacity,           \* of counters
  clock, calls,       \* the time; how many calls there were
  pc, call, enter_time, delta,                    \* per task: the program
  due,                \* history: per key, the calls to be counted, their time
  lost,               \* history: per key, those whose insert found an entry
  dropped,            \* history: per key, those that found a map full
  early,              \* history: a call came before all programs were attached
  counted,            \* history: the counters when the report began
  reporter, keys, cur_key, report                 \* syscounter.c

maps == <<pids_to_consider, enter_timestamps, counters, capacity>>
program == <<pc, call, enter_time, delta>>
system == <<tgid, comm>>
expected == <<due, lost, dropped, early>>
reporting == <<counted, reporter, keys, cur_key, report>>
vars == <<attached, system, maps, clock, calls, program, expected, reporting>>

Ops == Range(OpOrder)
CounterKey == Comms \X Tasks \X Ops
None == [count |-> 0, time_sum |-> 0]
Sum(v, w) == [count |-> v.count + w.count, time_sum |-> v.time_sum + w.time_sum]

Init ==
  /\ attached = 0
  /\ tgid = [t \in Tasks |-> IF t \in FirstThreads \cup {FirstProcess} THEN FirstProcess ELSE NULL]
  /\ comm = [t \in Tasks |-> CHOOSE c \in Comms : TRUE]
  /\ pids_to_consider = {FirstProcess}
  /\ enter_timestamps = [t \in Tasks |-> NULL]
  /\ counters = [k \in CounterKey |-> NULL] /\ capacity \in Capacities
  /\ clock = 0 /\ calls = 0
  /\ pc = [t \in Tasks |-> "user"]
  /\ call = [t \in Tasks |-> NULL]
  /\ enter_time = [t \in Tasks |-> 0] /\ delta = [t \in Tasks |-> 0]
  /\ due = [k \in CounterKey |-> None] /\ early = FALSE
  /\ lost = [k \in CounterKey |-> None] /\ dropped = [k \in CounterKey |-> None]
  /\ counted = [k \in CounterKey |-> None]
  /\ reporter = "sleep" /\ keys = {} /\ cur_key = NULL /\ report = [k \in CounterKey |-> NULL]

Goto(t, step) == pc' = [pc EXCEPT ![t] = step]

\* At the end of the program its variables are gone.
LeaveTo(t, step) ==
  /\ Goto(t, step)
  /\ IF step \in {"user", "dead"}
     THEN /\ call' = [call EXCEPT ![t] = NULL]
          /\ enter_time' = [enter_time EXCEPT ![t] = 0] /\ delta' = [delta EXCEPT ![t] = 0]
     ELSE UNCHANGED <<call, enter_time, delta>>

\* to_discard.
Traced(pid) == pid \in pids_to_consider

\* The programs are attached in their order: enter and exit of each call in
\* turn, then the one on fork.
Place(op) == CHOOSE i \in DOMAIN OpOrder : OpOrder[i] = op
EnterAttached(op) == attached >= 2 * Place(op) - 1
ExitAttached(op) == attached >= 2 * Place(op)
ForkAttached == attached = 2 * Len(OpOrder) + 1

Attach ==
  /\ ~ForkAttached
  /\ attached' = attached + 1
  /\ UNCHANGED <<system, maps, clock, calls, program, expected, reporting>>

-----------------------------------------------------------------------------
(* Entering a system call. *)

\* The calls whose sys_enter program looks at the file of the descriptor: it
\* returns unless that is a regular file.  sys_exit_openat looks at the file
\* that was opened, and the programs on unlink at none.
CheckedAtEnter == {"write", "pwrite64", "read", "pread64", "close"}
CheckedAtExit == {"openat"}

\* sys_enter_*, update_counter_enter.
EnterRecorded(t, op, regular) ==
  EnterAttached(op) /\ Traced(tgid[t]) /\ (op \in CheckedAtEnter => regular)

\* BPF_ANY: an entry that is there is replaced; a new one needs room.
Entered == {t \in Tasks : enter_timestamps[t] # NULL}
EnterFits(t) == t \in Entered \/ Cardinality(Entered) < MaxEntered

Enter(t, op, regular) ==
  /\ pc[t] = "user" /\ tgid[t] # NULL /\ calls < MaxCalls
  /\ regular \/ op \in CheckedAtEnter \cup CheckedAtExit
  /\ calls' = calls + 1
  /\ call' = [call EXCEPT ![t] =
                [op |-> op, regular |-> regular, start |-> clock, fits |-> EnterFits(t),
                 counts |-> EnterRecorded(t, op, regular) /\ (op \in CheckedAtExit => regular)]]
  /\ enter_timestamps' = IF EnterRecorded(t, op, regular) /\ EnterFits(t)
                         THEN [enter_timestamps EXCEPT ![t] = clock] ELSE enter_timestamps
  /\ clock' = clock + 1
  /\ early' = (early \/ ~ForkAttached)
  /\ Goto(t, "kernel")
  /\ UNCHANGED <<attached, system, pids_to_consider, counters, capacity, enter_time, delta, due, lost,
                 dropped, reporting>>

-----------------------------------------------------------------------------
(* Leaving it. *)

KeyOf(t) == <<comm[t], tgid[t], call[t].op>>

\* sys_exit_*: nothing to do for an untraced process; for a file that is not
\* regular sys_exit_openat drops the entry.
ExitIgnored(t) ==
  /\ pc[t] = "kernel"
  /\ \/ /\ ~ExitAttached(call[t].op) \/ ~Traced(tgid[t])
        /\ UNCHANGED enter_timestamps
     \/ /\ ExitAttached(call[t].op) /\ Traced(tgid[t])
        /\ call[t].op \in CheckedAtExit /\ ~call[t].regular
        /\ enter_timestamps' = [enter_timestamps EXCEPT ![t] = NULL]
  /\ LeaveTo(t, "user")
  /\ UNCHANGED <<attached, system, pids_to_consider, counters, capacity, clock, calls, expected, reporting>>

\* update_counter_exit looks the entry up; without one it returns.
ExitLookup(t) ==
  /\ pc[t] = "kernel"
  /\ ExitAttached(call[t].op) /\ Traced(tgid[t])
  /\ call[t].op \in CheckedAtExit => call[t].regular
  /\ due' = IF call[t].counts THEN [due EXCEPT ![KeyOf(t)].count = @ + 1] ELSE due
  /\ IF enter_timestamps[t] = NULL
     THEN /\ dropped' = IF call[t].counts /\ ~call[t].fits
                        THEN [dropped EXCEPT ![KeyOf(t)].count = @ + 1] ELSE dropped
          /\ LeaveTo(t, "user")
     ELSE /\ enter_time' = [enter_time EXCEPT ![t] = enter_timestamps[t]]
          /\ Goto(t, "delete") /\ UNCHANGED <<call, delta, dropped>>
  /\ UNCHANGED <<attached, system, maps, clock, calls, lost, early, reporting>>

EntryKept(t) == enter_timestamps
EntryDeleted(t) == [enter_timestamps EXCEPT ![t] = NULL]

ExitDelete(t) ==
  /\ pc[t] = "delete"
  /\ enter_timestamps' = EntryDeleted(t)
  /\ Goto(t, "measure")
  /\ UNCHANGED <<attached, system, pids_to_consider, counters, capacity, clock, calls, call, enter_time,
                 delta, expected, reporting>>

\* The counter is looked up, then the time is taken.
ExitMeasure(t) ==
  /\ pc[t] = "measure"
  /\ delta' = [delta EXCEPT ![t] = clock - enter_time[t]]
  /\ due' = IF call[t].counts
            THEN [due EXCEPT ![KeyOf(t)].time_sum = @ + clock - call[t].start] ELSE due
  /\ clock' = clock + 1
  /\ Goto(t, IF counters[KeyOf(t)] = NULL THEN "insert" ELSE "add_time")
  /\ UNCHANGED <<attached, system, maps, calls, call, enter_time, lost, dropped, early, reporting>>

FallsThrough == "add_time"
AfterInsert == "user"

Counted == {k \in CounterKey : counters[k] # NULL}

\* BPF_NOEXIST: an entry that came in the meantime stays.  A new one needs room.
ExitInsert(t) ==
  /\ pc[t] = "insert"
  /\ LET k == KeyOf(t)
         first == [count |-> 1, time_sum |-> delta[t]] IN
     \/ /\ k \in Counted
        /\ lost' = [lost EXCEPT ![k] = Sum(@, first)]
        /\ UNCHANGED <<counters, dropped>>
     \/ /\ k \notin Counted /\ Cardinality(Counted) < capacity
        /\ counters' = [counters EXCEPT ![k] = first]
        /\ UNCHANGED <<lost, dropped>>
     \/ /\ k \notin Counted /\ Cardinality(Counted) >= capacity
        /\ dropped' = [dropped EXCEPT ![k] = Sum(@, first)]
        /\ UNCHANGED <<counters, lost>>
  /\ LeaveTo(t, AfterInsert)
  /\ UNCHANGED <<attached, system, pids_to_consider, enter_timestamps, capacity, clock, calls, due, early, reporting>>

\* Two atomic adds, the time before the count.
TimeLater(t, step) == IF step = "add_time" THEN [count |-> 1, time_sum |-> 0]
                      ELSE [count |-> 0, time_sum |-> delta[t]]
Added(t, step) == IF step = "add_time" THEN [count |-> 0, time_sum |-> delta[t]]
                  ELSE [count |-> 1, time_sum |-> 0]

ExitAdd(t) ==
  /\ pc[t] \in {"add_time", "add_count"}
  /\ LET a == Added(t, pc[t]) IN
     counters' = [counters EXCEPT ![KeyOf(t)] = Sum(@, a)]
  /\ LeaveTo(t, IF pc[t] = "add_time" THEN "add_count" ELSE "user")
  /\ UNCHANGED <<attached, system, pids_to_consider, enter_timestamps, capacity, clock, calls, expected, reporting>>

-----------------------------------------------------------------------------
(* Tasks. *)

\* trace_sched_process_fork: parent_pid and child_pid are tids.
NewlyTraced(parent, child) ==
  IF ForkAttached /\ Traced(parent) /\ Cardinality(pids_to_consider) < MaxPids THEN {child} ELSE {}

Fork(t, child, thread) ==
  /\ pc[t] = "user" /\ tgid[t] # NULL /\ tgid[child] = NULL
  /\ tgid' = [tgid EXCEPT ![child] = IF thread THEN tgid[t] ELSE child]
  /\ comm' = [comm EXCEPT ![child] = comm[t]]
  /\ pids_to_consider' = pids_to_consider \cup NewlyTraced(t, child)
  /\ UNCHANGED <<attached, enter_timestamps, counters, capacity, clock, calls, program, expected, reporting>>

\* A task takes another name, between two calls.
SetComm(t, c) ==
  /\ pc[t] = "user" /\ tgid[t] # NULL /\ calls < MaxCalls
  /\ comm' = [comm EXCEPT ![t] = c]
  /\ UNCHANGED <<attached, tgid, maps, clock, calls, program, expected, reporting>>

\* A task is killed, maybe in a call: sys_exit never runs and the entry stays.
\* Its tid is not used again.
Die(t) ==
  /\ pc[t] \in {"user", "kernel"} /\ tgid[t] # NULL
  /\ LeaveTo(t, "dead")
  /\ UNCHANGED <<attached, system, maps, clock, calls, expected, reporting>>

-----------------------------------------------------------------------------
(* The report, after an interrupt. *)

\* get_values_from_counter_map: the keys one after the other, those that are
\* inserted meanwhile or not; of each value first its count and then its time.
Interrupt ==
  /\ reporter = "sleep" /\ ForkAttached
  /\ reporter' = "next"
  /\ keys' = Counted
  /\ counted' = [k \in CounterKey |-> IF k \in Counted THEN counters[k] ELSE None]
  /\ UNCHANGED <<attached, system, maps, clock, calls, program, expected, cur_key, report>>

CopyCount(k) ==
  /\ reporter = "next" /\ k \in Counted /\ report[k] = NULL
  /\ report' = [report EXCEPT ![k] = [count |-> counters[k].count, time_sum |-> 0]]
  /\ reporter' = "time" /\ cur_key' = k
  /\ UNCHANGED <<attached, system, maps, clock, calls, program, expected, counted, keys>>

CopyTime ==
  /\ reporter = "time"
  /\ report' = [report EXCEPT ![cur_key].time_sum = counters[cur_key].time_sum]
  /\ keys' = keys \ {cur_key} /\ reporter' = "next" /\ cur_key' = NULL
  /\ UNCHANGED <<attached, system, maps, clock, calls, program, expected, counted>>

PrintTable ==
  /\ reporter = "next" /\ keys = {}
  /\ reporter' = "printed"
  /\ UNCHANGED <<attached, system, maps, clock, calls, program, expected, counted, keys, cur_key, report>>

\* The table: a row per command and pid, a column per call, the sums below.
Entries == {k \in CounterKey : report[k] # NULL}
RowsOfCommands == {<<k[1], FirstProcess>> : k \in Entries}
Rows == {<<k[1], k[2]>> : k \in Entries}
Cell(row, op) ==
  LET k == <<row[1], row[2], op>> IN IF k \in Entries THEN report[k] ELSE None
Total(op) == MapThenSumSet(LAMBDA row : Cell(row, op).count, Rows)

Quiet == (\A t \in Tasks : pc[t] \in {"user", "dead"}) /\ UNCHANGED vars

Next ==
  \/ Attach
  \/ \E t \in Tasks, op \in Ops, regular \in BOOLEAN : Enter(t, op, regular)
  \/ \E t \in Tasks : \/ ExitIgnored(t) \/ ExitLookup(t) \/ ExitDelete(t)
                      \/ ExitMeasure(t) \/ ExitInsert(t) \/ ExitAdd(t) \/ Die(t)
  \/ \E t, child \in Tasks, thread \in BOOLEAN : Fork(t, child, thread)
  \/ \E t \in Tasks, c \in Comms : SetComm(t, c)
  \/ Interrupt \/ CopyTime \/ PrintTable \/ \E k \in CounterKey : CopyCount(k)
  \/ Quiet

Spec == Init /\ [][Next]_vars

-----------------------------------------------------------------------------
(* Properties. *)

\* Once all programs are attached, and however they interleave, no counter
\* exceeds the calls that were entered under its key while traced: an exit
\* without an enter counts nothing (update_counter_exit), no call counts twice.
CountsNeverExceed ==
  ~early => \A k \in CounterKey : counters[k] # NULL => counters[k].count <= due[k].count

\* Outside the programs every call that came back since all programs were
\* attached is counted, with the time it took, with three exceptions: its first
\* count under its key met the entry that another thread had inserted since it
\* looked, enter_timestamps was full when it came, or counters was full when its
\* key was new.  No more calls are lost to the first one than threads can race.
CountersExact ==
  ~early /\ (\A t \in Tasks : pc[t] \in {"user", "kernel", "dead"}) =>
    \A k \in CounterKey :
      /\ due[k] = Sum(IF counters[k] = NULL THEN None ELSE counters[k], Sum(lost[k], dropped[k]))
      /\ lost[k].count < Cardinality(Tasks)

\* A report taken at any moment includes the time of every call it counts,
\* at least one tick each: the time is added first and copied last.
ReportedTimesCoverCounts ==
  reporter = "next" =>
    \A k \in Entries : report[k].time_sum >= report[k].count

\* The sums below the columns of a table, printed while calls go on, take in
\* all that was counted when the report began and no more than was due.
TotalsInBetween ==
  reporter = "printed" /\ ~early =>
    \A op \in Ops :
      LET SumOf(f) == MapThenSumSet(LAMBDA k : f[k].count, {k \in CounterKey : k[3] = op})
      IN  SumOf(counted) <= Total(op) /\ Total(op) <= SumOf(due)

=============================================================================
