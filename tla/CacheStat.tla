----------------------------- MODULE CacheStat -----------------------------
(***************************************************************************)
(* cachestat: which BPF programs main of cachestat.c loads on a kernel,    *)
(* the three counters the programs of cachestat.bpf.c move by atomic adds, *)
(* and the loop that drains the counters, prints rows and sums them up.    *)
(*                                                                         *)
(* A kernel is a record of what main asks of it through trace_helpers.c:   *)
(* its functions and tracepoints, the functions in its BTF, whether BPF    *)
(* trampolines work, and the files with the names of functions.  A program *)
(* is the pair of its kind and the name it has in the source.  Processes   *)
(* have one thread.                                                        *)
(***************************************************************************)
EXTENDS Integers, Sequences, FiniteSets, SequencesExt

CONSTANTS
  Kernels,          \* the kernels considered
  Processes,
  GivenPids,        \* --pids
  Running,          \* the processes there are at first
  MaxPids,          \* MAX_PIDS, the capacity of pids_to_consider
  Times,            \* env.times; 0 and the default are never counted down to 0
  Faults,           \* which of the steps "load", "bss", "attach", "meminfo", "output" may fail
  NULL,
  MaxEvents         \* bound: page cache events of each kind

ASSUME PidsAssumption ==
  GivenPids \subseteq Running /\ Running \subseteq Processes /\ Cardinality(GivenPids) <= MaxPids
ASSUME StatBounds == MaxPids \in Nat /\ Times \in Nat /\ MaxEvents \in Nat
ASSUME FaultsAssumption == Faults \subseteq {"load", "bss", "attach", "meminfo", "output"}
ASSUME KernelsAssumption == \A k \in Kernels : k.trampolines \in BOOLEAN /\ k.btf \subseteq k.functions

VARIABLES
  kernel,             \* the kernel main runs on
  loaded, attached,   \* the programs
  pids_to_consider,   \* the map
  counter,            \* the globals total, misses and mbd
  todo,               \* per process: the adds its programs still make
  phase, err, exiting, times,         \* main
  drained,                            \* main: total, misses and mbd of a row
  total_hits, total_misses, total_dirties,
  output,             \* the JSON file
  family,             \* history: GivenPids and their descendants
  alive,              \* the processes there are
  seen,               \* history: per kind, the family's events since a program is attached to it
  printed             \* history: hits, misses and dirties of the printed rows

probing == <<counter, todo, seen>>
people == <<pids_to_consider, family, alive>>
sums == <<total_hits, total_misses, total_dirties>>
chosen == <<kernel, loaded>>
ending == <<output, printed>>
vars == <<chosen, attached, people, probing, phase, err, exiting, times, drained, sums, ending>>

-----------------------------------------------------------------------------
(* The choice of programs. *)

\* The kinds of events, and for each the names under which a kernel has it.
Hooks == [missed   |-> {"folio_add_lru", "add_to_page_cache_lru"},
          accessed |-> {"folio_mark_accessed", "mark_page_accessed"},
          dirtied  |-> {"folio_account_dirtied", "account_page_dirtied",
                        "writeback_dirty_folio", "writeback_dirty_page"},
          buffer_dirtied |-> {"mark_buffer_dirty"}]
Events == DOMAIN Hooks

\* The name has BTF, and a program that does nothing can be attached to it.
FentryCanAttach(k, name) == name \in k.btf /\ k.trampolines

\* /proc/kallsyms is read when available_filter_functions cannot be.
KprobeExists(k, name) ==
  /\ name \notin k.blacklist
  /\ name \in IF k.available_filter_functions # NULL THEN k.available_filter_functions ELSE k.kallsyms

TracepointExists(k, name) == name \in k.tracepoints

Exists(k, p) ==
  \/ p[1] = "fentry" /\ FentryCanAttach(k, p[2])
  \/ p[1] = "kprobe" /\ KprobeExists(k, p[2])
  \/ p[1] = "tracepoint" /\ TracepointExists(k, p[2])

LruPrograms == << <<"fentry", "folio_add_lru">>, <<"fentry", "add_to_page_cache_lru">>,
                  <<"kprobe", "folio_add_lru">>, <<"kprobe", "add_to_page_cache_lru">> >>
AccessPrograms == << <<"fentry", "folio_mark_accessed">>, <<"fentry", "mark_page_accessed">>,
                     <<"kprobe", "folio_mark_accessed">>, <<"kprobe", "mark_page_accessed">> >>
BufferPrograms == << <<"fentry", "mark_buffer_dirty">>, <<"kprobe", "mark_buffer_dirty">> >>
DirtyPrograms == << <<"kprobe", "folio_account_dirtied">>, <<"kprobe", "account_page_dirtied">>,
                    <<"tracepoint", "writeback_dirty_folio">>,
                    <<"tracepoint", "writeback_dirty_page">> >>
FentryDirtied == <<"fentry", "account_page_dirtied">>
OnFork == <<"tracepoint", "sched_process_fork">>

\* The first program the kernel has a place for; the last needs none.
FirstOrLast(k, programs) ==
  Head(SelectSeq(programs, LAMBDA p : Exists(k, p)) \o <<Last(programs)>>)

\* The chain over the four names of "dirtied" leaves one program, or all when
\* no name is there.
DirtyChain(k) ==
  LET found == SelectSeq(DirtyPrograms, LAMBDA p : Exists(k, p))
  IN  IF found = <<>> THEN ToSet(DirtyPrograms) ELSE {Head(found)}

FentryWithChain(k) == DirtyChain(k) \cup {FentryDirtied}

\* Then either kprobe_account_page_dirtied or fentry_account_page_dirtied is
\* taken out.
FentryOrKprobe(k) ==
  IF FentryCanAttach(k, "folio_account_dirtied") \/ FentryCanAttach(k, "account_page_dirtied")
  THEN (DirtyChain(k) \ {<<"kprobe", "account_page_dirtied">>}) \cup {FentryDirtied}
  ELSE DirtyChain(k)

Autoloaded(k) ==
  FentryOrKprobe(k) \cup
  {FirstOrLast(k, ps) : ps \in {LruPrograms, AccessPrograms, BufferPrograms}} \cup {OnFork}

\* bpf_program__set_attach_target for the program whose function was renamed.
Hook(k, p) ==
  IF p = FentryDirtied /\ FentryCanAttach(k, "folio_account_dirtied")
  THEN "folio_account_dirtied" ELSE p[2]

\* libbpf: an fentry program finds its target when it is loaded, the others
\* when they are attached.
LoadError(k) == \E p \in Autoloaded(k) : p[1] = "fentry" /\ ~FentryCanAttach(k, Hook(k, p))
AttachError(k, p) ==
  \/ p[1] = "kprobe" /\ p[2] \notin k.functions \ k.blacklist
  \/ p[1] = "tracepoint" /\ p[2] \notin k.tracepoints \cup {OnFork[2]}

-----------------------------------------------------------------------------
Init ==
  /\ kernel \in Kernels
  /\ loaded = {} /\ attached = {}
  /\ pids_to_consider = {} /\ family = GivenPids /\ alive = Running
  /\ counter = [total |-> 0, misses |-> 0, mbd |-> 0]
  /\ todo = [p \in Processes |-> <<>>]
  /\ phase = "open" /\ err = FALSE /\ exiting = FALSE /\ times = Times
  /\ drained = [total |-> 0, misses |-> 0, mbd |-> 0]
  /\ total_hits = 0 /\ total_misses = 0 /\ total_dirties = 0
  /\ output = NULL /\ seen = [e \in Events |-> 0]
  /\ printed = [hits |-> 0, misses |-> 0, dirties |-> 0]

\* Up to the pids in the map.  Without a mapped .bss main leaves with err 0.
Load ==
  /\ phase = "open"
  /\ loaded' = Autoloaded(kernel)
  /\ \/ /\ ~LoadError(kernel)
        /\ pids_to_consider' = GivenPids
        /\ phase' = "attach" /\ UNCHANGED err
     \/ /\ LoadError(kernel) \/ "load" \in Faults
        /\ err' = TRUE
        /\ phase' = "cleanup" /\ UNCHANGED pids_to_consider
     \/ /\ ~LoadError(kernel) /\ "bss" \in Faults
        /\ phase' = "cleanup" /\ UNCHANGED <<err, pids_to_consider>>
  /\ UNCHANGED <<kernel, attached, family, alive, probing, exiting, times, drained, sums, ending>>

\* cachestat_bpf__attach attaches one program after the other; SIGINT is
\* caught from then on.
Attach(p) ==
  /\ phase = "attach" /\ p \in loaded \ attached
  /\ \/ /\ ~AttachError(kernel, p)
        /\ attached' = attached \cup {p}
        /\ phase' = IF attached' = loaded THEN "sleep" ELSE "attach"
        /\ UNCHANGED err
     \/ /\ AttachError(kernel, p) \/ "attach" \in Faults
        /\ err' = TRUE /\ phase' = "cleanup"
        /\ UNCHANGED attached
  /\ UNCHANGED <<chosen, people, probing, exiting, times, drained, sums, ending>>

-----------------------------------------------------------------------------
(* The programs. *)

\* What a program adds to which counter, by the event it is on.
Adds(e) ==
  [missed         |-> << <<"misses", 1>> >>,
   accessed       |-> << <<"total", 1>> >>,
   dirtied        |-> << <<"misses", -1>> >>,
   buffer_dirtied |-> << <<"total", -1>>, <<"mbd", 1>> >>][e]

\* The attached programs an event runs, the kernel passing every name it has.
Fired(e) == {p \in attached : Hook(kernel, p) \in Hooks[e]}

\* A process makes an event; the programs it runs make their adds one by one
\* unless to_ignore.
Happens(pid, e) ==
  /\ pid \in alive /\ todo[pid] = <<>> /\ seen[e] < MaxEvents /\ phase # "done"
  /\ seen' = [seen EXCEPT ![e] = @ + (IF pid \in family /\ Fired(e) # {} THEN 1 ELSE 0)]
  /\ todo' = IF pid \in pids_to_consider
             THEN [todo EXCEPT ![pid] = FoldSet(LAMBDA p, s : s \o Adds(e), <<>>, Fired(e))]
             ELSE todo
  /\ UNCHANGED <<chosen, attached, people, counter, phase, err, exiting, times, drained, sums, ending>>

\* __sync_fetch_and_add.
Add(pid) ==
  /\ todo[pid] # <<>>
  /\ counter' = [counter EXCEPT ![Head(todo[pid])[1]] = @ + Head(todo[pid])[2]]
  /\ todo' = [todo EXCEPT ![pid] = Tail(@)]
  /\ UNCHANGED <<chosen, attached, people, seen, phase, err, exiting, times, drained, sums, ending>>

\* trace_sched_process_fork; a full map does not take the child.
Fork(pid, child) ==
  /\ pid \in alive /\ todo[pid] = <<>> /\ child \notin alive /\ phase # "done"
  /\ alive' = alive \cup {child}
  /\ family' = IF pid \in family THEN family \cup {child} ELSE family
  /\ pids_to_consider' = IF /\ OnFork \in attached /\ pid \in pids_to_consider
                            /\ Cardinality(pids_to_consider) < MaxPids
                         THEN pids_to_consider \cup {child} ELSE pids_to_consider
  /\ UNCHANGED <<chosen, attached, probing, phase, err, exiting, times, drained, sums, ending>>

-----------------------------------------------------------------------------
(* The loop. *)

Interrupt ==
  /\ phase \in {"sleep", "misses", "mbd", "row"} /\ ~exiting
  /\ exiting' = TRUE
  /\ UNCHANGED <<chosen, attached, people, probing, phase, err, times, drained, sums, ending>>

\* __atomic_exchange_n(c, 0).
NotExchanged(c) == counter
Exchanged(c) == [counter EXCEPT ![c] = 0]

Drain(c, now, next) ==
  /\ phase = now /\ phase' = next
  /\ drained' = [drained EXCEPT ![c] = counter[c]]
  /\ counter' = Exchanged(c)
  /\ UNCHANGED <<chosen, attached, people, todo, seen, err, exiting, times, sums, ending>>

\* The row: negative counters are 0, and no more misses than accesses.
NonNegative(n) == IF n < 0 THEN 0 ELSE n
Hits(d) == NonNegative(NonNegative(d.total) - NonNegative(d.misses))
MissesAsCounted(d) == NonNegative(d.misses)
Misses(d) == IF NonNegative(d.total) < NonNegative(d.misses)
             THEN NonNegative(d.total) ELSE NonNegative(d.misses)

\* exiting || --env.times == 0.
OnlyTimes == times = 1
LastRow == exiting \/ times = 1

\* Without /proc/meminfo main leaves before it prints.
Row ==
  /\ phase = "row"
  /\ total_hits' = total_hits + Hits(drained)
  /\ total_misses' = total_misses + Misses(drained)
  /\ total_dirties' = total_dirties + drained.mbd
  /\ drained' = [total |-> 0, misses |-> 0, mbd |-> 0]
  /\ \/ /\ printed' = [hits |-> printed.hits + Hits(drained),
                       misses |-> printed.misses + Misses(drained),
                       dirties |-> printed.dirties + drained.mbd]
        /\ times' = IF exiting \/ times = 0 THEN times ELSE times - 1
        /\ phase' = IF LastRow THEN "cleanup" ELSE "sleep"
        /\ UNCHANGED err
     \/ /\ "meminfo" \in Faults
        /\ err' = TRUE /\ phase' = "cleanup"
        /\ UNCHANGED <<printed, times>>
  /\ UNCHANGED <<chosen, attached, people, probing, exiting, output>>

\* cleanup and write_output_json.
WritesEvenOnError == TRUE
Writes == ~err
Cleanup ==
  /\ phase = "cleanup" /\ phase' = "done"
  /\ \/ /\ Writes
        /\ output' = [hits |-> total_hits, misses |-> total_misses, dirties |-> total_dirties]
        /\ UNCHANGED err
     \/ /\ Writes /\ Faults \cap {"meminfo", "output"} # {}
        /\ err' = TRUE /\ UNCHANGED output
     \/ ~Writes /\ UNCHANGED <<err, output>>
  /\ attached' = {}
  /\ UNCHANGED <<chosen, people, probing, exiting, times, drained, sums, printed>>

Drains ==
  \/ Drain("total", "sleep", "misses")
  \/ Drain("misses", "misses", "mbd")
  \/ Drain("mbd", "mbd", "row")

Done == phase = "done" /\ (\A p \in Processes : todo[p] = <<>>) /\ UNCHANGED vars

Main == Load \/ (\E p \in loaded : Attach(p)) \/ Drains \/ Row \/ Cleanup

Next ==
  \/ Main
  \/ \E p \in Processes, e \in Events : Happens(p, e)
  \/ \E p \in Processes : Add(p)
  \/ \E p, c \in Processes : Fork(p, c)
  \/ Interrupt
  \/ Done

\* main is a process the kernel keeps scheduling.
Spec == Init /\ [][Next]_vars /\ WF_vars(Main)

-----------------------------------------------------------------------------
(* Properties. *)

\* main keeps kprobe_folio_account_dirtied beside the fentry program.
DirtiedTwice(k) ==
  FentryCanAttach(k, "folio_account_dirtied") /\ KprobeExists(k, "folio_account_dirtied")

\* Whichever of the old and new names a kernel has, once main reports every
\* page cache event is counted by exactly one program: main leaves one
\* program per event ("Handle add_to_page_cache_lru vs folio_add_lru").  There
\* is one exception: where folio_account_dirtied can be traced both ways, two
\* programs count a page that is dirtied, for main takes out the kprobe of the
\* old name only.
CountedOnce ==
  phase \in {"sleep", "misses", "mbd", "row"} =>
    \A e \in Events :
      Cardinality(Fired(e)) = IF e = "dirtied" /\ DirtiedTwice(kernel) THEN 2 ELSE 1

\* The reporter takes three counters one after the other while programs add
\* to them, and puts negative ones to 0: the sums never report more accesses,
\* misses or dirties than there were.
ReportedWithinEvents ==
  /\ total_hits + total_misses <= seen.accessed
  /\ total_misses <= seen.missed
  /\ total_dirties <= seen.buffer_dirtied

\* No mark_buffer_dirty is lost between two rows: as long as every process
\* of the family is in the map, the sum, the row being made, the counter and
\* the adds still to come are all that happened.
DirtiesConserved ==
  LET coming(p) == Len(SelectSeq(todo[p], LAMBDA a : a[1] = "mbd"))
  IN  family \subseteq pids_to_consider =>
        total_dirties + drained.mbd + counter.mbd
          + FoldSet(LAMBDA p, n : n + coming(p), 0, Processes) = seen.buffer_dirtied

\* The JSON file holds what the rows printed add up to, whatever failed in
\* between: a row that was summed up but not printed leaves no file.
JsonIsSumOfRows == output # NULL => output = printed

\* Ctrl-C ends the program: exiting is looked at after every row.
InterruptEnds == exiting ~> phase = "done"

=============================================================================
