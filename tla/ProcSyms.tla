------------------------------ MODULE ProcSyms ------------------------------
(***************************************************************************)
(* The symbols of processes of trace_helpers.c: syms_cache__get_syms reads *)
(* /proc/<pid>/maps once per process, syms__find_dso finds the file mapped *)
(* at an address, and dso__find_sym reads that file's symbols the first    *)
(* time it is asked and searches them.                                     *)
(*                                                                         *)
(* A name of a symbol is a number, ordered as strcmp orders names.  The    *)
(* part of an ELF file that is read is a record: its type, sh_addr -       *)
(* sh_offset of .text or NULL when it has none, and its symbols in order.  *)
(* What is read from a dso whose fields were freed is anything at all.     *)
(***************************************************************************)
EXTENDS Integers, Sequences, FiniteSets, SequencesExt, AddressSearch

CONSTANTS
  Tgids,
  MapFiles,         \* contents of /proc/<pid>/maps, sequences of lines
  Elf,              \* per name in maps: the file
  Addrs,            \* the addresses looked up
  NULL,
  MaxExecs          \* bound: changes of a process's maps

VARIABLES
  maps,             \* per process: /proc/<pid>/maps, NULL when it is gone
  execs,            \* how often maps changed
  cache,            \* struct syms_cache: the entries [tgid, syms]
  answer,           \* the last lookup and its sym_info
  loaded_maps       \* history: per process, maps as the cache read them

vars == <<maps, execs, cache, answer, loaded_maps>>

Init ==
  /\ maps \in [Tgids -> MapFiles]
  /\ execs = 0 /\ cache = <<>> /\ answer = NULL
  /\ loaded_maps = [t \in Tgids |-> NULL]

-----------------------------------------------------------------------------
(* Loading. *)

\* syms__load_file skips the lines without x and those is_file_backed refuses.
Wanted(line) == line.x /\ line.backed

RangeOf(line) == [start |-> line.start, end |-> line.end, file_off |-> line.file_off]

\* syms__add_dso: a file that is mapped again gets another range.
AddDso(dsos, line) ==
  LET known == {i \in DOMAIN dsos : dsos[i].name = line.name}
  IN  IF known = {}
      THEN Append(dsos, [name |-> line.name, ranges |-> <<RangeOf(line)>>, syms |-> NULL, freed |-> FALSE])
      ELSE [i \in DOMAIN dsos |->
              IF i \in known THEN [dsos[i] EXCEPT !.ranges = Append(@, RangeOf(line))] ELSE dsos[i]]

\* A shared object without .text makes the whole load fail.
LoadFile(file) ==
  LET lines == SelectSeq(file, Wanted)
  IN  IF \E i \in DOMAIN lines : Elf[lines[i].name].type = "DYN" /\ Elf[lines[i].name].text = NULL
      THEN NULL ELSE FoldLeft(AddDso, <<>>, lines)

LoadPid(tgid) == IF maps[tgid] = NULL THEN NULL ELSE LoadFile(maps[tgid])

\* syms_cache__get_syms: the cache with an entry for the process.
AlwaysLoaded(tgid) == SelectSeq(cache, LAMBDA e : e.tgid # tgid) \o <<[tgid |-> tgid, syms |-> LoadPid(tgid)]>>
GetSyms(tgid) ==
  IF \E i \in DOMAIN cache : cache[i].tgid = tgid THEN cache
  ELSE Append(cache, [tgid |-> tgid, syms |-> LoadPid(tgid)])

Entry(c, tgid) == CHOOSE i \in DOMAIN c : c[i].tgid = tgid

-----------------------------------------------------------------------------
(* Looking up. *)

\* The condition both ends of a range are excluded by.
Within(addr, range) == range.start < addr /\ addr < range.end

\* syms__find_dso: the first dso with a range around the address.  The ranges
\* of one that was freed may be taken for such or not.
Around(dso, addr) == \E r \in ToSet(dso.ranges) : Within(addr, r)
FindDso(dsos, addr) ==
  {i \in DOMAIN dsos : /\ dsos[i].freed \/ Around(dsos[i], addr)
                       /\ \A k \in 1 .. (i - 1) : ~Around(dsos[k], addr)}
FindsNone(dsos, addr) == \A i \in DOMAIN dsos : ~Around(dsos[i], addr)

\* The offset it returns, from the first such range.
Offset(dso, addr) ==
  LET r == Head(SelectSeq(dso.ranges, LAMBDA range : Within(addr, range)))
  IN  CASE Elf[dso.name].type = "DYN" -> addr - r.start + r.file_off + Elf[dso.name].text
        [] Elf[dso.name].type = "VDSO" -> addr - r.start + r.file_off
        [] OTHER -> addr

\* sym_cmp.
SymBefore(s1, s2) == s1.start < s2.start \/ (s1.start = s2.start /\ s1.name < s2.name)

\* dso__load_sym_table and dso__load_sym_table_from_elf: symbols with a value,
\* sorted; an array that stays empty is still NULL.  UNKNOWN files have none.
LoadSymTable(name) ==
  LET table == SortSeq(SelectSeq(Elf[name].symbols, LAMBDA s : s.start # 0), SymBefore)
  IN  IF Elf[name].type = "UNKNOWN" \/ table = <<>> THEN NULL ELSE table

\* dso__find_sym on a loaded table.
NoSizeCheck(table, offset) ==
  {table[i] : i \in Search([i \in DOMAIN table |-> table[i].start], offset)}
FindSym(table, offset) ==
  {table[i] : i \in {i \in Search([i \in DOMAIN table |-> table[i].start], offset) :
                       offset < table[i].start + table[i].size}}

\* dso__free_fields clears nothing: the dso stays where it is.
FreedDso == [name |-> NULL, ranges |-> <<>>, syms |-> NULL, freed |-> TRUE]
Anything == [dso |-> NULL, offset |-> NULL, load |-> "freed", sym |-> {}]

\* What becomes of a dso when its symbols are asked for: they are read, the
\* file is not opened, or dso__add_syms fails and the fields are freed.
AfterLoad(dso, load) ==
  IF dso.syms # NULL \/ load = "unopened" THEN dso
  ELSE IF load = "read" THEN [dso EXCEPT !.syms = LoadSymTable(dso.name)] ELSE FreedDso

Loads(dso) ==
  {"read", "unopened"} \cup (IF dso.syms = NULL /\ Elf[dso.name].type # "UNKNOWN" THEN {"failed"} ELSE {})

\* syms__map_addr_dso in a dso: the dso, the offset, and the symbol if there is
\* one.  The name was taken before the fields were freed.
InfoOf(dso, addr, load) ==
  LET after == AfterLoad(dso, load) IN
  IF after.freed THEN Anything
  ELSE [dso |-> dso.name, offset |-> Offset(dso, addr), load |-> load,
        sym |-> IF after.syms = NULL THEN {} ELSE FindSym(after.syms, Offset(dso, addr))]

\* syms__map_addr_dso on the syms of syms_cache__get_syms; the result is NULL
\* when there is no dso.
Lookup(tgid, addr) ==
  LET c == GetSyms(tgid)
      e == Entry(c, tgid)
      dsos == IF c[e].syms = NULL THEN <<>> ELSE c[e].syms
      Answer(result) == answer' = [tgid |-> tgid, addr |-> addr, info |-> result]
  IN  /\ loaded_maps' = IF c = cache THEN loaded_maps ELSE [loaded_maps EXCEPT ![tgid] = maps[tgid]]
      /\ \/ /\ FindsNone(dsos, addr)
            /\ cache' = c /\ Answer(NULL)
         \/ \E d \in FindDso(dsos, addr) :
              IF dsos[d].freed THEN cache' = c /\ Answer(Anything)
              ELSE \E load \in Loads(dsos[d]) :
                     /\ cache' = [c EXCEPT ![e].syms[d] = AfterLoad(@, load)]
                     /\ Answer(InfoOf(dsos[d], addr, load))
      /\ UNCHANGED <<maps, execs>>

\* The process execs, maps a library, or exits.
Exec(tgid, file) ==
  /\ execs < MaxExecs /\ maps[tgid] # NULL /\ file # maps[tgid]
  /\ execs' = execs + 1
  /\ maps' = [maps EXCEPT ![tgid] = file]
  /\ UNCHANGED <<cache, answer, loaded_maps>>

Next ==
  \/ \E t \in Tgids, a \in Addrs : Lookup(t, a)
  \/ \E t \in Tgids, f \in MapFiles \cup {NULL} : Exec(t, f)

Spec == Init /\ [][Next]_vars

-----------------------------------------------------------------------------
(* Properties. *)

\* Where a file's first loaded byte of a range is, in terms of its symbols.
Bias(line) ==
  IF Elf[line.name].type = "UNKNOWN" \/ Elf[line.name].type = "EXEC" THEN 0
  ELSE line.file_off - line.start + (IF Elf[line.name].type = "DYN" THEN Elf[line.name].text ELSE 0)

\* An answer names a symbol of the file that is mapped at the address in the
\* maps the cache read, the address lies in that symbol, and no other symbol
\* of the file starts between; and it names none only if there is none such,
\* or the file could not be read (syms__map_addr_dso).  The exception is an
\* answer out of a dso whose symbols could not be added: then, and only then,
\* it points into freed memory.
AnswersRight ==
  answer # NULL /\ answer.info # NULL =>
    LET file == loaded_maps[answer.tgid]
        Starts(n, line) == {s \in ToSet(Elf[n].symbols) : s.start # 0 /\ s.start - Bias(line) <= answer.addr}
        Nearest(n, line) == {s \in Starts(n, line) : \A t \in Starts(n, line) : s = t \/ SymBefore(t, s)}
    IN  \/ /\ answer.info = Anything
           /\ \E e \in ToSet(cache) : e.tgid = answer.tgid /\ \E d \in ToSet(e.syms) : d.freed
        \/ \E i \in DOMAIN file :
             LET line == file[i]
                 right == {s \in Nearest(line.name, line) : answer.addr < s.start - Bias(line) + s.size}
             IN  /\ Wanted(line) /\ Within(answer.addr, line) /\ answer.info.dso = line.name
                 /\ \/ answer.info.sym = right /\ Elf[line.name].type # "UNKNOWN"
                    \/ /\ answer.info.sym = {}
                       /\ answer.info.load = "unopened" \/ Elf[line.name].type = "UNKNOWN"

\* A process is read once, and a file's symbols once: later lookups, of
\* whichever process, and changes of the process's maps alter neither the
\* file an address is attributed to nor a table that symbols were handed out
\* of (syms_cache__get_syms, dso__find_sym).  The exception is a load that
\* fails in dso__add_syms, which frees the dso for good; no symbol of that dso
\* was handed out before.
CacheKept ==
  \A e \in ToSet(cache) : \E f \in ToSet(cache') :
    /\ f.tgid = e.tgid
    /\ (f.syms = NULL) = (e.syms = NULL)
    /\ e.syms # NULL =>
         /\ DOMAIN f.syms = DOMAIN e.syms
         /\ \A d \in DOMAIN e.syms :
              \/ f.syms[d] = FreedDso /\ e.syms[d].syms = NULL
              \/ /\ f.syms[d] = [e.syms[d] EXCEPT !.syms = f.syms[d].syms]
                 /\ e.syms[d].syms \in {NULL, f.syms[d].syms}

=============================================================================
