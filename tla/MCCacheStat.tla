---------------------------- MODULE MCCacheStat ----------------------------
(* The kernels CacheStat is checked on. *)
EXTENDS CacheStat

Common == {"mark_buffer_dirty"}
PageNames == Common \cup {"account_page_dirtied", "add_to_page_cache_lru", "mark_page_accessed"}
BothNames == Common \cup {"folio_account_dirtied", "add_to_page_cache_lru", "folio_add_lru",
                          "mark_page_accessed", "folio_mark_accessed"}
InlinedNames == Common \cup {"folio_add_lru", "folio_mark_accessed"}

\* A kernel with BTF for all its functions and a readable list of them.
Kernel(functions, tracepoint, trampolines) ==
  [functions |-> functions, tracepoints |-> {tracepoint}, btf |-> functions,
   trampolines |-> trampolines, blacklist |-> {}, kallsyms |-> functions,
   available_filter_functions |-> functions]

\* The names before folios, in the transition, with fentry and without, and
\* with the accounting inlined so that only a tracepoint is left; a kernel with
\* none of the names of "dirtied", one that only shows kallsyms, and one with a
\* blacklist.
NamedKernels ==
  {Kernel(PageNames, "writeback_dirty_page", TRUE),
   Kernel(BothNames, "writeback_dirty_folio", TRUE),
   Kernel(BothNames, "writeback_dirty_folio", FALSE),
   Kernel(InlinedNames, "writeback_dirty_folio", TRUE),
   Kernel(InlinedNames, "writeback_dirty_page", FALSE),
   Kernel(InlinedNames, "other", TRUE),
   [Kernel(PageNames, "writeback_dirty_page", FALSE) EXCEPT !.available_filter_functions = NULL],
   [Kernel(PageNames, "writeback_dirty_page", FALSE) EXCEPT !.btf = {}, !.blacklist = {"account_page_dirtied"}]}

=============================================================================
