----------------------------- MODULE MCSymbols -----------------------------
(* Kernel names of different lengths; files and maps to look up in. *)
EXTENDS Symbols, TLC

LengthOf(n) == n + 1

Symbol(name, start, size) == [name |-> name, start |-> start, size |-> size]
File(type, text, symbols) == [type |-> type, text |-> text, symbols |-> symbols]
Line(start, end, file_off, name) ==
  [start |-> start, end |-> end, file_off |-> file_off, name |-> name, x |-> TRUE, backed |-> TRUE]

\* Symbols without a value, of one start, of no size, and with a gap behind.
Files ==
  "bin" :> File("EXEC", NULL, <<Symbol(2, 14, 1), Symbol(1, 11, 2)>>) @@
  "lib" :> File("DYN", 1, <<Symbol(1, 0, 9), Symbol(4, 5, 2), Symbol(2, 4, 1),
                           Symbol(3, 5, 1), Symbol(6, 9, 1), Symbol(5, 8, 0)>>) @@
  "vdso" :> File("VDSO", NULL, <<Symbol(1, 1, 2)>>) @@
  "odd" :> File("DYN", NULL, <<Symbol(1, 1, 1)>>) @@
  "deleted" :> File("UNKNOWN", NULL, <<Symbol(1, 4, 9)>>)

MapsBefore == <<Line(10, 16, 0, "bin"), [Line(16, 17, 0, "lib") EXCEPT !.x = FALSE],
                Line(17, 20, 3, "lib"), Line(20, 24, 6, "lib"), [Line(24, 26, 0, "bin") EXCEPT !.backed = FALSE]>>
MapsAfter == <<Line(3, 8, 2, "lib"), Line(8, 10, 0, "vdso"), Line(10, 16, 0, "bin"), Line(16, 20, 0, "deleted")>>
MapsOdd == <<Line(1, 4, 0, "odd"), Line(10, 16, 0, "bin")>>

SomeMaps == {MapsBefore, MapsAfter, MapsOdd}

TgidSymmetry == Permutations(Tgids)

=============================================================================
