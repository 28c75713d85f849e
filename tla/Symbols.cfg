CONSTANTS
  Names = {1, 2, 3}
  Length <- LengthOf
  Addrs = {0, 1, 2}
  MinCap = 3
  MaxLines = 4
  Tgids = {t1, t2}
  MapFiles <- SomeMaps
  Elf <- Files
  ProcAddrs = {4, 7, 11, 18, 19, 22}
  NULL = NULL
  MaxExecs = 1
SYMMETRY TgidSymmetry
SPECIFICATION SymbolsSpec
INVARIANTS
  WithinCapacity
  LookupsRight
  AnswersRight
PROPERTY
  AnswersStay
