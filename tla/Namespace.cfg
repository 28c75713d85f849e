CONSTANTS
  dir1 = dir1
  dir2 = dir2
  leaf = leaf
  hid = hid
  Components <- AllComponents
  Names <- TwoDirectories
  Hidden <- HiddenInEach
  Handles = {h1, h2}
  Contents = {c1, c2}
  NULL = NULL
  BlockSize = 2
  MaxBlocks = 2
  MaxInodes = 2
  MaxOdd = 1
SPECIFICATION Spec
SYMMETRY Symmetry
INVARIANTS
  ContentPreserved
  ReportedSizeTrue
  DeletedFilesCleaned
  ReadsEndBeforeEOF
