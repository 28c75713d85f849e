CONSTANTS
  Threads = {t1, t2}
  Readers = {}
  Paths = {p1, p2}
  Contents = {c1, c2}
  Hashes <- MCHashes
  HashOf <- MCHashOf
  InfoIds = {m1, m2, m3, m4}
  NULL = NULL
  MaxBlocks = 2
  MaxRequests = 4
  Payloads <- DistinctPairs
  WithRemoval = TRUE
  WithHoles = FALSE
  WithIOError = FALSE
  WithRemount = TRUE
  SerialPaths = TRUE
SPECIFICATION Spec
SYMMETRY Symmetry
INVARIANTS
  TypeInv
  MutualExclusion
  RefcountExact
  OneInfoPerHash
  PublishedOnDisk
  OneOwnerPerSlot
  NoDoubleAllocation
  MappedBelowSize
