CONSTANTS
  Threads = {t1, t2}
  Readers = {}
  Paths = {p1}
  Contents = {c1, c2}
  Hashes <- MCHashes
  HashOf <- MCHashOf
  InfoIds = {m1, m2, m3, m4}
  NULL = NULL
  MaxBlocks = 2
  MaxRequests = 3
  Payloads <- DistinctPairs
  WithRemoval = TRUE
  WithHoles = TRUE
  WithIOError = TRUE
  WithRemount = FALSE
  SerialPaths = FALSE
SPECIFICATION Spec
SYMMETRY Symmetry
INVARIANTS
  RefcountExact
  OneOwnerPerSlot
PROPERTIES
  ImplementsFileStore
