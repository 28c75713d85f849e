CONSTANTS
  Threads = {t1}
  Readers = {r1}
  Paths = {p1, p2}
  Contents = {c1, c2}
  Hashes <- MCHashes
  HashOf <- MCHashOf
  InfoIds = {m1, m2, m3, m4}
  NULL = NULL
  MaxBlocks = 2
  MaxRequests = 4
  Payloads <- AnyPairs
  WithRemoval = TRUE
  WithHoles = FALSE
  WithIOError = TRUE
  WithRemount = FALSE
  SerialPaths = TRUE
SPECIFICATION ReadSpec
SYMMETRY Symmetry
INVARIANTS
  StableBlocksAreRead
  RefcountExact
