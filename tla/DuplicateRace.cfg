CONSTANTS
  Threads = {t1, t2}
  Readers = {}
  Paths = {p1, p2}
  Contents = {c1, c2}
  Hashes <- MCHashes
  HashOf <- MCHashOf
  InfoIds = {m1, m2, m3, m4}
  NULL = NULL
  MaxBlocks = 2
  MaxRequests = 3
  Payloads <- AnyPairs
  WithRemoval = TRUE
  WithHoles = FALSE
  WithIOError = FALSE
  WithRemount = FALSE
  SerialPaths = TRUE
SPECIFICATION Spec
SYMMETRY Symmetry
INVARIANTS
  OneInfoPerHash
