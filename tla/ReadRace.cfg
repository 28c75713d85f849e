CONSTANTS
  Threads = {t1}
  Readers = {r1}
  Paths = {p1, p2}
  Contents = {c1, c2, c3}
  Hashes <- MCHashes
  HashOf <- MCHashOf
  InfoIds = {m1, m2, m3, m4}
  NULL = NULL
  MaxBlocks = 1
  MaxRequests = 4
  Payloads <- OneBlock
  WithRemoval = TRUE
  WithHoles = FALSE
  WithIOError = FALSE
  WithRemount = FALSE
  SerialPaths = TRUE
SPECIFICATION ReadSpec
SYMMETRY Symmetry
INVARIANTS
  ReadsWhatWasThere
