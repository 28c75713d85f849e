CONSTANTS
  Threads = {t1}
  Readers = {}
  Paths = {p1, p2}
  Contents = {c1, c2}
  Hashes <- MCHashes
  HashOf <- MCHashOf
  InfoIds = {m1, m2, m3, m4}
  NULL = NULL
  MaxBlocks = 1
  MaxRequests = 3
  Payloads <- OneBlock
  WithRemoval = TRUE
  WithHoles = FALSE
  WithIOError = FALSE
  WithRemount = FALSE
  SerialPaths = TRUE
  MaxMounts = 3
  MaxFaults = 2
  FailingOpens <- AllOpens
SPECIFICATION TSpec
SYMMETRY Symmetry
INVARIANTS
  ConsistentAcrossMounts
  MappingsTrue
  AppendsPastTheIndex
PROPERTY MountRestores
