CONSTANTS
  BufferSize = 3
  MaxElems = 2
  MaxPath = 2
  Lists <- MCLists
SPECIFICATION Spec
INVARIANTS
  FileThenBuffer
  FillWithinBuffer
  LoadsAPrefix
PROPERTY
  RoundTrip
