CONSTANTS
  WBUF = 2
  RBUF = 2
  MaxCall = 3
  MaxWrote = 3
  MaxSent = 4
SPECIFICATION FairSpec
INVARIANTS
  WritesAccounted
  ReadsInOrder
  ReadIsContiguous
PROPERTIES
  CallsReturn
  ImplementsLink
