SPECIFICATION FairSpec
CONSTANTS
  Types = {0, 4, 6}
  Chunks = 3
  FastSize = 2
  MaxLines = 3
  MaxWrites = 2
  SemMax = 1
CONSTRAINT Untorn
INVARIANTS TypeOK DrawnLocked NotLapped
PROPERTIES InOrder WritesInOrder ThreadsGoOn
