SPECIFICATION Spec
CONSTANTS
  MaxLength = 12
  MaxSize = 6
INVARIANTS PhraseKept ChunksAreUseful
CHECK_DEADLOCK FALSE
