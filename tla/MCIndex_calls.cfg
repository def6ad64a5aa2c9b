CONSTANTS
  Files <- MCFiles
SPECIFICATION Spec
INVARIANTS TreeIsBalanced BlocksHaveOnePlace ReadsInOrder
PROPERTIES IsKeyList
CHECK_DEADLOCK FALSE
