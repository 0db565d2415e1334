CONSTANTS
  Letters = {"a", "e", "f", "i", "l", "s"}
  Keywords <- MCKeywords
  Cap = 18
  Files <- MCFiles
CHECK_DEADLOCK FALSE
SPECIFICATION Spec
INVARIANTS
  TypeOK
  AcceptedIsWhole
  HalfWindowIsEnough
  LinesCountOn
PROPERTY IsReader
