SPECIFICATION Spec
CONSTANTS
  Files <- MCFiles
  Swift <- MCSwift
  InitialDisks <- MCDisks
  Keys <- MCKeys
  Cap = 5
  LINE_MAX = 5
  ED_PAGE_LINES = 2
  MaxEvents = 2
INVARIANTS
  TypeOK
  CleanIsSaved
  ResaveIsStable
PROPERTY
  ResumeKeepsPlace
CHECK_DEADLOCK FALSE
