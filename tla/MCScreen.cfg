SPECIFICATION Spec
CONSTANTS
  WORK_ROWS = 3
  BASE = 3
  COLS = 5
  WIDE = 8
  THIRD = 2
  Cap = 10
  Texts <- MCTexts
  Keys <- MCKeys
  MaxEdits = 2
INVARIANTS
  TypeOK
  ShownIsText
  CursorAtText
  LinesCounted
