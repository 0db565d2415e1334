CONSTANTS
  Bytes = {"a", "b"}
  Cap = 5
  Blank = "a"
SPECIFICATION Spec
INVARIANTS TypeOK ReadersAgree
PROPERTY KeepsText
