SPECIFICATION Spec
CONSTANTS
  Byte = {0, 1}
  Zero = 0
  FILE_BC_SIZE = 2
  AUX_BC_MAX = 4
  SWB_CHUNK = 2
  BC_STAGE_CHUNK = 2
  BC_WINDOW = 3
INVARIANTS
  TypeOK
  Resident
  FetchesProgram
PROPERTY
  KeepsCode
CHECK_DEADLOCK FALSE
