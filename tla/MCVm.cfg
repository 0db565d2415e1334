CONSTANTS
  HEAP_SIZE = 10
  STRING_POOL_SLOTS = 1
  HEADER_SIZE = 1
  RC_MAX = 30
  SLOTS_OFF = 0
  SLOT_BYTES = 1
  ARRAY_INIT_CAPACITY = 2
  VM_STACK_SLOTS = 4
  VM_CALL_FRAMES = 2
  ConcatMax = 2
  INT_MOD = 8
  MaxFaults = 1
  GlobalNames <- MC_GlobalNames
  Arena <- MC_Arena
  FuncStart <- MC_FuncStart
  ParamCount <- MC_ParamCount
  Lines <- SessionLines
  Scripts <- MC_Scripts
  Inputs <- MC_Inputs
SPECIFICATION Spec
INVARIANTS TypeOK NoDangling NoLeak LineBalanced
PROPERTIES StringsKeepTheirText LinesEnd
