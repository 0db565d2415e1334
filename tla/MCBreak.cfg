CONSTANTS
  FILE_BC_SIZE = 60
  MAX_LOCALS = 3
  MAX_FUNCS = 2
  LOOPS_MAX_DEPTH = 2
  LOOPS_MAX_BREAKS_LOOP = 1
  VM_CALL_FRAMES = 2
  Literals = {5}
  Params = {0, 1}
  Budgets <- MC_Budgets
  MaxLines = 2
  Avoided <- MC_AllowBreak
SPECIFICATION Spec
INVARIANT DepthAgrees
CHECK_DEADLOCK FALSE
