SPECIFICATION Spec
CONSTANTS
  Run = {i1}
INVARIANTS
  NeverATraceback
CHECK_DEADLOCK FALSE
