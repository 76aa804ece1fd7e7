CONSTANTS
  Procs = {p, q}
  Codes = {k1, k2}
  Configs = {"O2"}
  None = None
SPECIFICATION Spec
CHECK_DEADLOCK TRUE
INVARIANTS RightBinary
PROPERTIES NotCompiledTwice
