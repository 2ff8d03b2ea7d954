SPECIFICATION Spec
CONSTANTS
  c1 = c1  c2 = c2  p1 = p1  p2 = p2
  None = None
  Calls = {c1, c2}
  Plugins = {p1, p2}
  Env = {"error", "panic", "handler"}
SYMMETRY Symmetry
INVARIANTS OneChain HooksMirrored HooksSeeOutcome
CHECK_DEADLOCK FALSE
