SPECIFICATION Spec
CONSTANTS
  p1 = p1  p2 = p2  t0 = t0  t1 = t1  t2 = t2  t3 = t3
  None = None
  Procs = {p1, p2}
  Txs = {t0, t1, t2}
  Root = t0
  InnermostOnly = FALSE
  Env = {"stmt", "cancel"}
  MaxWrites = 1
INVARIANTS ClosedIsGone EndsOnce
CHECK_DEADLOCK FALSE
