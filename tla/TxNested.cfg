SPECIFICATION Spec
CONSTANTS
  p1 = p1  p2 = p2  t0 = t0  t1 = t1  t2 = t2  t3 = t3
  None = None
  Procs = {p1}
  Txs = {t0, t1, t2, t3}
  Root = t0
  InnermostOnly = TRUE
  Env = {"stmt", "cancel"}
  MaxWrites = 2
INVARIANTS RolledBackNeverDurable
PROPERTIES OuterUnaffected ImplementsTxTree
CHECK_DEADLOCK FALSE
