SPECIFICATION Spec
CONSTANTS
  c1 = c1  c2 = c2  c3 = c3  c4 = c4
  k1 = k1  k2 = k2  n1 = n1  n2 = n2
  None = None
  Calls = {c1, c2, c3, c4}
  Keys = {k1}
  Namespaces = {n1, n2}
  NS <- MCNS1
  MultiRow = {k1}
  Requests <- OneKeyRequests
  Singleflight = TRUE
  InvalidateOnWrite = FALSE
  Env = {"before", "drop", "inject", "rewrap", "panic", "forget"}
SYMMETRY Symmetry
INVARIANTS OneLoaderPerKey
CHECK_DEADLOCK FALSE
