SPECIFICATION FairSpec
CONSTANTS
  c1 = c1  c2 = c2  c3 = c3  c4 = c4
  k1 = k1  k2 = k2  n1 = n1  n2 = n2
  None = None
  Calls = {c1, c2, c3}
  Keys = {k1, k2}
  Namespaces = {n1, n2}
  NS <- MCNS
  MultiRow = {k1, k2}
  Requests <- TwoKeyRequests
  Singleflight = TRUE
  InvalidateOnWrite = FALSE
  Env = {"bind", "before", "query", "scan", "encode", "store", "forget", "api"}
INVARIANTS NoLostWakeup NoOrphanFlight AnswersComplete
PROPERTIES OnlyOwnerReleases ImplementsSingleLoader EveryReadReturns
