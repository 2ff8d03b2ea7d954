SPECIFICATION StoresSpec
CONSTANTS
  k1 = k1  k2 = k2  k3 = k3  v1 = v1  v2 = v2  p1 = p1  s1 = s1  s2 = s2
  None = None
  Keys = {k1, k2, k3}
  Prefixes = {p1}
  Under <- MCUnder
  Vals = {v1, v2}
  Cap = 2
  DefaultTTL = 0
  TTLs <- MCTTLs
  Horizon = 4
  Stores = {s1, s2}
  Prefixed = {s1}
  Names = {k1, k2}
  Globs = {p1}
  Due <- MCUnder
  Matched <- MCUnder
  Nobody = None
  Sweeps = {1, 2}
INVARIANTS TypeOK ListMatchesMap WithinCapacity PrefixIsCleared StoresApart
PROPERTIES EvictsOldest ImplementsTTLMap
