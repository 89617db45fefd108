SPECIFICATION Spec
CONSTANTS
  SyncConns = {c1, c2, c3}
  AsyncConns = {a1, a2, a3}
  MaxId = 2
  None = None
SYMMETRY Symmetry
INVARIANTS TypeOK OneChannel TableExact
PROPERTY CorrelatesUnlessReused
