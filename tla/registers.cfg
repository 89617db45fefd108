SPECIFICATION Spec
CONSTANTS
  Sessions = {s1, s2}
  s1 = s1
  s2 = s2
  Clearers = {r1}
  ErrorDepth = 2
  MaxErrors = 3
SYMMETRY Symmetry
INVARIANTS TypeOK EventNotLost ReportedOnce ErrorsExact
