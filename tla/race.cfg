SPECIFICATION Spec
CONSTANTS
  Sessions = {s1, s2}
  s1 = s1
  s2 = s2
  Clearers = {}
  ErrorDepth = 2
  MaxErrors = 2
INVARIANT OpcSet
