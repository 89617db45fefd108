SPECIFICATION FairSpec
CONSTANTS
  Loops = {s1, s2}
  Clearers = {r1}
  Calls = {c1, c2, c3, c4}
  Threads = 2
  None = None
INVARIANTS TypeOK OwnJob
PROPERTIES NoLateStart CoroutinesEnd FunctionsStart
