SPECIFICATION Spec
CONSTANTS
  Sessions = {s1, s2}
  Workers = {w1, w2}
  Bitfiles = {full, half}
  full = full
  half = half
  ip1 = ip1
  ip2 = ip2
  IpsOf <- MCIpsOf
  Required = {ip1, ip2}
  None = None
SYMMETRY Symmetry
INVARIANTS TypeOK FreshIps LastChangeHolds
