SPECIFICATION WindowSpec
CONSTANTS
  Addresses = {i1}
  Ports = {p1, p2}
  Forwarded = {}
  NoHeader = NoHeader
  Requests = {q1, q2}
  Lims = {l1, l2}
  NoKey = NoKey
  NoLim = NoLim
  Burst = 1
  TTL = 3
  Delay = 1
  MaxTime = 6
SYMMETRY Symmetry
INVARIANTS EachIP
