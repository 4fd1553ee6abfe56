SPECIFICATION NodeSpec
CONSTANTS
  c1 = c1
  c2 = c2
  h0 = h0
  h1 = h1
  p0 = p0
  p1 = p1
  Threads = {t1, t2}
  Callers = {c1}
  Owner = owner
  Parked = parked
  Hosts = {h0, h1}
  Ports = {p0, p1}
  Settings <- MCSettings
  MaxGeneration = 1
INVARIANT WholeUrl
