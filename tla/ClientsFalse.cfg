SPECIFICATION Spec
CONSTANTS
  c1 = c1
  c2 = c2
  h0 = h0
  h1 = h1
  p0 = p0
  p1 = p1
  Threads = {t1}
  Callers = {c1}
  Owner = owner
  Parked = parked
  Hosts = {h0, h1}
  Ports = {p0, p1}
  Settings <- MCSettings
  MaxGeneration = 0
  Ops = {"isNodeRunning"}
  Pollers = {}
  Faults = {"cancel"}
  NoUrl = noUrl
  EngineTimeout = 1
  RequestTimeout = 1
  AgeBound = 1
INVARIANT FalseIsAboutTheNode
