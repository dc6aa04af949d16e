SPECIFICATION SmpFairSpec
CONSTANTS
  NumCores = 2
  Takers = {1, 2}
  Stealers = {2}
  DriverCores = {1}
  f1 = f1
  f2 = f2
  i1 = i1
  Intents = {}
  Fibers = {f1, f2}
  Placed = {f2}
  Timed = {f2}
  Devices = {}
  Signallers = {s1}
  None = None
  Parts = {"fibers", "par"}
  N = 3
  Workers = 2
  Publishers = {o, q}
  Panels = {p}
  NumSlots = 2
  Values = {x, y}
  MAX_ITEMS = 1
  Nobody = Nobody

PROPERTIES SignalledRuns AppTaken ForEachReturns
