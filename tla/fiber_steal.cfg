SPECIFICATION SmpSpec
CONSTANTS
  NumCores = 2
  Takers = {1, 2}
  Stealers = {1, 2}
  DriverCores = {}
  f1 = f1
  f2 = f2
  i1 = i1
  Intents = {i1}
  Fibers = {f1, f2}
  Placed = {}
  Timed = {}
  Devices = {1}
  Signallers = {s1}
  None = None
  Parts = {"fibers", "par", "topics"}
  N = 3
  Workers = 2
  Publishers = {o, q}
  Panels = {p}
  NumSlots = 2
  Values = {x, y}
  MAX_ITEMS = 1
  Nobody = Nobody
SYMMETRY SmpSymmetry
INVARIANTS
    SmpTypeOK
    FibersAccounted
    NoLostWakeup
    NoStrandedTask
    ClosureSafe
    PanelCurrent
    EndsWithFiber
PROPERTIES
    PinnedStays
    KeepsPromise
