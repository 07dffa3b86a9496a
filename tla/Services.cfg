CONSTANTS
  None = None
  Apps = {a1, a2}
  Keys = {k1, k2}
  Tenants = {x, y}
  Requests = {h1, h2}
  MaxRestarts = 1
  Files = {f1, f2, f3}
  MaxFaults = 1
  Dates = {d1, d2}
  Processes = {w1}
  Threads = {h1, h2}
  MaxFails = 1
  MaxBlocked = 2
  Events = {e1, e2}
  Bad = {e2}
  Workers = {h1, h2}
  MaxSends = 2
  MaxLosses = 1
  MaxPresses = 1
  MaxCrashes = 1
SPECIFICATION Spec
SYMMETRY Symmetry
INVARIANTS
  MiddlewareInv
  StorageInv
  AvailabilityInv
  PipelineInv
PROPERTY
  AloneIsAtomic
CHECK_DEADLOCK FALSE
