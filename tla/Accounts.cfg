CONSTANTS
  Users = {u1, u2}
  AdminDomain = {u2}
  SuperUser = u1
  Procs = {p1, p2}
SPECIFICATION Spec
SYMMETRY Symmetry
PROPERTIES
  AdminRemains
  ActiveChangesOnRequest
  DeletedStaysDeleted
  DemotionSticks
