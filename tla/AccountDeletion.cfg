CONSTANTS
  Users = {u1}
  Tokens = {1, 2, 3}
  Apps = {a1}
  Entities = {e1}
  Procs = {p1, p2}
  None = None
SPECIFICATION Spec
INVARIANT
  TypeOK
PROPERTIES
  AllOrNothing
  UndisturbedSucceeds
  DeletionEnds
CHECK_DEADLOCK FALSE
