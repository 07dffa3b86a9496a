CONSTANTS
  Apps = {a1, a2}
  Entities = {e1, e2}
  Names = {n1, n2}
  Data = {d1}
  Threads = {t1, t2}
  MaxOps = 2
  Null = Null
  None = None
SPECIFICATION Spec
SYMMETRY Symmetry
INVARIANT
  TypeOK
PROPERTIES
  AppIsolation
  DeletedStaysDeleted
  TornOnlyByDeletion
CHECK_DEADLOCK FALSE
