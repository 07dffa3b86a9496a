CONSTANTS
  Procs = {p1, p2}
  Tokens = {t1, t2, t3}
  Users = {u1}
  MaxVersion = 1
  NoProc = NoProc
  NoToken = NoToken
  NoUser = NoUser
SPECIFICATION Spec
SYMMETRY Symmetry
INVARIANTS
  TypeOK
  FamilyUniform
  NoHoldAndWait
  SingleLive
  OneSuccessor
PROPERTIES
  BumpIsFinal
  EndedStaysEnded
  ReplayMissesOnlyRotated
