CONSTANTS
  Procs = {p1, p2}
  Tokens = {t1, t2}
  Users = {u1}
  MaxVersion = 1
  NoProc = NoProc
  NoToken = NoToken
  NoUser = NoUser
SPECIFICATION FairSpec
PROPERTIES
  EveryRequestEnds
  SessionSpec
