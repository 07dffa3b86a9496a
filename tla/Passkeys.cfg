CONSTANTS
  Challenges = {c1, c2, c3}
  Keys = {k1, k2}
  Threads = {h1, h2}
  MaxCount = 2
  None = None
SPECIFICATION Spec
SYMMETRY Symmetry
INVARIANT
  CeremoniesInv
PROPERTIES
  ChallengesAreOneTime
  DiscoverableIsIndependent
