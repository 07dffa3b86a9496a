CONSTANTS
  Loops = {l1}
  Threads = {h1, h2}
  Customers = {c1, c2}
  NoEmail = {}
  Passwords = {s1, s2}
  MaxPeriods = 1
  MaxTokens = 1
  NoCustomer = NoCustomer
SPECIFICATION Spec
SYMMETRY Symmetry
INVARIANTS
  AccountInv
  AckedHasAccount
PROPERTIES
  ChosenPasswordStays
  RedeliveryHarmless
