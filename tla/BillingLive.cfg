CONSTANTS
  Loops = {l1}
  Threads = {h1}
  Customers = {c1, c2}
  NoEmail = {c2}
  Passwords = {s1}
  MaxPeriods = 1
  MaxTokens = 1
  NoCustomer = NoCustomer
SPECIFICATION FairSpec
PROPERTY EveryEventAcked
