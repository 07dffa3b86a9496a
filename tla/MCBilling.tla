----------------------------- MODULE MCBilling -----------------------------
EXTENDS Billing, TLC
Symmetry ==
  Permutations(Loops) \cup Permutations(Threads) \cup Permutations(Customers)
    \cup Permutations(Passwords)
=============================================================================
