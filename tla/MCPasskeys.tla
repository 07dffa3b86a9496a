----------------------------- MODULE MCPasskeys -----------------------------
EXTENDS Passkeys, TLC
Symmetry == Permutations(Challenges) \cup Permutations(Keys)
              \cup Permutations(Threads)
=============================================================================
