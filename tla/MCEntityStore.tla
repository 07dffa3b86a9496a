--------------------------- MODULE MCEntityStore ---------------------------
EXTENDS EntityStore, TLC
Symmetry == Permutations(Apps) \cup Permutations(Entities)
              \cup Permutations(Names) \cup Permutations(Data)
              \cup Permutations(Threads)
=============================================================================
