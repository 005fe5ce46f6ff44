----------------------------- MODULE MCBufCache -----------------------------
EXTENDS BufCache, TLC
Symm == Permutations(Users) \cup Permutations(Bufs)
          \cup Permutations(Blocks) \cup Permutations(Vals)
=============================================================================
