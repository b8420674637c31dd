------------------------------- MODULE MC_LRU -------------------------------
EXTENDS LRU, TLC

\* Keys are interchangeable, and so are the identities of writes.
LRUSymmetry == Permutations(Key) \cup Permutations(Write)
=============================================================================
