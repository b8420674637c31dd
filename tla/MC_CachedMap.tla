---------------------------- MODULE MC_CachedMap ----------------------------
\* Keys and promises are interchangeable.
EXTENDS CachedMap, TLC
Symmetry == Permutations(Promise) \cup Permutations(Key)
=============================================================================
