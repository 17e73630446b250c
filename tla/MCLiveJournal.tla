--------------------------- MODULE MCLiveJournal ---------------------------
EXTENDS LiveJournal, TLC

CONSTANTS p1, p2, p3, k1, k2

Symmetric == Permutations(Programs) \cup Permutations(Keys)
=============================================================================
