------------------------------ MODULE MCLogRow ------------------------------
EXTENDS LogRow, TLC

CONSTANTS r1, r2
MCRequests == {r1, r2}

\* Requests differ in nothing but their name.
Symmetry == Permutations(MCRequests)
=============================================================================
