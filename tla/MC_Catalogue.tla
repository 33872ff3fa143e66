---------------------------- MODULE MC_Catalogue ----------------------------
EXTENDS Catalogue

CONSTANTS r1, r2, i1

MC_Reqs == {r1, r2}
MC_Ids == {i1}
MC_Skips == {0, 1}
MC_Pages == {1, 2}
MC_Limits == {1}

=============================================================================
