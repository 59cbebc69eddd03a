------------------------------ MODULE MCSession -----------------------------
EXTENDS Session, TLC
CONSTANTS a, b
MCIds == {a, b}
Symmetry == Permutations(MCIds)
=============================================================================
