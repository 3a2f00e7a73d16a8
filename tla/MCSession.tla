----------------------------- MODULE MCSession -----------------------------
\* Session with two interchangeable ROMs.
EXTENDS Session, TLC

Symmetry == Permutations(Roms)
=============================================================================
