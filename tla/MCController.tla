----------------------------- MODULE MCController -----------------------------
EXTENDS Controller, TLC

Symmetry == Permutations(Handlers)
===============================================================================
