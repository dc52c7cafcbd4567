----------------------------- MODULE MCCrmConfig -----------------------------
EXTENDS CrmConfig, TLC
CONSTANTS q1, q2, q3, r1, r2
Symmetry == Permutations({q1, q2, q3})
=============================================================================
