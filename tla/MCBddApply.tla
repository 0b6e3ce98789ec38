----------------------------- MODULE MCBddApply -----------------------------
\* Constants of BddApply for TLC: the order of the variables is not that of their indices.
EXTENDS BddApply

MCOrder == <<2, 3, 1>>
=============================================================================
