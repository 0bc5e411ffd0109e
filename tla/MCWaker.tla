------------------------------ MODULE MCWaker ------------------------------
\* Symmetry of the waker's requests and sweeps, for the runs that check safety only.
EXTENDS Waker, TLC
RequestSymmetry == Permutations(Requests)
=============================================================================
