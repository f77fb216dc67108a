----------------------------- MODULE MCStream ------------------------------
EXTENDS Stream, TLC

Symmetry == Permutations(Bufs) \cup Permutations(Workers)

=============================================================================
