------------------------- MODULE MCSessionLifecycle -------------------------
EXTENDS SessionLifecycle, TLC

\* Removals are alike: no definition tells one from another.
RemovalSymmetry == Permutations(Killers)

=============================================================================
