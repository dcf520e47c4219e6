-------------------------- MODULE MCSessionHandoff --------------------------
EXTENDS SessionHandoff, TLC

\* Clients, panes and launches are told apart by what happens to them only.
HandoffSymmetry ==
  Permutations(Clients) \union Permutations(Panes) \union Permutations(Launches)
=============================================================================
