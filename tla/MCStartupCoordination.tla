----------------------- MODULE MCStartupCoordination -----------------------
EXTENDS StartupCoordination, TLC

\* Clients, configs and the gateways clients start are interchangeable.
Symmetry ==
  Permutations(Clients) \cup Permutations(Gateways \ ByHand) \cup Permutations(Configs)
=============================================================================
