------------------------ MODULE MCDownstreamRecovery ------------------------
EXTENDS DownstreamRecovery, TLC

\* Servers and versions are interchangeable: no action or property names one.
Symmetry == Permutations(Servers) \cup Permutations(Versions)
=============================================================================
