-------------------------- MODULE MCSignalManager --------------------------
(* SignalManager for TLC: requests and launches are interchangeable.        *)
EXTENDS SignalManager, TLC

Symmetry == Permutations(Handlers) \cup Permutations(Launches)
============================================================================
