---------------------------- MODULE MCPluginChain ---------------------------
(* Instances of PluginChain for TLC. *)
EXTENDS PluginChain, TLC

CONSTANTS c1, c2, p1, p2

Symmetry == Permutations(Calls) \cup Permutations(Plugins)
=============================================================================
