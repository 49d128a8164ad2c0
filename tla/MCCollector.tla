----------------------------- MODULE MCCollector -----------------------------
EXTENDS Collector, TLC

Symmetry == Permutations(Pods)

=============================================================================
