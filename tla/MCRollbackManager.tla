-------------------------- MODULE MCRollbackManager --------------------------
(* RollbackManager for TLC: the bounds are in the .cfg files of the runs. *)
EXTENDS RollbackManager, TLC

\* Nothing orders keys, requests or workers.
Symmetry == Permutations(Keys) \cup Permutations(Requests) \cup Permutations(Workers)
=============================================================================
