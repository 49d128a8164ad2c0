---------------------------- MODULE MCReconciler ----------------------------
(***************************************************************************)
(* Reconciler for TLC: the specs whose gates differ.                       *)
(***************************************************************************)
EXTENDS Reconciler

Live == [enabled |-> TRUE, dryRun |-> FALSE, breaker |-> TRUE, windows |-> TRUE,
         hpa |-> "Skip", pdb |-> "Respect"]

\* A live config with every gate; the user may switch it off, to a dry run,
\* or to one that checks nothing it can leave out.
MCSpecs ==
    {Live,
     [Live EXCEPT !.enabled = FALSE],
     [Live EXCEPT !.dryRun = TRUE],
     [Live EXCEPT !.breaker = FALSE, !.hpa = "Warn", !.pdb = "Ignore"]}

\* A config that is live at any time.
AlwaysOpenSpecs == {[Live EXCEPT !.windows = FALSE]}
=============================================================================
