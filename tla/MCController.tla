---------------------------- MODULE MCController ----------------------------
(* Controller for TLC: two workers and one config, the bounds in the .cfg. *)
EXTENDS Controller
=============================================================================
