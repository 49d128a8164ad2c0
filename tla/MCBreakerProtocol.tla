------------------------- MODULE MCBreakerProtocol -------------------------
(* BreakerProtocol with the bounds of MCBreakerProtocol.cfg, for TLC. *)
EXTENDS BreakerProtocol
=============================================================================
