-------------------------- MODULE MCAttestLimiter --------------------------
(* Instances of AttestLimiter for TLC. *)
EXTENDS AttestLimiter
=============================================================================
