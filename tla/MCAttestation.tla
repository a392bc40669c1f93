--------------------------- MODULE MCAttestation ---------------------------
(* Instances of Attestation for TLC. *)
EXTENDS Attestation
=============================================================================
