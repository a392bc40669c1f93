------------------------------- MODULE MCBoot -------------------------------
(* Instances of Boot for TLC. *)
EXTENDS Boot
Sizes == [d \in Disks |-> IF d = "sdb" THEN 2 ELSE 1]
=============================================================================
