---------------------------- MODULE MCChatRelay ----------------------------
(* Instances of ChatRelay for TLC. *)
EXTENDS ChatRelay
=============================================================================
