---------------------------- MODULE MCInstance -----------------------------
(* Instances of Instance for TLC. *)
EXTENDS Instance

CONSTANTS p1, p2, s1, s2, x1, n1, n2

\* Two users.
Cohort == {<<p1, <<s1, x1>>>>, <<p2, <<s2, x1>>>>}

\* A revoke of the first user, one of the second that nobody signed and that
\* repeats its nonce, and a payload /manage answers with 400.
Delivered ==
  {[nonce |-> n1, action |-> "revoke", hash |-> <<s1, x1>>, signed |-> TRUE],
   [nonce |-> n1, action |-> "revoke", hash |-> <<s2, x1>>, signed |-> FALSE],
   [nonce |-> n2, action |-> "other", hash |-> <<s1, x1>>, signed |-> TRUE]}
=============================================================================
