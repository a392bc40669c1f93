--------------------------- MODULE MCMemberStore ---------------------------
(* Instances of MemberStore for TLC. *)
EXTENDS MemberStore

CONSTANTS p1, p2, s1, s2, x1, x2, t1, t2, t3, t4, t5, n1

\* Two users, each with a subscription of their own.
OneToOne == {<<p1, <<s1, x1>>>>, <<p2, <<s2, x2>>>>}

\* Two users whose purchases renew the same original transaction.
SharedTx == {<<p1, <<s1, x1>>>>, <<p2, <<s2, x1>>>>}
=============================================================================
