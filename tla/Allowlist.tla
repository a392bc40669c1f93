----------------------------- MODULE Allowlist -----------------------------
(***************************************************************************)
(* What the member store promises its users, without its two maps: a       *)
(* member's bearers are accepted exactly while fewer than DEVICE_CAP newer *)
(* ones have been minted for the same pubkey, until the member is revoked  *)
(* or the process restarts.                                                *)
(***************************************************************************)
EXTENDS Integers, Sequences

CONSTANTS Pubkeys, Hashes, Tokens, Manifest, DEVICE_CAP

VARIABLES
  mints,     \* per pubkey, the bearers minted since it last had none
  used,      \* every bearer ever minted
  accepted   \* the bearers /chat accepts

vars == <<mints, used, accepted>>

Latest(s) == {s[i] : i \in {j \in DOMAIN s : j > Len(s) - DEVICE_CAP}}

Standing(m) == UNION {Latest(m[pk]) : pk \in Pubkeys}

Init ==
  /\ mints = [pk \in Pubkeys |-> <<>>]
  /\ used = {}
  /\ accepted = {}

Enroll(pk, h, t) ==
  /\ <<pk, h>> \in Manifest
  /\ t \notin used
  /\ mints' = [mints EXCEPT ![pk] = Append(@, t)]
  /\ used' = used \cup {t}
  /\ accepted' = Standing(mints')

Revoke(h) ==
  /\ mints' = [pk \in Pubkeys |-> IF <<pk, h>> \in Manifest THEN <<>> ELSE mints[pk]]
  /\ accepted' = Standing(mints')
  /\ UNCHANGED used

Restart ==
  /\ mints' = [pk \in Pubkeys |-> <<>>]
  /\ accepted' = {}
  /\ UNCHANGED used

Next ==
  \/ \E pk \in Pubkeys, h \in Hashes, t \in Tokens : Enroll(pk, h, t)
  \/ \E h \in Hashes : Revoke(h)
  \/ Restart

Spec == Init /\ [][Next]_vars
=============================================================================
