---------------------------- MODULE MemberStore ----------------------------
(***************************************************************************)
(* The RAM-only allowlist of src/src/state.rs: the member table by_pubkey, *)
(* the bearer index by_token that /chat authenticates against, and the     *)
(* nonces /manage has seen.  Every method of MemberStore runs under one    *)
(* guard of one RwLock, so every method is one step.                       *)
(*                                                                         *)
(* A HashMap is a total function whose value None says "no such key".  A   *)
(* member hash sha256(sub || originalTransactionId) is the pair it is      *)
(* computed from: the digest is taken to be collision free.                *)
(***************************************************************************)
EXTENDS Integers, Sequences, FiniteSets, Functions

CONSTANTS
  Pubkeys,      \* the clients' P-256 points
  Subs, TxIds,  \* Apple user ids, originalTransactionIds
  Tokens,       \* session tokens: 256 bits from the CSPRNG, never drawn twice
  Nonces,       \* nonces of /manage payloads
  Manifest,     \* the frozen cohort: a set of <<pubkey, member hash>>
  DEVICE_CAP,   \* bearers one pubkey may hold
  None

Hashes == Subs \X TxIds

ASSUME CapAssumption == DEVICE_CAP \in Nat \ {0}
ASSUME NoneAssumption == None \notin Pubkeys /\ None \notin Hashes
ASSUME ManifestAssumption == Manifest \subseteq Pubkeys \X Hashes

Member == [member_hash : Hashes, original_tx_id : TxIds, sessions : Seq(Tokens)]

ASSUME NoMemberAssumption == None \notin Member

VARIABLES
  by_pubkey,    \* pubkey -> Member
  by_token,     \* bearer -> the pubkey that holds it
  seen_nonces,  \* the /manage replay guard
  minted_as,    \* history: bearer -> the member hash it was enrolled under
  enrolled,     \* history: bearers minted per pubkey since it last had none
  revoked       \* history: bearers enrolled under a hash before its revocation

inner == <<by_pubkey, by_token, seen_nonces>>
history == <<minted_as, enrolled, revoked>>
vars == <<by_pubkey, by_token, seen_nonces, minted_as, enrolled, revoked>>

Init ==
  /\ by_pubkey = [pk \in Pubkeys |-> None]
  /\ by_token = [t \in Tokens |-> None]
  /\ seen_nonces = {}
  /\ minted_as = [t \in Tokens |-> None]
  /\ enrolled = [pk \in Pubkeys |-> <<>>]
  /\ revoked = {}

-----------------------------------------------------------------------------
(* Queries *)

contains_token(t) == by_token[t] # None

IsMember(pk) == by_pubkey[pk] # None

Sessions(pk) == IF IsMember(pk) THEN by_pubkey[pk].sessions ELSE <<>>

\* The members a revoke of h may find: HashMap::iter has no fixed order.
Holders(h) == {pk \in Pubkeys : IsMember(pk) /\ by_pubkey[pk].member_hash = h}

-----------------------------------------------------------------------------
(* insert *)

\* Faulty variant: the cap is off by one.
NewestPlusOne(s) ==
  IF Len(s) > DEVICE_CAP + 1 THEN SubSeq(s, Len(s) - DEVICE_CAP, Len(s)) ELSE s

\* What the pop_front loop leaves of a session list, and what it pops.
Newest(s) ==
  IF Len(s) > DEVICE_CAP THEN SubSeq(s, Len(s) - DEVICE_CAP + 1, Len(s)) ELSE s

\* Faulty variant: the index drops a bearer when the cap is reached, not
\* when it is exceeded.
EvictedEarly(s) == {s[i] : i \in 1 .. (Len(s) - DEVICE_CAP + 1)}

\* Faulty variant: evicted bearers stay in the index.
EvictedNone(s) == {}

Evicted(s) == {s[i] : i \in 1 .. (Len(s) - DEVICE_CAP)}

Push(pk, t) == Append(Sessions(pk), t)

\* Faulty variant: at the cap the newest is dropped.
RefuseNewest(pk, h, t) ==
  by_pubkey' = [by_pubkey EXCEPT ![pk] =
    [member_hash |-> h, original_tx_id |-> h[2],
     sessions |-> SubSeq(Push(pk, t), 1,
                         IF Len(Push(pk, t)) > DEVICE_CAP THEN DEVICE_CAP ELSE Len(Push(pk, t)))]]

\* Faulty variant: the hash leaves the transaction id out.
HashSubOnly(pk, h, t) ==
  by_pubkey' = [by_pubkey EXCEPT ![pk] =
    [member_hash |-> h[1], original_tx_id |-> h[2], sessions |-> Newest(Push(pk, t))]]

\* The fresh hash and transaction id replace the stored ones.
InsertMember(pk, h, t) ==
  by_pubkey' = [by_pubkey EXCEPT ![pk] =
    [member_hash |-> h, original_tx_id |-> h[2], sessions |-> Newest(Push(pk, t))]]

InsertIndex(pk, t) ==
  by_token' = [u \in Tokens |->
    IF u = t THEN pk ELSE IF u \in Evicted(Push(pk, t)) THEN None ELSE by_token[u]]

insert(pk, h, t) == InsertMember(pk, h, t) /\ InsertIndex(pk, t)

-----------------------------------------------------------------------------
(* revoke_by_member_hash *)

\* Faulty variant: only the oldest bearer leaves the index.
RemoveOneBearer(pk) ==
  /\ by_pubkey' = [by_pubkey EXCEPT ![pk] = None]
  /\ by_token' = [by_token EXCEPT ![by_pubkey[pk].sessions[1]] = None]

Remove(pk) ==
  /\ by_pubkey' = [by_pubkey EXCEPT ![pk] = None]
  /\ by_token' = [t \in Tokens |->
       IF t \in Range(by_pubkey[pk].sessions) THEN None ELSE by_token[t]]

-----------------------------------------------------------------------------
(* The steps.  /enroll calls insert with a pair it has just found in the   *)
(* manifest and a token it has just drawn.                                 *)

\* Faulty variant: the pair is not compared.
PubkeyInManifest(pk, h) == \E g \in Hashes : <<pk, g>> \in Manifest

InManifest(pk, h) == <<pk, h>> \in Manifest

\* Faulty variant: a token value may be drawn again.
NotLive(t) == ~contains_token(t)

Fresh(t) == minted_as[t] = None

Enroll(pk, h, t) ==
  /\ InManifest(pk, h)
  /\ Fresh(t)
  /\ insert(pk, h, t)
  /\ minted_as' = [minted_as EXCEPT ![t] = h]
  /\ enrolled' = [enrolled EXCEPT ![pk] = Append(@, t)]
  /\ UNCHANGED <<seen_nonces, revoked>>

\* The bearers a revoke of h is meant to end: every one enrolled under h.
IssuedUnder(h) == {t \in Tokens : minted_as[t] = h}

Revoke(h) ==
  /\ revoked' = revoked \cup IssuedUnder(h)
  /\ \/ \E pk \in Holders(h) :
          /\ Remove(pk)
          /\ enrolled' = [enrolled EXCEPT ![pk] = <<>>]
     \/ /\ Holders(h) = {}
        /\ UNCHANGED <<by_pubkey, by_token, enrolled>>
  /\ UNCHANGED <<seen_nonces, minted_as>>

note_nonce(n) ==
  /\ n \notin seen_nonces
  /\ seen_nonces' = seen_nonces \cup {n}
  /\ UNCHANGED <<by_pubkey, by_token, history>>

\* A restarted process starts from MemberStore::default().
Restart ==
  /\ by_pubkey' = [pk \in Pubkeys |-> None]
  /\ by_token' = [t \in Tokens |-> None]
  /\ seen_nonces' = {}
  /\ enrolled' = [pk \in Pubkeys |-> <<>>]
  /\ UNCHANGED <<minted_as, revoked>>

Next ==
  \/ \E pk \in Pubkeys, h \in Hashes, t \in Tokens : Enroll(pk, h, t)
  \/ \E h \in Hashes : Revoke(h)
  \/ \E n \in Nonces : note_nonce(n)
  \/ Restart

Spec == Init /\ [][Next]_vars

-----------------------------------------------------------------------------
(* The abstract allowlist this store implements. *)

Accepted == {t \in Tokens : contains_token(t)}

Abstract == INSTANCE Allowlist WITH
  mints <- enrolled,
  used <- {t \in Tokens : minted_as[t] # None},
  accepted <- Accepted

-----------------------------------------------------------------------------
(* Properties *)

TypeOK ==
  /\ by_pubkey \in [Pubkeys -> Member \cup {None}]
  /\ by_token \in [Tokens -> Pubkeys \cup {None}]
  /\ seen_nonces \subseteq Nonces
  /\ minted_as \in [Tokens -> Hashes \cup {None}]
  /\ enrolled \in [Pubkeys -> Seq(Tokens)]
  /\ revoked \subseteq Tokens

\* The two maps insert and revoke_by_member_hash edit one after the other
\* agree: the bearer index sends a bearer to a pubkey exactly when that
\* pubkey's member lists it.  So contains_token accepts no orphan of an
\* evicted or revoked session and misses none that is still listed.
IndexCoherent ==
  \A t \in Tokens, pk \in Pubkeys :
    by_token[t] = pk <=> t \in Range(Sessions(pk))

\* A stored member holds between one and DEVICE_CAP bearers ("Bounded by
\* DEVICE_CAP", state.rs) and never one bearer twice, however enrolls,
\* revokes and restarts are ordered.
SlotsBounded ==
  \A pk \in Pubkeys : IsMember(pk) =>
    /\ Len(Sessions(pk)) \in 1 .. DEVICE_CAP
    /\ \A i, j \in DOMAIN Sessions(pk) : Sessions(pk)[i] = Sessions(pk)[j] => i = j

\* Every bearer /chat accepts resolves (get_by_token) to a member whose
\* pubkey and current hash are a pair of the manifest.
AcceptedInManifest ==
  \A t \in Tokens : contains_token(t) =>
    /\ IsMember(by_token[t])
    /\ <<by_token[t], by_pubkey[by_token[t]].member_hash>> \in Manifest

\* One pubkey per member hash and one hash per pubkey: what the
\* Orchestrator's freeze_manifest is documented to emit (tests/enroll.rs).
ManifestOneToOne ==
  \A a, b \in Manifest : a[1] = b[1] <=> a[2] = b[2]

\* Revoking a hash ends every bearer enrolled under it so far, on every
\* device, and none of them is ever accepted again.
RevokeComplete == \A t \in revoked : ~contains_token(t)

\* With a one-to-one manifest the store is the abstract allowlist: /chat
\* accepts exactly the DEVICE_CAP newest bearers of each member, whatever
\* order enrolls, revokes and restarts take, and a revoke empties the
\* member that holds the hash and no other.
ImplementsAllowlist == Abstract!Spec

\* The header of enroll.rs and the README describe a dedup table keyed by
\* originalTransactionId, cap DEVICE_CAP: at most DEVICE_CAP live bearers
\* stand for one transaction id.
TxDeviceCap ==
  \A tx \in TxIds :
    Cardinality({t \in Tokens :
      contains_token(t) /\ by_pubkey[by_token[t]].original_tx_id = tx}) <= DEVICE_CAP
=============================================================================
