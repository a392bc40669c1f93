------------------------------ MODULE Instance ------------------------------
(***************************************************************************)
(* One process of the service: the /enroll, /manage and chat handlers over *)
(* one member store, behind the mTLS listener, on tokio's thread pool.     *)
(* Handlers only meet in the store, whose methods are atomic; /manage      *)
(* takes the lock twice, once for the nonce and once for the revoke, and   *)
(* other handlers run in between.                                          *)
(***************************************************************************)
EXTENDS Integers, Sequences, FiniteSets

CONSTANTS
  Pubkeys, Subs, TxIds, Tokens, Nonces, Manifest, DEVICE_CAP, None,
  Streams, CHANNEL_CAP, MaxFrames,
  Envelopes   \* what may reach /manage: [nonce, action, hash, signed]

VARIABLES
  by_pubkey, by_token, seen_nonces,    \* the member store
  minted_as, enrolled, revoked,        \* its history
  stream,                              \* chat requests
  pending,   \* envelopes whose handler is between note_nonce and the revoke
  applied    \* history: revokes applied per nonce since the process started

Store == INSTANCE MemberStore

Chat == INSTANCE ChatRelay WITH
  allowed <- Store!Accepted,
  retired <- {t \in Tokens : minted_as[t] # None} \ Store!Accepted

\* What MemberStore and ChatRelay assume.
ASSUME StoreAssumption ==
  /\ DEVICE_CAP \in Nat \ {0} /\ None \notin Pubkeys /\ None \notin Store!Hashes
  /\ Manifest \subseteq Pubkeys \X Store!Hashes /\ None \notin Store!Member

ASSUME RelayAssumption == CHANNEL_CAP \in Nat \ {0} /\ MaxFrames \in Nat

ASSUME EnvelopeAssumption ==
  Envelopes \subseteq [nonce : Nonces, action : {"revoke", "other"}, hash : Store!Hashes,
                       signed : BOOLEAN]

\* The Orchestrator signs no two payloads with one nonce.
ASSUME NonceAssumption ==
  \A e, f \in Envelopes : e.signed /\ f.signed /\ e.nonce = f.nonce => e = f

history == <<minted_as, enrolled, revoked>>
store == <<by_pubkey, by_token, seen_nonces, minted_as, enrolled, revoked>>
manage == <<pending, applied>>
vars == <<store, stream, manage>>

Init ==
  /\ Store!Init
  /\ stream = [s \in Streams |-> Chat!Fresh]
  /\ pending = {}
  /\ applied = [n \in Nonces |-> 0]

-----------------------------------------------------------------------------
(* The listener: a handshake completes only for a point of the manifest,   *)
(* and the request carries that point.                                     *)

contains_pubkey(pk) == \E h \in Store!Hashes : <<pk, h>> \in Manifest

verify_client_cert(pk) == contains_pubkey(pk)

\* The points MtlsAcceptor may attach to the requests of a connection.
PeerKeys == {pk \in Pubkeys : verify_client_cert(pk)}

Connected == PeerKeys # {}

-----------------------------------------------------------------------------
(* POST /enroll.  A credential is what the two verified tokens say: the    *)
(* JWT's sub, the JWS's originalTransactionId, and the sub its             *)
(* appAccountToken was derived from (None if absent).  A token that does   *)
(* not verify, and every refusal, leaves the process as it is.             *)

Credentials == [sub : Subs, tx : TxIds, account : Subs \cup {None}]

MemberHash(c) == <<c.sub, c.tx>>

AccountMatches(c) == c.account = c.sub

EnrollHandler(pk, c, t) ==
  /\ pk \in PeerKeys
  /\ AccountMatches(c)
  /\ Store!Enroll(pk, MemberHash(c), t)
  /\ UNCHANGED <<stream, manage>>

-----------------------------------------------------------------------------
(* POST /manage.  The network may deliver an envelope any number of times, *)
(* in any order.  One the Orchestrator did not sign is answered 401 and a  *)
(* replayed nonce 409, and nothing changes; a payload that is no           *)
(* well-formed revoke is answered 400 after its nonce has been noted.      *)

\* Faulty variant: the signature is not checked.
AnySignature(e) == TRUE

SignatureValid(e) == e.signed

\* Faulty variant: note_nonce's answer is ignored.
NoteOrRepeat(n) ==
  seen_nonces' = seen_nonces \cup {n} /\ UNCHANGED <<by_pubkey, by_token, history>>

NoteNonce(n) == Store!note_nonce(n)

ManageBegin(e) ==
  /\ Connected
  /\ SignatureValid(e)
  /\ NoteNonce(e.nonce)
  /\ pending' = IF e.action = "revoke" THEN pending \cup {e} ELSE pending
  /\ UNCHANGED <<applied, stream>>

ManageApply(e) ==
  /\ e \in pending
  /\ Store!Revoke(e.hash)
  /\ pending' = pending \ {e}
  /\ applied' = [applied EXCEPT ![e.nonce] = @ + 1]
  /\ UNCHANGED stream

-----------------------------------------------------------------------------
(* POST /v1/chat/completions *)

ChatStep(s) ==
  /\ UNCHANGED <<store, manage>>
  /\ \/ Connected /\ \E t \in Tokens \cup {None} : Chat!Request(s, t)
     \/ Chat!Relay(s)
     \/ Chat!PollBody(s)
     \/ Chat!HangUp(s)

-----------------------------------------------------------------------------
(* The process dies and is started again: everything it knew is gone.  The *)
(* history keeps which bearers it drew.                                    *)

Restart ==
  /\ Store!Restart
  /\ Chat!Kill
  /\ pending' = {}
  /\ applied' = [n \in Nonces |-> 0]

Next ==
  \/ \E pk \in Pubkeys, c \in Credentials, t \in Tokens : EnrollHandler(pk, c, t)
  \/ \E e \in Envelopes : ManageBegin(e)
  \/ \E e \in Envelopes : ManageApply(e)
  \/ \E s \in Streams : ChatStep(s)
  \/ Restart

Spec == Init /\ [][Next]_vars

-----------------------------------------------------------------------------
(* Properties *)

\* The types of the handlers' own state.
TypeOK ==
  /\ Store!TypeOK
  /\ Chat!TypeOK
  /\ pending \subseteq Envelopes
  /\ applied \in [Nonces -> Nat]

\* Chat streams only meet allowlist changes ChatRelay allows for: a bearer
\* that is gone never comes back.
ImplementsRelay == Chat!Spec

\* A signed envelope takes effect at most once per process, however often
\* and however concurrently it is delivered.
NonceAppliedOnce == \A n \in Nonces : applied[n] <= 1

\* A signed revoke is answered 409 only if it has been applied or is about
\* to be: no crash, error path or unsigned envelope with the same nonce
\* burns the nonce and loses the revoke.
NoRevokeLost ==
  \A e \in Envelopes : e.signed /\ e.action = "revoke" /\ e.nonce \in seen_nonces =>
    e \in pending \/ applied[e.nonce] > 0

\* Once a revoke has been applied, no relay whose bearer was enrolled under
\* that hash looks another frame up successfully: the next data frame of
\* every one of the member's streams is replaced by the cut.
RevokeReachesStreams ==
  [][\A s \in Streams :
       stream[s].bearer \in revoked /\ stream[s].pc = "read" => stream'[s].pc # "send"]_vars

\* And nothing else cuts a stream: the relay looks a bearer up in vain only
\* after a /manage revoke of its hash, or after DEVICE_CAP newer bearers were
\* enrolled for its pubkey.  No enroll or revoke of another member, and no
\* enroll below the cap, ends a generation that is under way.
CutOnlyGone ==
  [][\A s \in Streams :
       stream[s].pc = "read" /\ stream'[s].pc = "cut" =>
         \/ stream[s].bearer \in revoked
         \/ \E pk \in Pubkeys : \E i \in 1 .. Len(enrolled[pk]) - DEVICE_CAP :
              enrolled[pk][i] = stream[s].bearer]_vars
=============================================================================
