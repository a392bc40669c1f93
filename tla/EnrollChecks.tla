---------------------------- MODULE EnrollChecks ----------------------------
(***************************************************************************)
(* The credential checks of POST /enroll: the Apple identity JWT against   *)
(* the pinned key set (src/src/apple_jwks.rs) and the StoreKit JWS with    *)
(* its certificate chain (src/src/enroll.rs).                              *)
(*                                                                         *)
(* A key stands for its pair: what was signed with it names it as signer.  *)
(* Every failed check is the same Err, so a check is a conjunct.           *)
(***************************************************************************)
EXTENDS Codecs

CONSTANTS
  Issuer, Audience, Bundle,   \* the anchors' strings
  LEEWAY, MAX_SUB,            \* 60 seconds and 255 bytes
  MaxX5c                      \* 5 certificates

ASSUME LimitsAssumption == LEEWAY \in Nat /\ MAX_SUB \in Nat /\ MaxX5c \in Nat

-----------------------------------------------------------------------------
(* The pinned key set: entries [kid, kty, use, key], None where a field is *)
(* absent or the RSA components do not parse.                              *)

\* Faulty variant: the use of a key is not looked at.
UsableForAnything(k) == k.kty = "RSA" /\ k.key # None

Usable(k) == k.kty = "RSA" /\ k.use \in {None, "sig"} /\ k.key # None

insert(map, kid, key) ==
  [x \in DOMAIN map \cup {kid} |-> IF x = kid THEN key ELSE map[x]]

load_apple_jwt_keys(jwks) ==
  LET out[i \in 0 .. Len(jwks)] ==
        IF i = 0 THEN <<>>
        ELSE IF Usable(jwks[i]) THEN insert(out[i - 1], jwks[i].kid, jwks[i].key) ELSE out[i - 1]
  IN out[Len(jwks)]

-----------------------------------------------------------------------------
(* The identity JWT.  aud is a string, an array of strings, or neither.    *)

aud_contains(aud, needle) ==
  \/ aud.form = "string" /\ aud.items = <<needle>>
  \/ aud.form = "array" /\ needle \in Range(aud.items)

Expired(exp, now) == exp < now - LEEWAY

\* jsonwebtoken::decode with the Validation verify_apple_jwt sets up.
decode(t, key, now) ==
  /\ t.signer = key
  /\ {"iss", "aud", "exp", "iat", "sub"} \subseteq t.present
  /\ ~Expired(t.exp, now)
  /\ t.iss = Issuer
  /\ aud_contains(t.aud, Audience)

verify_apple_jwt(t, keys, now) ==
  /\ t.alg = "RS256"
  /\ t.kid # None /\ t.kid \in DOMAIN keys
  /\ decode(t, keys[t.kid], now)
  /\ t.iss = Issuer
  /\ aud_contains(t.aud, Audience)
  /\ t.sub_len \in 1 .. MAX_SUB

-----------------------------------------------------------------------------
(* The StoreKit JWS.  x5c is the chain, leaf first, or None.               *)

\* cert[i] is signed by cert[i + 1].
LinksHold(x5c) == \A i \in 1 .. Len(x5c) - 1 : x5c[i].signer = x5c[i + 1].key

\* Faulty variant: the leaf is counted as an intermediate.
LeafCounted(cert, depth) == cert.path_len # None => depth <= cert.path_len

WithinPathLen(cert, depth) == cert.path_len # None => depth - 1 <= cert.path_len

\* A non-leaf at this depth below which depth - 1 intermediates stand.  A
\* keyUsage that cannot be read passes like one that is absent.
MayIssue(cert, depth) ==
  /\ cert.ca = "yes"
  /\ WithinPathLen(cert, depth)
  /\ cert.key_usage # "no_cert_sign"

ChainVerifies(x5c) ==
  /\ Len(x5c) \in 2 .. MaxX5c
  /\ \A i \in DOMAIN x5c : x5c[i].parses
  /\ x5c[Len(x5c)].pinned
  /\ LinksHold(x5c)
  /\ \A i \in DOMAIN x5c : x5c[i].valid /\ (i > 1 => MayIssue(x5c[i], i - 1))

PayloadComplete(p) == p.bundle_id = Bundle /\ p.has_ids

verify_storekit_jws(jws) ==
  /\ jws.alg = "ES256"
  /\ jws.x5c # None /\ ChainVerifies(jws.x5c)
  /\ jws.signer = jws.x5c[1].key
  /\ PayloadComplete(jws.payload)

-----------------------------------------------------------------------------
(* The handler, up to the insert: r is [pubkey, jwt, jws].                 *)

\* The account is the sub appAccountToken was derived from.
Admitted(r, manifest) ==
  /\ r.jws.payload.account = r.jwt.sub
  /\ <<r.pubkey, <<r.jwt.sub, r.jws.payload.tx>>>> \in manifest

\* Faulty variant: the account is compared before the JWS is verified.
AccountFirst(r, keys, now, manifest) ==
  IF r.pubkey = None THEN 403
  ELSE IF ~verify_apple_jwt(r.jwt, keys, now) THEN 401
  ELSE IF ~Admitted(r, manifest) THEN 403
  ELSE IF ~verify_storekit_jws(r.jws) THEN 401
  ELSE 200

EnrollAnswer(r, keys, now, manifest) ==
  IF r.pubkey = None THEN 403
  ELSE IF ~verify_apple_jwt(r.jwt, keys, now) THEN 401
  ELSE IF ~verify_storekit_jws(r.jws) THEN 401
  ELSE IF ~Admitted(r, manifest) THEN 403
  ELSE 200
=============================================================================
