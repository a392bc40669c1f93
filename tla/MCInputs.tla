------------------------------ MODULE MCInputs ------------------------------
(* The samples Inputs grows its inputs from. *)
EXTENDS Inputs

\* Every byte of a digest changed to every sample.
MCSampleDigests ==
  LET base == [i \in 1 .. 20 |-> 160 + i]
  IN {[base EXCEPT ![i] = x] : i \in 1 .. 20, x \in SampleBytes}

\* Certificate n below the root, sound or with one thing odd about it.
MCSampleCerts(n) ==
  LET sound(p) == [parses |-> TRUE, pinned |-> n = 0, key |-> n,
                   signer |-> IF n = 0 THEN 0 ELSE n - 1, valid |-> TRUE, ca |-> "yes",
                   path_len |-> p, key_usage |-> "cert_sign", odd |-> FALSE]
      odd(c) == {[c EXCEPT !.parses = FALSE], [c EXCEPT !.valid = FALSE],
                 [c EXCEPT !.ca = "no"], [c EXCEPT !.ca = "absent"],
                 [c EXCEPT !.key_usage = "no_cert_sign"], [c EXCEPT !.key_usage = "absent"],
                 [c EXCEPT !.signer = n + 1]}
                \cup (IF n = 0 THEN {[c EXCEPT !.pinned = FALSE]} ELSE {})
      certs == {sound(p) : p \in {None, 0, 1, 2}}
  IN certs \cup UNION {{[d EXCEPT !.odd = TRUE] : d \in odd(c)} : c \in certs}

MCSampleKeys ==
  [kid : {"a", "b"}, kty : {"RSA", "EC", None}, use : {"sig", "enc", None}, key : {1, 2, None}]

MCPinnedKeys == <<[kid |-> "a", kty |-> "RSA", use |-> "sig", key |-> 1]>>

AppleToken ==
  [alg |-> "RS256", kid |-> "a", signer |-> 1, iss |-> Issuer,
   aud |-> [form |-> "string", items |-> <<Audience>>],
   present |-> {"iss", "aud", "exp", "iat", "sub"}, exp |-> LEEWAY + 1, sub |-> "s1", sub_len |-> 44]

MCSampleTokens ==
  {AppleToken,
   [AppleToken EXCEPT !.alg = "HS256"],
   [AppleToken EXCEPT !.kid = None], [AppleToken EXCEPT !.kid = "b"],
   [AppleToken EXCEPT !.signer = 2],
   [AppleToken EXCEPT !.iss = "other"],
   [AppleToken EXCEPT !.aud.items = <<"other">>],
   [AppleToken EXCEPT !.aud = [form |-> "array", items |-> <<"other", Audience>>]],
   [AppleToken EXCEPT !.aud = [form |-> "array", items |-> <<>>]],
   [AppleToken EXCEPT !.aud.form = "other"],
   [AppleToken EXCEPT !.present = @ \ {"iat"}],
   [AppleToken EXCEPT !.exp = 0], [AppleToken EXCEPT !.exp = 1],
   [AppleToken EXCEPT !.sub_len = 0], [AppleToken EXCEPT !.sub_len = 1],
   [AppleToken EXCEPT !.sub_len = MAX_SUB], [AppleToken EXCEPT !.sub_len = MAX_SUB + 1]}

Cert(n) == CHOOSE c \in MCSampleCerts(n) : ~c.odd /\ c.path_len = None

StoreJws ==
  [alg |-> "ES256", x5c |-> <<Cert(2), Cert(1), Cert(0)>>, signer |-> 2,
   payload |-> [bundle_id |-> Bundle, has_ids |-> TRUE, tx |-> "x1", account |-> "s1"]]

MCSampleJws ==
  {StoreJws,
   [StoreJws EXCEPT !.alg = "RS256"],
   [StoreJws EXCEPT !.x5c = None],
   [StoreJws EXCEPT !.x5c = <<Cert(2), Cert(0)>>],
   [StoreJws EXCEPT !.signer = 1],
   [StoreJws EXCEPT !.payload.bundle_id = "other"],
   [StoreJws EXCEPT !.payload.has_ids = FALSE],
   [StoreJws EXCEPT !.payload.tx = "x2"],
   [StoreJws EXCEPT !.payload.account = "s2"],
   [StoreJws EXCEPT !.payload.account = None, !.signer = 1]}

MCSampleManifest == {<<"p1", <<"s1", "x1">>>>, <<"p2", <<"s2", "x1">>>>}
=============================================================================
