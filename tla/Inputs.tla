------------------------------- MODULE Inputs -------------------------------
(***************************************************************************)
(* Everything the service decodes or verifies before it acts, one piece at *)
(* a time: an input of some kind grows by a byte, a character, a mark, a   *)
(* certificate or a key, and after every step what the code computes from  *)
(* it is compared with a definition that does not follow the code's loops. *)
(***************************************************************************)
EXTENDS EnrollChecks

CONSTANTS
  SampleBytes, MaxBytes,        \* what inputs are made of, and how long they get
  SampleChars, MaxChars,
  SampleDigests,
  MaxMarks,
  SampleCerts(_), MaxChain, MaxOddities,
  SampleKeys, MaxKeys,
  SampleTokens, SampleJws, SamplePubkeys, PinnedKeys, SampleManifest,
  MaxNow

\* The claims a token can carry.
Claims == {"iss", "aud", "exp", "iat", "sub"}

IsCert(c) == c.path_len \in Nat \cup {None}

IsChain(x5c) == x5c \in Seq(Range(x5c)) /\ \A c \in Range(x5c) : IsCert(c)

\* An aud that is a string is one item; exp is a number where it is present.
IsToken(t) ==
  /\ t.signer # None
  /\ t.aud.items \in Seq(STRING) /\ t.aud.form \in {"string", "array", "other"}
  /\ t.aud.form = "string" => Len(t.aud.items) = 1
  /\ t.present \subseteq Claims
  /\ t.exp \in Int /\ t.sub_len \in Nat

\* What a PEM text is made of.
Pieces == {"BEGIN", "END", "eol", "der1", "der2", "noise"}

ASSUME SampleAssumption ==
  /\ \A b \in SampleBytes : b \in Nat /\ b < 256
  /\ SampleChars \subseteq Nat /\ None \notin Seq(Pieces)
  /\ SampleDigests \subseteq [1 .. 20 -> 0 .. 255]
  /\ MaxChain \in Nat /\ \A n \in 0 .. MaxChain : \A c \in SampleCerts(n) : IsCert(c)
  /\ \A t \in SampleTokens : IsToken(t)
  /\ \A j \in SampleJws : j.x5c # None => IsChain(j.x5c)
  /\ PinnedKeys \in Seq(SampleKeys)

VARIABLES kind, input, now

vars == <<kind, input, now>>

Init ==
  /\ now = LEEWAY
  /\ \/ kind \in {"bytes", "text", "pem", "chain"} /\ input = <<>>
     \/ kind = "digests" /\ input \in SampleDigests \X SampleDigests
     \/ kind = "token" /\ input \in [jwks : {<<>>}, token : SampleTokens]
     \/ kind = "request" /\ input \in [pubkey : SamplePubkeys, jwt : SampleTokens, jws : SampleJws]

Grow(k, pieces, max) ==
  /\ kind = k /\ Len(input) < max
  /\ \E piece \in pieces : input' = Append(input, piece)
  /\ UNCHANGED <<kind, now>>

GrowBytes == Grow("bytes", SampleBytes, MaxBytes)

GrowText == Grow("text", SampleChars, MaxChars)

GrowPem == Grow("pem", Pieces, MaxMarks)

\* The chain grows downwards from the root.  Certificate n holds key n.
Oddities(x5c) == Cardinality({i \in DOMAIN x5c : x5c[i].odd})

GrowChain ==
  /\ kind = "chain" /\ Len(input) < MaxChain
  /\ \E c \in SampleCerts(Len(input)) :
       /\ Oddities(<<c>> \o input) <= MaxOddities
       /\ input' = <<c>> \o input
  /\ UNCHANGED <<kind, now>>

PinKey ==
  /\ kind = "token" /\ Len(input.jwks) < MaxKeys
  /\ \E k \in SampleKeys : input' = [input EXCEPT !.jwks = Append(@, k)]
  /\ UNCHANGED <<kind, now>>

Tick == kind = "token" /\ now < MaxNow /\ now' = now + 1 /\ UNCHANGED <<kind, input>>

Next ==
  \/ GrowBytes \/ GrowText \/ GrowPem
  \/ GrowChain \/ PinKey \/ Tick

Spec == Init /\ [][Next]_vars

-----------------------------------------------------------------------------
(* Properties *)

\* What b64url_nopad and b64_encode write, b64_decode_any reads back, in
\* either alphabet, padded or not; and hex_decode reads back hex_encode.
RoundTrips ==
  kind = "bytes" =>
    /\ b64_decode_any(b64url_nopad(input)) = input
    /\ b64_decode_any(b64_encode(input)) = input
    /\ hex_decode(hex_encode(input)) = input

\* The six bits of every character, in a row, cut into bytes.
Concatenated(s) ==
  LET text == Without(s, {PAD, BREAK})
      bits == [k \in 1 .. 6 * Len(text) |->
                 Bits(b64_val(text[(k + 5) \div 6]))[((k - 1) % 6) + 1]]
  IN IF \E i \in DOMAIN text : b64_val(text[i]) = None THEN None
     ELSE [k \in 1 .. Len(bits) \div 8 |-> Number(SubSeq(bits, 8 * k - 7, 8 * k))]

\* b64_decode_any never masks its 32-bit accumulator; the bits that fall
\* off its top were emitted before, so on every text without blanks it
\* returns the bytes of the concatenated characters, and None if one is
\* outside both alphabets.
DecodesConcatenation ==
  kind = "text" /\ BLANK \notin Range(input) => b64_decode_any(input) = Concatenated(input)

\* "whitespace ignored" (the comment on b64_decode_any): line breaks, spaces
\* and tabs make no difference to what a text decodes to.
WhitespaceIgnored ==
  kind = "text" => b64_decode_any(input) = b64_decode_any(Without(input, {BREAK, BLANK}))

\* The manifest and the pubkey or hash it is searched for are compared as
\* text (contains_pubkey, the enroll handler): that finds exactly the
\* entries whose digits stand for the same bytes.
TextMatchIsByteMatch ==
  kind = "text" /\ Len(input) <= 4 =>
    \A b \in SampleBytes, c \in SampleBytes :
      eq_ignore_ascii_case(input, hex_encode(<<b, c>>)) <=> hex_decode(input) = <<b, c>>

\* The bits of byte i of a digest that version and variant leave it.
Kept(d, i) == CASE i = 7 -> d[7] % 16 [] i = 9 -> d[9] % 64 [] OTHER -> d[i]

Shouted(s) == [i \in DOMAIN s |-> IF s[i] \in 26 .. 51 THEN s[i] - 26 ELSE s[i]]

\* uuid_v5 marks version and variant and keeps the other 122 bits of the
\* first 16 bytes, and uuid_eq, which Apple's upper case does not disturb,
\* tells UUIDs apart exactly by them.
UuidsKeepTheirBits ==
  kind = "digests" =>
    LET mine == uuid_v5(input[1])
        theirs == uuid_v5(input[2])
    IN /\ mine[15] = HEX(5) /\ mine[20] \in {HEX(8), HEX(9), HEX(10), HEX(11)}
       /\ uuid_eq(mine, Shouted(theirs)) <=>
            \A i \in 1 .. 16 : Kept(input[1], i) = Kept(input[2], i)

\* The pairs of marks with no mark between them.
Blocks(text) ==
  {p \in (DOMAIN text) \X (DOMAIN text) :
     /\ p[1] < p[2] /\ text[p[1]] = "BEGIN" /\ text[p[2]] = "END"
     /\ \A i \in p[1] + 1 .. p[2] - 1 : text[i] \notin {"BEGIN", "END"}}

Body(text, p) == Without(SubSeq(text, p[1] + 1, p[2] - 1), {"eol"})

\* The blocks that hold some base64 and nothing else.
Sound(text) ==
  {p \in Blocks(text) :
     Body(text, p) # <<>> /\ \A i \in p[1] + 1 .. p[2] - 1 : text[i] # "noise"}

\* chain holds the sound blocks, the first one first.
Lists(chain, text) ==
  /\ Len(chain) = Cardinality(Sound(text))
  /\ \A p \in Sound(text) :
       chain[Cardinality({q \in Sound(text) : q[1] <= p[1]})] = Body(text, p)

\* pck_chain_from_quote never makes a certificate out of two blocks or of a
\* damaged one, and lifts every block, leaf first, unless an earlier BEGIN
\* has lost its END.
LiftsBlocks ==
  kind = "pem" =>
    LET chain == pck_chain_from_quote(input)
        unclosed == \E i, j \in DOMAIN input :
                      /\ i < j /\ input[i] = "BEGIN" /\ input[j] = "BEGIN"
                      /\ \A k \in i .. j : input[k] # "END"
    IN /\ \A k \in DOMAIN chain : \E p \in Sound(input) : chain[k] = Body(input, p)
       /\ ~unclosed => Lists(chain, input)

\* How many CAs may still stand below certificate i, walking down from the
\* root: each CA uses one up and may lower what is left; negative once a
\* certificate was not entitled to issue.
Authority(x5c) ==
  LET left[i \in 1 .. Len(x5c)] ==
        LET above == IF i = Len(x5c) THEN MaxX5c ELSE left[i + 1] - 1
            own == IF x5c[i].path_len = None THEN MaxX5c ELSE x5c[i].path_len
        IN IF x5c[i].ca = "yes" /\ x5c[i].key_usage # "no_cert_sign" /\ above >= 0
           THEN Min({above, own}) ELSE -1
  IN left

\* A chain of currently valid certificates from the pinned root to the leaf,
\* each issued by the one above within the authority it was given.
ValidPath(x5c) ==
  /\ Len(x5c) \in 2 .. MaxX5c
  /\ \A i \in DOMAIN x5c : x5c[i].parses /\ x5c[i].valid
  /\ x5c[Len(x5c)].pinned
  /\ \A i \in 2 .. Len(x5c) : x5c[i].key = x5c[i - 1].signer
  /\ Authority(x5c)[2] >= 0

\* The chain walk of verify_storekit_jws, which looks at each certificate
\* with its depth, accepts what path validation from the root down accepts.
ChainWalkIsPathValidation == kind = "chain" => (ChainVerifies(input) <=> ValidPath(input))

\* The pinned signing key a kid stands for: the last one of the set.
KeyOf(jwks, kid) ==
  LET fit == {i \in DOMAIN jwks : /\ jwks[i].kid = kid /\ jwks[i].kty = "RSA"
                                  /\ jwks[i].key # None
                                  /\ jwks[i].use # None => jwks[i].use = "sig"}
  IN IF fit = {} THEN None ELSE jwks[Max(fit)].key

\* A token Apple issued for this app and this moment.
Genuine(t, jwks) ==
  /\ t.alg = "RS256" /\ t.kid # None /\ KeyOf(jwks, t.kid) = t.signer
  /\ t.iss = Issuer /\ t.aud.form # "other" /\ Audience \in Range(t.aud.items)
  /\ t.present = Claims
  /\ t.sub_len > 0 /\ t.sub_len <= MAX_SUB
  /\ now <= t.exp + LEEWAY

\* verify_apple_jwt, with the keys load_apple_jwt_keys made of the pinned
\* set, accepts the genuine tokens and no other: an encryption key, a key
\* that does not parse or an entry replaced by a later one signs nothing.
OnlyGenuineTokens ==
  kind = "token" =>
    (verify_apple_jwt(input.token, load_apple_jwt_keys(input.jwks), now) <=>
     Genuine(input.token, input.jwks))

\* "Every credential failure collapses to 401; policy failures to 403"
\* (enroll.rs): an answer that speaks of account or manifest is only given
\* to a caller whose two credentials are good.
AnswersInOrder ==
  kind = "request" /\ input.pubkey # None =>
    LET good == /\ Genuine(input.jwt, PinnedKeys)
                /\ input.jws.alg = "ES256" /\ input.jws.x5c # None
                /\ ValidPath(input.jws.x5c) /\ input.jws.signer = input.jws.x5c[1].key
                /\ input.jws.payload.bundle_id = Bundle /\ input.jws.payload.has_ids
        answer == EnrollAnswer(input, load_apple_jwt_keys(PinnedKeys), now, SampleManifest)
    IN (answer = 401) <=> ~good
=============================================================================
