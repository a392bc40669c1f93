------------------------------- MODULE Codecs -------------------------------
(***************************************************************************)
(* The text codecs of src/src/lib.rs and src/src/attestation.rs: hex,      *)
(* base64, the UUID text form, and the lifting of certificates out of a    *)
(* PEM bundle.                                                             *)
(*                                                                         *)
(* A byte is a number below 256.  A character is the number of its place   *)
(* in the standard base64 alphabet (A-Z 0, a-z 26, 0-9 52, + and /), and   *)
(* what lies outside that alphabet is numbered on from there.              *)
(***************************************************************************)
EXTENDS Integers, Sequences, FiniteSetsExt, Functions

CONSTANT None

\* What failed is told from a number or bytes.
ASSUME NoneAssumption == None \notin Nat /\ None \notin Seq(Nat)

DASH == 64
UNDERSCORE == 65
PAD == 66
BREAK == 67      \* \n or \r
BLANK == 68      \* a space or a tab
OTHER_CHAR == 69

lower(c) == IF c \in 0 .. 25 THEN c + 26 ELSE c

\* s without the elements of D.
Without(s, D) ==
  LET kept[i \in 0 .. Len(s)] ==
        IF i = 0 THEN <<>>
        ELSE IF s[i] \in D THEN kept[i - 1] ELSE Append(kept[i - 1], s[i])
  IN kept[Len(s)]

-----------------------------------------------------------------------------
(* Hex *)

HEX(n) == IF n < 10 THEN 52 + n ELSE 26 + n - 10

hex_encode(bytes) ==
  [i \in 1 .. 2 * Len(bytes) |->
     LET b == bytes[(i + 1) \div 2] IN HEX(IF i % 2 = 1 THEN b \div 16 ELSE b % 16)]

hex_val(c) ==
  CASE c \in 52 .. 61 -> c - 52
    [] c \in 26 .. 31 -> c - 26 + 10
    [] c \in 0 .. 5 -> c + 10
    [] OTHER -> None

hex_decode(s) ==
  IF Len(s) % 2 # 0 \/ \E i \in DOMAIN s : hex_val(s[i]) = None THEN None
  ELSE [i \in 1 .. Len(s) \div 2 |-> 16 * hex_val(s[2 * i - 1]) + hex_val(s[2 * i])]

\* Faulty variant: the case of the manifest's digits matters.
SameText(s, t) == s = t

eq_ignore_ascii_case(s, t) ==
  Len(s) = Len(t) /\ \A i \in DOMAIN s : lower(s[i]) = lower(t[i])

-----------------------------------------------------------------------------
(* Base64: the encoders take three bytes at a time, filled up with zeros.  *)

Chunks(bytes) ==
  [k \in 1 .. (Len(bytes) + 2) \div 3 |-> SubSeq(bytes, 3 * k - 2, Min({3 * k, Len(bytes)}))]

Sextets(chunk) ==
  LET b == [i \in 1 .. 3 |-> IF i <= Len(chunk) THEN chunk[i] ELSE 0]
      n == 65536 * b[1] + 256 * b[2] + b[3]
  IN <<n \div 262144, (n \div 4096) % 64, (n \div 64) % 64, n % 64>>

\* Faulty variant: the last, short group keeps one character too few.
ShortTail(chunk) == SubSeq(Sextets(chunk), 1, IF Len(chunk) = 3 THEN 4 ELSE Len(chunk))

\* The characters that carry the chunk: one more than it has bytes.
Carried(chunk) == SubSeq(Sextets(chunk), 1, Len(chunk) + 1)

\* What the loop has pushed once it is through with the chunks.
Pushed(groups) ==
  LET out[k \in 0 .. Len(groups)] == IF k = 0 THEN <<>> ELSE out[k - 1] \o groups[k]
  IN out[Len(groups)]

Url(v) == IF v >= 62 THEN v + 2 ELSE v

b64url_nopad(bytes) ==
  LET groups == [k \in DOMAIN Chunks(bytes) |-> Carried(Chunks(bytes)[k])]
      text == Pushed(groups)
  IN [i \in DOMAIN text |-> Url(text[i])]

b64_encode(bytes) ==
  Pushed([k \in DOMAIN Chunks(bytes) |->
    [i \in 1 .. 4 |-> IF i \in DOMAIN Carried(Chunks(bytes)[k])
                      THEN Sextets(Chunks(bytes)[k])[i] ELSE PAD]])

b64_val(c) ==
  CASE c \in 0 .. 63 -> c
    [] c \in {DASH, UNDERSCORE} -> c - 2
    [] OTHER -> None

\* The six bits of a character, and the byte that eight bits are.
Bits(v) ==
  <<v \div 32, (v \div 16) % 2, (v \div 8) % 2, (v \div 4) % 2, (v \div 2) % 2, v % 2>>

Number(b) ==
  128 * b[1] + 64 * b[2] + 32 * b[3] + 16 * b[4] + 8 * b[5] + 4 * b[6] + 2 * b[7] + b[8]

\* Faulty variant: a byte that is complete waits for the next character.
EmitsLate(nbits) == nbits > 8

Emits(nbits) == nbits >= 8

\* One turn of the decoder's loop.  acc is a u32, written as its 32 bits:
\* acc << 6 drops the top six, and acc >> nbits, as u8, keeps eight.
Shift(d, c) ==
  LET acc == SubSeq(d.acc, 7, 32) \o Bits(b64_val(c))
      nbits == d.nbits + 6
  IN IF Emits(nbits)
     THEN [acc |-> acc, nbits |-> nbits - 8,
           out |-> Append(d.out, Number(SubSeq(acc, 33 - nbits, 40 - nbits)))]
     ELSE [acc |-> acc, nbits |-> nbits, out |-> d.out]

Skipped == {PAD, BREAK}

b64_decode_any(s) ==
  LET turn[i \in 0 .. Len(s)] ==
        IF i = 0 THEN [acc |-> [k \in 1 .. 32 |-> 0], nbits |-> 0, out |-> <<>>]
        ELSE IF s[i] \in Skipped THEN turn[i - 1] ELSE Shift(turn[i - 1], s[i])
  IN IF \E i \in DOMAIN s : s[i] \notin Skipped /\ b64_val(s[i]) = None THEN None
     ELSE turn[Len(s)].out

-----------------------------------------------------------------------------
(* UUIDv5.  SHA-1 is not modelled: a digest of 20 bytes is given.          *)

Stamped(d) == [SubSeq(d, 1, 16) EXCEPT ![7] = (@ % 16) + 80, ![9] = (@ % 64) + 128]

\* Faulty variant: the last group ends one digit early.
ShortNode(d) ==
  LET h == hex_encode(Stamped(d))
  IN SubSeq(h, 1, 8) \o <<DASH>> \o SubSeq(h, 9, 12) \o <<DASH>> \o SubSeq(h, 13, 16)
       \o <<DASH>> \o SubSeq(h, 17, 20) \o <<DASH>> \o SubSeq(h, 21, 31)

uuid_v5(d) ==
  LET h == hex_encode(Stamped(d))
  IN SubSeq(h, 1, 8) \o <<DASH>> \o SubSeq(h, 9, 12) \o <<DASH>> \o SubSeq(h, 13, 16)
       \o <<DASH>> \o SubSeq(h, 17, 20) \o <<DASH>> \o SubSeq(h, 21, 32)

norm(s) ==
  LET digits == Without(s, {DASH})
  IN [i \in DOMAIN digits |-> lower(digits[i])]

uuid_eq(a, b) == norm(a) = norm(b)

-----------------------------------------------------------------------------
(* PEM.  The text is a sequence of marks, line breaks, pieces of base64    *)
(* and bytes that are neither.                                             *)

\* Faulty variant: what is not base64 is passed over.
LenientBody(body) == Without(body, {"BEGIN", "eol", "noise"})

\* b64_decode_any of what lies between two marks: a mark has a space in it.
BodyDer(body) ==
  IF \E i \in DOMAIN body : body[i] \in {"BEGIN", "noise"} THEN None
  ELSE Without(body, {"eol"})

Marks(text, mark, from) == {i \in from .. Len(text) : text[i] = mark}

pck_chain_from_quote(text) ==
  LET lift[rest \in 1 .. Len(text) + 1] ==
        LET start == Min(Marks(text, "BEGIN", rest))
            end == Min(Marks(text, "END", start + 1))
            der == BodyDer(SubSeq(text, start + 1, end - 1))
        IN IF Marks(text, "BEGIN", rest) = {} \/ Marks(text, "END", start + 1) = {} THEN <<>>
           ELSE (IF der \in {None, <<>>} THEN <<>> ELSE <<der>>) \o lift[end + 1]
  IN lift[1]
=============================================================================
