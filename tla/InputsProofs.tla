--------------------------- MODULE InputsProofs -----------------------------
(***************************************************************************)
(* Proofs about Inputs: the properties of the codecs, which follow from    *)
(* the lemmas of CodecsProofs, and what the checks of /enroll compute, for *)
(* every input and not only for those TLC grows.                           *)
(***************************************************************************)
EXTENDS Inputs, CodecsProofs, FiniteSetTheorems

-----------------------------------------------------------------------------
(* The inputs *)

\* What an input of each kind is.
Typed ==
  /\ kind \in {"bytes", "text", "pem", "chain", "digests", "token", "request"}
  /\ kind = "bytes" => input \in Seq(SampleBytes)
  /\ kind = "text" => input \in Seq(SampleChars)
  /\ kind = "pem" => input \in Seq(Pieces)
  /\ kind = "chain" => IsChain(input)
  /\ kind = "digests" => input \in SampleDigests \X SampleDigests
  /\ kind = "token" => input \in [jwks : Seq(SampleKeys), token : SampleTokens]
  /\ kind = "request" => input \in [pubkey : SamplePubkeys, jwt : SampleTokens, jws : SampleJws]
  /\ now \in Nat

LEMMA TypedInit == Init => Typed
<1> SUFFICES ASSUME Init PROVE Typed
  OBVIOUS
<1>1. now \in Nat
  BY LimitsAssumption DEF Init
<1>2. CASE kind \in {"bytes", "text", "pem", "chain"} /\ input = <<>>
  <2>1. input \in Seq(SampleBytes) /\ input \in Seq(SampleChars) /\ input \in Seq(Pieces)
    BY <1>2
  <2>2. IsChain(input)
    BY <1>2 DEF IsChain, Range
  <2> QED BY <1>1, <1>2, <2>1, <2>2 DEF Typed
<1>3. CASE kind = "digests" /\ input \in SampleDigests \X SampleDigests
  BY <1>1, <1>3 DEF Typed
<1>5. CASE kind = "token" /\ input \in [jwks : {<<>>}, token : SampleTokens]
  <2>1. PICK t \in SampleTokens : input = [jwks |-> <<>>, token |-> t]
    BY <1>5
  <2>2. <<>> \in Seq(SampleKeys)
    OBVIOUS
  <2>3. input \in [jwks : Seq(SampleKeys), token : SampleTokens]
    BY <2>1, <2>2
  <2> QED BY <1>1, <1>5, <2>3 DEF Typed
<1>6. CASE kind = "request" /\ input \in [pubkey : SamplePubkeys, jwt : SampleTokens, jws : SampleJws]
  BY <1>1, <1>6 DEF Typed
<1> QED BY <1>2, <1>3, <1>5, <1>6 DEF Init

LEMMA TypedNext == Typed /\ [Next]_vars => Typed'
<1> SUFFICES ASSUME Typed, [Next]_vars PROVE Typed'
  OBVIOUS
<1>1. ASSUME NEW k \in {"bytes", "text", "pem"}, NEW S, NEW max, input \in Seq(S),
             k = "bytes" => S = SampleBytes, k = "text" => S = SampleChars,
             k = "pem" => S = Pieces,
             Grow(k, S, max)
      PROVE  Typed'
  <2>1. PICK piece \in S : input' = Append(input, piece)
    BY <1>1 DEF Grow
  <2>2. input' \in Seq(S)
    BY <1>1, <2>1
  <2>3. kind = k /\ kind' = kind /\ now' = now
    BY <1>1 DEF Grow
  <2> QED BY <1>1, <2>2, <2>3 DEF Typed
<1>2. CASE GrowBytes
  BY <1>1, <1>2 DEF GrowBytes, Grow, Typed
<1>3. CASE GrowText
  BY <1>1, <1>3 DEF GrowText, Grow, Typed
<1>4. CASE GrowPem
  BY <1>1, <1>4 DEF GrowPem, Grow, Typed, Pieces
<1>6. CASE GrowChain
  <2>1. PICK x : x = input
    OBVIOUS
  <2>2. IsChain(x) /\ kind = "chain" /\ kind' = kind /\ now' = now /\ Len(x) < MaxChain
    BY <1>6, <2>1 DEF GrowChain, Typed
  <2>3. PICK c \in SampleCerts(Len(x)) : input' = <<c>> \o x
    BY <1>6, <2>1 DEF GrowChain
  <2>4. IsCert(c)
    <3>1. Len(x) \in 0 .. MaxChain
      BY <2>2, SampleAssumption DEF IsChain
    <3> QED BY <3>1, SampleAssumption
  <2>5. IsChain(<<c>> \o x)
    <3> DEFINE y == <<c>> \o x
    <3>1. x \in Seq(Range(x)) /\ \A d \in Range(x) : IsCert(d)
      BY <2>2 DEF IsChain
    <3>2. Len(y) = Len(x) + 1 /\ DOMAIN y = 1 .. Len(x) + 1 /\ y[1] = c
          /\ \A i \in 2 .. Len(x) + 1 : y[i] = x[i - 1] /\ i - 1 \in DOMAIN x
      BY <3>1
    <3>3. y \in Seq({c} \cup Range(x))
      BY <3>1
    <3>4. \A i \in DOMAIN y : IsCert(y[i])
      <4>1. \A i \in DOMAIN x : IsCert(x[i])
        BY <3>1 DEF Range
      <4>2. ASSUME NEW i \in DOMAIN y PROVE IsCert(y[i])
        <5> HIDE DEF y
        <5>1. i = 1 \/ i \in 2 .. Len(x) + 1
          BY <3>1, <3>2
        <5> QED BY <5>1, <3>2, <4>1, <2>4
      <4> QED BY <4>2
    <3>5. y \in Seq(Range(y))
      <4> HIDE DEF y
      <4> QED BY <3>3 DEF Range
    <3>6. IsChain(y)
      <4> HIDE DEF y
      <4> QED BY <3>4, <3>5 DEF IsChain, Range
    <3> QED BY <3>6
  <2> QED BY <2>2, <2>3, <2>5 DEF Typed
<1>7. CASE PinKey
  <2>1. PICK k \in SampleKeys : input' = [input EXCEPT !.jwks = Append(@, k)]
    BY <1>7 DEF PinKey
  <2>2. kind = "token" /\ kind' = kind /\ now' = now /\ input \in [jwks : Seq(SampleKeys), token : SampleTokens]
    BY <1>7 DEF PinKey, Typed
  <2>3. input' \in [jwks : Seq(SampleKeys), token : SampleTokens]
    <3>1. Append(input.jwks, k) \in Seq(SampleKeys)
      BY <2>2
    <3> QED BY <2>1, <2>2, <3>1
  <2> QED BY <2>2, <2>3 DEF Typed
<1>8. CASE Tick
  BY <1>8 DEF Tick, Typed
<1>9. CASE UNCHANGED vars
  BY <1>9 DEF Typed, vars
<1> QED BY <1>2, <1>3, <1>4, <1>6, <1>7, <1>8, <1>9 DEF Next

LEMMA TypedAlways == Spec => []Typed
BY TypedInit, TypedNext, PTL DEF Spec

-----------------------------------------------------------------------------
(* Hex *)

\* Searching the manifest as text, in any case, for the hex of a pubkey or a
\* hash (contains_pubkey, the enroll handler) finds exactly the entries whose
\* digits stand for those bytes.
THEOREM TextMatch == Spec => []TextMatchIsByteMatch
<1>1. Typed => TextMatchIsByteMatch
  <2> SUFFICES ASSUME Typed, kind = "text", NEW b \in SampleBytes, NEW c \in SampleBytes
               PROVE  eq_ignore_ascii_case(input, hex_encode(<<b, c>>)) <=> hex_decode(input) = <<b, c>>
    BY DEF TextMatchIsByteMatch
  <2>1. PICK s : s = input
    OBVIOUS
  <2>2. s \in Seq(Nat)
    BY <2>1, SampleAssumption, SeqWidens DEF Typed
  <2>3. <<b, c>> \in Seq(Byte)
    BY SampleAssumption DEF Byte
  <2> QED BY <2>1, <2>2, <2>3, HexText
<1> QED BY <1>1, TypedAlways, PTL

-----------------------------------------------------------------------------
(* The certificate chain *)

\* What certificate i may do by itself.
CanIssue(x, i) == x[i].ca = "yes" /\ x[i].key_usage # "no_cert_sign"

Own(x, i) == IF x[i].path_len = None THEN MaxX5c ELSE x[i].path_len

\* One step of Authority: p is one more than what the certificate above left.
Lowered(p, x, i) == IF CanIssue(x, i) /\ p - 1 >= 0 THEN Min({p - 1, Own(x, i)}) ELSE -1

LEMMA OwnIsNat ==
  ASSUME NEW x, IsChain(x), NEW i \in 1 .. Len(x)
  PROVE  Own(x, i) \in Nat
<1>1. x[i] \in Range(x)
  BY DEF IsChain, Range
<1>2. x[i].path_len \in Nat \cup {None}
  BY <1>1 DEF IsChain, IsCert
<1> QED BY <1>2, LimitsAssumption DEF Own

LEMMA LoweredBy ==
  ASSUME NEW p \in Int, NEW x, NEW i, Own(x, i) \in Nat
  PROVE  /\ Lowered(p, x, i) \in Int
         /\ \A k \in Nat : Lowered(p, x, i) >= k <=>
                             CanIssue(x, i) /\ Own(x, i) >= k /\ p >= k + 1
<1> DEFINE a == p - 1
           o == Own(x, i)
<1>1. a \in Int /\ o \in Int
  OBVIOUS
<1>2. Min({a, o}) = IF a <= o THEN a ELSE o
  <2> HIDE DEF a, o
  <2>1. CASE a <= o
    <3>1. {a, o} \in SUBSET Int /\ a \in {a, o} /\ \A k \in {a, o} : a <= k
      BY <1>1, <2>1
    <3>2. Min({a, o}) = a
      BY <3>1, MinIs
    <3> QED BY <2>1, <3>2
  <2>2. CASE ~(a <= o)
    <3>1. {a, o} \in SUBSET Int /\ o \in {a, o} /\ \A k \in {a, o} : o <= k
      BY <1>1, <2>2
    <3>2. Min({a, o}) = o
      BY <3>1, MinIs
    <3> QED BY <2>2, <3>2
  <2> QED BY <2>1, <2>2
<1>3. PICK v : v = Lowered(p, x, i)
  OBVIOUS
<1>4. v = IF CanIssue(x, i) /\ p - 1 >= 0 THEN (IF p - 1 <= o THEN p - 1 ELSE o) ELSE -1
  BY <1>2, <1>3 DEF Lowered
<1> HIDE DEF o
<1>5. v \in Int /\ \A k \in Nat : v >= k <=> CanIssue(x, i) /\ o >= k /\ p >= k + 1
  BY <1>1, <1>4
<1> QED BY <1>3, <1>5 DEF o

\* What the recursion of Authority says of a.
Authorities(a, x) ==
  /\ DOMAIN a = 1 .. Len(x)
  /\ \A i \in 1 .. Len(x) :
       a[i] = Lowered(IF i = Len(x) THEN MaxX5c + 1 ELSE a[i + 1], x, i)

LEMMA AuthorityRun ==
  ASSUME NEW x, IsChain(x)
  PROVE  Authorities(Authority(x), x)
<1> DEFINE Above(a, i) == IF i = Len(x) THEN MaxX5c ELSE a[i + 1] - 1
           Turn(a, i) == IF x[i].ca = "yes" /\ x[i].key_usage # "no_cert_sign" /\ Above(a, i) >= 0
                         THEN Min({Above(a, i), IF x[i].path_len = None THEN MaxX5c ELSE x[i].path_len})
                         ELSE -1
           Loop(a) == [i \in 1 .. Len(x) |-> Turn(a, i)]
           A == CHOOSE a : a = Loop(a)
<1>1. PICK n \in Nat : n = Len(x)
  BY DEF IsChain
<1> DEFINE step == [q \in Int \X (1 .. n) |-> Lowered(q[1], x, n + 1 - q[2])]
<1>2. \A p \in Int, m \in 1 .. n :
         step[<<p, m>>] = Lowered(p, x, n + 1 - m) /\ Lowered(p, x, n + 1 - m) \in Int
  <2> SUFFICES ASSUME NEW p \in Int, NEW m \in 1 .. n
               PROVE  step[<<p, m>>] = Lowered(p, x, n + 1 - m) /\ Lowered(p, x, n + 1 - m) \in Int
    OBVIOUS
  <2>1. n + 1 - m \in 1 .. Len(x)
    BY <1>1
  <2>2. Lowered(p, x, n + 1 - m) \in Int
    BY <2>1, OwnIsNat, LoweredBy
  <2> QED BY <2>2
<1>3. IsLoop(step, n, Int, MaxX5c + 1)
  <2>1. step \in [Int \X (1 .. n) -> Int]
    BY <1>2
  <2> HIDE DEF step
  <2> QED BY <2>1, LimitsAssumption DEF IsLoop
<1>4. PICK f : IsRun(f, step, n, Int, MaxX5c + 1)
  <2> HIDE DEF step
  <2> QED BY <1>3, Iteration
<1>5. /\ f \in [0 .. n -> Int] /\ f[0] = MaxX5c + 1
      /\ \A m \in 1 .. n : f[m] = Lowered(f[m - 1], x, n + 1 - m)
  <2>1. \A m \in 1 .. n : f[m - 1] \in Int
    BY <1>4 DEF IsRun
  <2> HIDE DEF step
  <2> QED BY <1>2, <1>4, <2>1 DEF IsRun
<1> DEFINE g == [i \in 1 .. n |-> f[n + 1 - i]]
<1>6. \A i \in 1 .. n : g[i] = Lowered(IF i = n THEN MaxX5c + 1 ELSE g[i + 1], x, i)
  <2> SUFFICES ASSUME NEW i \in 1 .. n
               PROVE  g[i] = Lowered(IF i = n THEN MaxX5c + 1 ELSE g[i + 1], x, i)
    OBVIOUS
  <2>1. n + 1 - i \in 1 .. n /\ n + 1 - (n + 1 - i) = i /\ (n + 1 - i) - 1 = n - i
    OBVIOUS
  <2>2. f[n + 1 - i] = Lowered(f[n - i], x, i)
    BY <1>5, <2>1
  <2>3. f[n - i] = IF i = n THEN MaxX5c + 1 ELSE g[i + 1]
    BY <1>5
  <2> QED BY <2>2, <2>3
<1>7. \A a : \A i \in 1 .. n : Turn(a, i) = Lowered(IF i = n THEN MaxX5c + 1 ELSE a[i + 1], x, i)
  <2> SUFFICES ASSUME NEW a, NEW i \in 1 .. n
               PROVE  Turn(a, i) = Lowered(IF i = n THEN MaxX5c + 1 ELSE a[i + 1], x, i)
    OBVIOUS
  <2>1. Above(a, i) = (IF i = n THEN MaxX5c + 1 ELSE a[i + 1]) - 1
    BY <1>1, LimitsAssumption
  <2> HIDE DEF Above
  <2> QED BY <2>1, Zenon DEF Lowered, CanIssue, Own
<1>8. g = Loop(g)
  <2>1. \A i \in 1 .. n : g[i] = Turn(g, i)
    BY <1>6, <1>7
  <2> HIDE DEF Turn
  <2> QED BY <1>1, <2>1
<1>9. A = Loop(A)
  BY <1>8, Zenon
<1>10. Authority(x) = A
  BY DEF Authority
<1> HIDE DEF A
<1>11. DOMAIN A = 1 .. n /\ \A i \in 1 .. n : A[i] = Turn(A, i)
  <2> HIDE DEF Turn
  <2> QED BY <1>1, <1>9
<1> HIDE DEF Turn
<1> QED BY <1>1, <1>7, <1>10, <1>11 DEF Authorities

\* What certificate i leaves, for a chain of length n: at least k if and only
\* if it and all above may issue and bear k more below.
LEMMA AuthorityAtLeast ==
  ASSUME NEW x, IsChain(x), NEW a, Authorities(a, x), NEW i \in 1 .. Len(x), NEW k \in Nat
  PROVE  a[i] >= k <=>
           /\ MaxX5c >= k + Len(x) - i
           /\ \A j \in i .. Len(x) : CanIssue(x, j) /\ Own(x, j) >= k + j - i
<1>1. PICK n \in Nat : n = Len(x)
  BY DEF IsChain
<1> DEFINE Bears(m, c) == /\ MaxX5c >= c + n - m
                          /\ \A j \in m .. n : CanIssue(x, j) /\ Own(x, j) >= c + j - m
           Good(m) == a[m] \in Int /\ \A c \in Nat : a[m] >= c <=> Bears(m, c)
           T == {d \in 0 .. n - 1 : Good(n - d)}
<1>2. \A m \in 1 .. n : Own(x, m) \in Nat
  BY <1>1, OwnIsNat
<1>3. \A m \in 1 .. n : a[m] = Lowered(IF m = n THEN MaxX5c + 1 ELSE a[m + 1], x, m)
  BY <1>1 DEF Authorities
<1>4. ASSUME NEW m \in 1 .. n, NEW p \in Int, a[m] = Lowered(p, x, m),
             \A c \in Nat : CanIssue(x, m) /\ Own(x, m) >= c /\ p >= c + 1 <=> Bears(m, c)
      PROVE  Good(m)
  <2> HIDE DEF Bears
  <2> QED BY <1>2, <1>4, LoweredBy
<1>5. ASSUME 1 <= n PROVE Good(n)
  <2>1. a[n] = Lowered(MaxX5c + 1, x, n)
    BY <1>3, <1>5
  <2>2. \A c \in Nat : CanIssue(x, n) /\ Own(x, n) >= c /\ MaxX5c + 1 >= c + 1 <=> Bears(n, c)
    BY <1>2, <1>5, LimitsAssumption
  <2> HIDE DEF Bears, Good
  <2> QED BY <1>4, <1>5, <2>1, <2>2, LimitsAssumption
<1>6. ASSUME NEW m \in 1 .. n - 1, Good(m + 1) PROVE Good(m)
  <2>1. a[m] = Lowered(a[m + 1], x, m) /\ a[m + 1] \in Int
    BY <1>3, <1>6
  <2>2. ASSUME NEW c \in Nat
        PROVE  CanIssue(x, m) /\ Own(x, m) >= c /\ a[m + 1] >= c + 1 <=> Bears(m, c)
    <3>1. a[m + 1] >= c + 1 <=> Bears(m + 1, c + 1)
      <4>1. c + 1 \in Nat
        OBVIOUS
      <4>2. \A d \in Nat : a[m + 1] >= d <=> Bears(m + 1, d)
        BY <1>6
      <4> HIDE DEF Bears
      <4> QED BY <4>1, <4>2
    <3>2. Bears(m + 1, c + 1) <=>
            /\ MaxX5c >= c + n - m
            /\ \A j \in m + 1 .. n : CanIssue(x, j) /\ Own(x, j) >= c + j - m
      <4>1. c + 1 + n - (m + 1) = c + n - m /\ \A j \in m + 1 .. n : c + 1 + j - (m + 1) = c + j - m
        OBVIOUS
      <4> QED BY <4>1
    <3>3. \A j : j \in m .. n <=> j = m \/ j \in m + 1 .. n
      OBVIOUS
    <3>4. c + m - m = c
      OBVIOUS
    <3>5. Bears(m, c) <=> CanIssue(x, m) /\ Own(x, m) >= c /\ Bears(m + 1, c + 1)
      BY <3>2, <3>3, <3>4
    <3> QED BY <3>1, <3>5
  <2>3. m \in 1 .. n
    OBVIOUS
  <2> HIDE DEF Bears, Good
  <2> QED BY <1>4, <2>1, <2>2, <2>3
<1>7. ASSUME 1 <= n PROVE \A d \in 0 .. n - 1 : d \in T
  <2>1. 0 \in T
    BY <1>5, <1>7
  <2>2. ASSUME NEW d \in 1 .. n - 1, d - 1 \in T PROVE d \in T
    <3>1. n - d \in 1 .. n - 1 /\ n - (d - 1) = n - d + 1
      OBVIOUS
    <3> HIDE DEF Good
    <3> QED BY <1>6, <2>2, <3>1
  <2>3. n - 1 \in Nat
    BY <1>7
  <2> HIDE DEF T
  <2> QED BY <2>1, <2>2, <2>3, UpTo
<1>8. Good(i)
  <2>1. n - i \in 0 .. n - 1 /\ n - (n - i) = i /\ 1 <= n
    BY <1>1
  <2> HIDE DEF Good
  <2> QED BY <1>7, <2>1
<1> QED BY <1>1, <1>8

\* The walk over a chain accepts it if and only if it is a valid path.
LEMMA ChainWalk ==
  ASSUME NEW x, IsChain(x)
  PROVE  ChainVerifies(x) <=> ValidPath(x)
<1>1. PICK n \in Nat : n = Len(x) /\ DOMAIN x = 1 .. n
  BY DEF IsChain
<1> SUFFICES ASSUME n \in 2 .. MaxX5c PROVE ChainVerifies(x) <=> ValidPath(x)
  BY <1>1 DEF ChainVerifies, ValidPath
<1>2. Authority(x)[2] >= 0 <=> \A j \in 2 .. n : CanIssue(x, j) /\ Own(x, j) >= j - 2
  <2>1. PICK a : a = Authority(x)
    OBVIOUS
  <2>2. Authorities(a, x)
    BY <2>1, AuthorityRun
  <2>3. 2 \in 1 .. Len(x) /\ 0 \in Nat
    BY <1>1
  <2>4. a[2] >= 0 <=> /\ MaxX5c >= 0 + Len(x) - 2
                      /\ \A j \in 2 .. Len(x) : CanIssue(x, j) /\ Own(x, j) >= 0 + j - 2
    BY <2>2, <2>3, AuthorityAtLeast
  <2>5. MaxX5c >= 0 + n - 2 /\ \A j \in 2 .. n : 0 + j - 2 = j - 2
    BY LimitsAssumption
  <2> QED BY <1>1, <2>1, <2>4, <2>5
<1>3. ASSUME NEW j \in 2 .. n PROVE MayIssue(x[j], j - 1) <=> CanIssue(x, j) /\ Own(x, j) >= j - 2
  <2>1. x[j].path_len \in Nat \cup {None}
    BY <1>1 DEF IsChain, IsCert, Range
  <2>2. MaxX5c >= j - 2
    BY LimitsAssumption
  <2>3. WithinPathLen(x[j], j - 1) <=> Own(x, j) >= j - 2
    BY <2>1, <2>2 DEF WithinPathLen, Own
  <2> QED BY <2>3 DEF MayIssue, CanIssue
<1>4. Authority(x)[2] >= 0 <=> \A i \in DOMAIN x : i > 1 => MayIssue(x[i], i - 1)
  <2>1. \A i : i \in 2 .. n <=> i \in DOMAIN x /\ i > 1
    BY <1>1
  <2> QED BY <1>2, <1>3, <2>1
<1>5. LinksHold(x) <=> \A i \in 2 .. Len(x) : x[i].key = x[i - 1].signer
  <2>1. ASSUME LinksHold(x), NEW i \in 2 .. n PROVE x[i].key = x[i - 1].signer
    <3>1. i - 1 \in 1 .. n - 1 /\ i - 1 + 1 = i
      OBVIOUS
    <3> QED BY <1>1, <2>1, <3>1 DEF LinksHold
  <2>2. ASSUME \A i \in 2 .. n : x[i].key = x[i - 1].signer, NEW i \in 1 .. n - 1
        PROVE  x[i].signer = x[i + 1].key
    <3>1. i + 1 \in 2 .. n /\ i + 1 - 1 = i
      OBVIOUS
    <3> QED BY <2>2, <3>1
  <2> QED BY <1>1, <2>1, <2>2 DEF LinksHold
<1> QED BY <1>1, <1>4, <1>5, Zenon DEF ChainVerifies, ValidPath

\* verify_storekit_jws's walk, which sees one certificate and its depth at a
\* time, accepts the chains path validation from the root down accepts, for
\* chains of any length and any path lengths.
THEOREM ChainWalkRight == Spec => []ChainWalkIsPathValidation
<1>1. Typed => ChainWalkIsPathValidation
  <2> SUFFICES ASSUME Typed, kind = "chain" PROVE ChainVerifies(input) <=> ValidPath(input)
    BY DEF ChainWalkIsPathValidation
  <2>1. PICK x : x = input
    OBVIOUS
  <2> QED BY <2>1, ChainWalk DEF Typed
<1> QED BY <1>1, TypedAlways, PTL

-----------------------------------------------------------------------------
(* The pinned keys and the identity token *)

Maps(K, V) == UNION {[X -> V] : X \in SUBSET K}

LEMMA InsertTyped ==
  ASSUME NEW K, NEW V, NEW map \in Maps(K, V), NEW kid \in K, NEW key \in V
  PROVE  insert(map, kid, key) \in Maps(K, V)
<1>1. PICK X \in SUBSET K : map \in [X -> V]
  BY DEF Maps
<1>2. insert(map, kid, key) \in [X \cup {kid} -> V]
  BY <1>1 DEF insert
<1>3. X \cup {kid} \in SUBSET K
  BY <1>1
<1> QED BY <1>2, <1>3 DEF Maps

\* out is the key map after each turn of the loop of load_apple_jwt_keys.
Loads(out, jwks) ==
  /\ DOMAIN out = 0 .. Len(jwks) /\ out[0] = <<>>
  /\ \A i \in 1 .. Len(jwks) :
       out[i] = IF Usable(jwks[i]) THEN insert(out[i - 1], jwks[i].kid, jwks[i].key) ELSE out[i - 1]
  /\ load_apple_jwt_keys(jwks) = out[Len(jwks)]

LEMMA LoadRun ==
  ASSUME NEW S, NEW jwks \in Seq(S)
  PROVE  \E out : Loads(out, jwks)
<1>1. PICK n \in Nat : n = Len(jwks)
  OBVIOUS
<1> DEFINE K == {jwks[i].kid : i \in 1 .. n}
           V == {jwks[i].key : i \in 1 .. n}
           Turn(t, i) == IF Usable(jwks[i]) THEN insert(t, jwks[i].kid, jwks[i].key) ELSE t
           step == [x \in Maps(K, V) \X (1 .. n) |-> Turn(x[1], x[2])]
           Loop(k) == [i \in 0 .. Len(jwks) |-> IF i = 0 THEN <<>> ELSE Turn(k[i - 1], i)]
<1>2. \A t \in Maps(K, V), i \in 1 .. n : Turn(t, i) \in Maps(K, V) /\ step[<<t, i>>] = Turn(t, i)
  <2> SUFFICES ASSUME NEW t \in Maps(K, V), NEW i \in 1 .. n
               PROVE  Turn(t, i) \in Maps(K, V) /\ step[<<t, i>>] = Turn(t, i)
    OBVIOUS
  <2>1. jwks[i].kid \in K /\ jwks[i].key \in V
    OBVIOUS
  <2>2. Turn(t, i) \in Maps(K, V)
    <3> HIDE DEF K, V
    <3> QED BY <2>1, InsertTyped
  <2> HIDE DEF K, V, Turn
  <2> QED BY <2>2
<1>3. IsLoop(step, n, Maps(K, V), <<>>)
  <2>1. <<>> \in Maps(K, V)
    <3>1. <<>> \in [{} -> V] /\ {} \in SUBSET K
      OBVIOUS
    <3> QED BY <3>1 DEF Maps
  <2>2. step \in [Maps(K, V) \X (1 .. n) -> Maps(K, V)]
    <3> HIDE DEF K, V, Turn
    <3> QED BY <1>2
  <2> HIDE DEF step, K, V
  <2> QED BY <2>1, <2>2 DEF IsLoop
<1>4. PICK f : IsRun(f, step, n, Maps(K, V), <<>>)
  <2> HIDE DEF step, K, V
  <2> QED BY <1>3, Iteration
<1>5. /\ DOMAIN f = 0 .. n /\ f = [i \in 0 .. n |-> f[i]] /\ f[0] = <<>>
      /\ \A i \in 1 .. n : f[i] = Turn(f[i - 1], i)
  <2> HIDE DEF step, K, V, Turn
  <2>1. \A i \in 1 .. n : f[i - 1] \in Maps(K, V)
    BY <1>4 DEF IsRun
  <2> QED BY <1>2, <1>4, <2>1 DEF IsRun
<1>6. f = Loop(f)
  <2> HIDE DEF Turn
  <2> QED BY <1>1, <1>5
<1>7. PICK out : out = Loop(out) /\ load_apple_jwt_keys(jwks) = out[Len(jwks)]
  <2> DEFINE L == CHOOSE k : k = Loop(k)
  <2>1. L = Loop(L)
    BY <1>6, Zenon
  <2>2. load_apple_jwt_keys(jwks) = L[Len(jwks)]
    BY DEF load_apple_jwt_keys
  <2> HIDE DEF L, Loop
  <2> QED BY <2>1, <2>2
<1>8. DOMAIN out = 0 .. n /\ out[0] = <<>> /\ \A i \in 1 .. n : out[i] = Turn(out[i - 1], i)
  <2> HIDE DEF Turn
  <2> QED BY <1>1, <1>7
<1> QED BY <1>1, <1>7, <1>8 DEF Loads

\* Entry j of the set is usable and has this kid.
Fits(jwks, j, kid) == jwks[j].kid = kid /\ Usable(jwks[j])

\* The kids of the map are those of usable entries, and a kid has the key of
\* the last of them.
LEMMA LoadedKeys ==
  ASSUME NEW S, NEW jwks \in Seq(S), NEW kid
  PROVE  LET keys == load_apple_jwt_keys(jwks)
         IN /\ kid \in DOMAIN keys <=> \E j \in 1 .. Len(jwks) : Fits(jwks, j, kid)
            /\ kid \in DOMAIN keys =>
                 \E m \in 1 .. Len(jwks) :
                   /\ Fits(jwks, m, kid) /\ keys[kid] = jwks[m].key
                   /\ \A j \in 1 .. Len(jwks) : Fits(jwks, j, kid) => j <= m
<1>1. PICK n \in Nat : n = Len(jwks)
  OBVIOUS
<1>2. PICK out : Loads(out, jwks)
  BY LoadRun
<1> DEFINE Has(i) == kid \in DOMAIN out[i] <=> \E j \in 1 .. i : Fits(jwks, j, kid)
           Newest(i) == kid \in DOMAIN out[i] =>
                          \E m \in 1 .. i :
                            /\ Fits(jwks, m, kid) /\ out[i][kid] = jwks[m].key
                            /\ \A j \in 1 .. i : Fits(jwks, j, kid) => j <= m
           T == {i \in 0 .. n : Has(i) /\ Newest(i)}
<1>3. Has(0) /\ Newest(0)
  <2>1. DOMAIN out[0] = {}
    BY <1>2 DEF Loads
  <2> QED BY <2>1
<1>4. ASSUME NEW i \in 1 .. n, Has(i - 1), Newest(i - 1) PROVE Has(i) /\ Newest(i)
  <2>1. out[i] = IF Usable(jwks[i]) THEN insert(out[i - 1], jwks[i].kid, jwks[i].key) ELSE out[i - 1]
    BY <1>1, <1>2 DEF Loads
  <2>2. i \in 1 .. i /\ i - 1 \in Nat /\ \A j : j \in 1 .. i <=> j \in 1 .. i - 1 \/ j = i
    OBVIOUS
  <2>3. CASE Fits(jwks, i, kid)
    <3>1. kid \in DOMAIN out[i] /\ out[i][kid] = jwks[i].key
      BY <2>1, <2>3 DEF Fits, insert
    <3>2. \A j \in 1 .. i : j <= i
      OBVIOUS
    <3> QED BY <2>2, <2>3, <3>1, <3>2
  <2>4. CASE ~Fits(jwks, i, kid)
    <3>1. (kid \in DOMAIN out[i] <=> kid \in DOMAIN out[i - 1])
          /\ (kid \in DOMAIN out[i] => out[i][kid] = out[i - 1][kid])
      <4>1. CASE Usable(jwks[i])
        <5>1. kid # jwks[i].kid
          BY <2>4, <4>1 DEF Fits
        <5> QED BY <2>1, <4>1, <5>1 DEF insert
      <4>2. CASE ~Usable(jwks[i])
        BY <2>1, <4>2
      <4> QED BY <4>1, <4>2
    <3>2. Has(i)
      BY <1>4, <2>2, <2>4, <3>1
    <3>3. ASSUME kid \in DOMAIN out[i]
          PROVE  \E m \in 1 .. i : /\ Fits(jwks, m, kid) /\ out[i][kid] = jwks[m].key
                                   /\ \A j \in 1 .. i : Fits(jwks, j, kid) => j <= m
      <4>1. PICK m \in 1 .. i - 1 : /\ Fits(jwks, m, kid) /\ out[i - 1][kid] = jwks[m].key
                                    /\ \A j \in 1 .. i - 1 : Fits(jwks, j, kid) => j <= m
        BY <1>4, <3>1, <3>3
      <4>2. m \in 1 .. i
        BY <2>2
      <4>3. \A j \in 1 .. i : Fits(jwks, j, kid) => j <= m
        BY <2>2, <2>4, <4>1
      <4> QED BY <3>1, <3>3, <4>1, <4>2, <4>3
    <3> QED BY <3>2, <3>3
  <2> QED BY <2>3, <2>4
<1>5. \A i \in 0 .. n : i \in T
  <2>1. 0 \in T
    BY <1>3
  <2>2. ASSUME NEW i \in 1 .. n, i - 1 \in T PROVE i \in T
    <3>1. Has(i - 1) /\ Newest(i - 1) /\ i \in 0 .. n
      BY <2>2
    <3> HIDE DEF Has, Newest
    <3> QED BY <1>4, <3>1
  <2> HIDE DEF T
  <2> QED BY <2>1, <2>2, UpTo
<1>6. Has(n) /\ Newest(n)
  <2> HIDE DEF Has, Newest
  <2> QED BY <1>5
<1>7. load_apple_jwt_keys(jwks) = out[n]
  BY <1>1, <1>2 DEF Loads
<1> QED BY <1>1, <1>6, <1>7

\* The key map says what KeyOf says.
LEMMA KeyOfLoaded ==
  ASSUME NEW S, NEW jwks \in Seq(S), NEW kid, NEW signer, signer # None
  PROVE  KeyOf(jwks, kid) = signer <=>
           kid \in DOMAIN load_apple_jwt_keys(jwks) /\ load_apple_jwt_keys(jwks)[kid] = signer
<1>1. PICK keys : keys = load_apple_jwt_keys(jwks)
  OBVIOUS
<1>2. PICK n \in Nat : n = Len(jwks) /\ DOMAIN jwks = 1 .. n
  OBVIOUS
<1>3. /\ kid \in DOMAIN keys <=> \E j \in 1 .. n : Fits(jwks, j, kid)
      /\ kid \in DOMAIN keys => \E m \in 1 .. n : /\ Fits(jwks, m, kid) /\ keys[kid] = jwks[m].key
                                                  /\ \A j \in 1 .. n : Fits(jwks, j, kid) => j <= m
  BY <1>1, <1>2, LoadedKeys
<1> DEFINE fit == {i \in DOMAIN jwks : /\ jwks[i].kid = kid /\ jwks[i].kty = "RSA"
                                       /\ jwks[i].key # None
                                       /\ jwks[i].use # None => jwks[i].use = "sig"}
<1>4. KeyOf(jwks, kid) = IF fit = {} THEN None ELSE jwks[Max(fit)].key
  BY Zenon DEF KeyOf
<1>5. fit = {i \in 1 .. n : Fits(jwks, i, kid)}
  BY <1>2 DEF Fits, Usable
<1> HIDE DEF fit
<1>6. CASE kid \in DOMAIN keys
  <2>1. PICK m \in 1 .. n : /\ Fits(jwks, m, kid) /\ keys[kid] = jwks[m].key
                            /\ \A j \in 1 .. n : Fits(jwks, j, kid) => j <= m
    BY <1>3, <1>6
  <2>2. fit \in SUBSET Int /\ m \in fit /\ \A k \in fit : m >= k
    BY <1>5, <2>1
  <2>3. Max(fit) = m
    BY <2>2, MaxIs
  <2>4. KeyOf(jwks, kid) = keys[kid]
    BY <1>4, <2>1, <2>2, <2>3
  <2> QED BY <1>1, <1>6, <2>4
<1>7. CASE kid \notin DOMAIN keys
  <2>1. fit = {}
    BY <1>3, <1>5, <1>7
  <2> QED BY <1>1, <1>4, <1>7, <2>1
<1> QED BY <1>6, <1>7

\* Both ways to write the audience are read alike.
LEMMA AudienceRead ==
  ASSUME NEW t, IsToken(t)
  PROVE  aud_contains(t.aud, Audience) <=> t.aud.form # "other" /\ Audience \in Range(t.aud.items)
<1>1. PICK a : a = t.aud.items
  OBVIOUS
<1>2. a \in Seq(STRING) /\ t.aud.form \in {"string", "array", "other"}
      /\ (t.aud.form = "string" => Len(a) = 1)
  BY <1>1 DEF IsToken
<1>3. ASSUME Len(a) = 1 PROVE a = <<Audience>> <=> Audience \in Range(a)
  <2>1. DOMAIN a = {1}
    BY <1>2, <1>3
  <2>2. a = <<a[1]>>
    BY <1>2, <1>3
  <2> QED BY <2>1, <2>2 DEF Range
<1> QED BY <1>1, <1>2, <1>3 DEF aud_contains

LEMMA TokenCheck ==
  ASSUME NEW S, NEW jwks \in Seq(S), NEW t, IsToken(t), now \in Nat
  PROVE  verify_apple_jwt(t, load_apple_jwt_keys(jwks), now) <=> Genuine(t, jwks)
<1>1. PICK keys : keys = load_apple_jwt_keys(jwks)
  OBVIOUS
<1>2. KeyOf(jwks, t.kid) = t.signer <=> t.kid \in DOMAIN keys /\ keys[t.kid] = t.signer
  <2>1. PICK kid, signer : kid = t.kid /\ signer = t.signer
    OBVIOUS
  <2>2. signer # None
    BY <2>1 DEF IsToken
  <2> QED BY <1>1, <2>1, <2>2, KeyOfLoaded
<1>3. aud_contains(t.aud, Audience) <=> t.aud.form # "other" /\ Audience \in Range(t.aud.items)
  BY AudienceRead
<1>4. {"iss", "aud", "exp", "iat", "sub"} \subseteq t.present <=> t.present = Claims
  <2>1. t.present \subseteq Claims
    BY DEF IsToken
  <2> QED BY <2>1, Zenon DEF Claims
<1>5. ~Expired(t.exp, now) <=> now <= t.exp + LEEWAY
  <2>1. t.exp \in Int
    BY DEF IsToken
  <2> QED BY <2>1, LimitsAssumption DEF Expired
<1>6. t.sub_len \in 1 .. MAX_SUB <=> t.sub_len > 0 /\ t.sub_len <= MAX_SUB
  <2>1. t.sub_len \in Nat
    BY DEF IsToken
  <2> QED BY <2>1, LimitsAssumption
<1> QED BY <1>1, <1>2, <1>3, <1>4, <1>5, <1>6, Zenon DEF verify_apple_jwt, decode, Genuine

\* verify_apple_jwt accepts the genuine tokens and no other, whatever the key
\* set load_apple_jwt_keys was given, in whatever order and with whatever
\* entries that are not signing keys or that share a kid.
THEOREM TokensGenuine == Spec => []OnlyGenuineTokens
<1>1. Typed => OnlyGenuineTokens
  <2> SUFFICES ASSUME Typed, kind = "token"
               PROVE  verify_apple_jwt(input.token, load_apple_jwt_keys(input.jwks), now) <=>
                        Genuine(input.token, input.jwks)
    BY DEF OnlyGenuineTokens
  <2>1. PICK t, jwks : t = input.token /\ jwks = input.jwks
    OBVIOUS
  <2>2. jwks \in Seq(SampleKeys) /\ t \in SampleTokens /\ now \in Nat
    BY <2>1 DEF Typed
  <2>3. IsToken(t)
    BY <2>2, SampleAssumption
  <2> QED BY <2>1, <2>2, <2>3, TokenCheck
<1> QED BY <1>1, TypedAlways, PTL

\* The enroll handler gives 401 exactly when one of the two credentials is
\* not good: what it says of account and manifest, it says to a caller whose
\* token is genuine and whose purchase carries a valid chain.
THEOREM AnswersOrdered == Spec => []AnswersInOrder
<1>1. Typed => AnswersInOrder
  <2> SUFFICES ASSUME Typed, kind = "request", input.pubkey # None
               PROVE  EnrollAnswer(input, load_apple_jwt_keys(PinnedKeys), now, SampleManifest) = 401 <=>
                        ~(/\ Genuine(input.jwt, PinnedKeys)
                          /\ input.jws.alg = "ES256" /\ input.jws.x5c # None
                          /\ ValidPath(input.jws.x5c) /\ input.jws.signer = input.jws.x5c[1].key
                          /\ input.jws.payload.bundle_id = Bundle /\ input.jws.payload.has_ids)
    BY DEF AnswersInOrder
  <2>1. PICK t, j : t = input.jwt /\ j = input.jws
    OBVIOUS
  <2>2. t \in SampleTokens /\ j \in SampleJws /\ now \in Nat
    BY <2>1 DEF Typed
  <2>3. verify_apple_jwt(t, load_apple_jwt_keys(PinnedKeys), now) <=> Genuine(t, PinnedKeys)
    <3>1. IsToken(t)
      BY <2>2, SampleAssumption
    <3> QED BY <2>2, <3>1, SampleAssumption, TokenCheck
  <2>4. j.x5c # None => (ChainVerifies(j.x5c) <=> ValidPath(j.x5c))
    <3>1. PICK x : x = j.x5c
      OBVIOUS
    <3>2. x # None => IsChain(x)
      BY <2>2, <3>1, SampleAssumption
    <3> QED BY <3>1, <3>2, ChainWalk
  <2>5. verify_storekit_jws(j) <=> /\ j.alg = "ES256" /\ j.x5c # None
                                   /\ ValidPath(j.x5c) /\ j.signer = j.x5c[1].key
                                   /\ j.payload.bundle_id = Bundle /\ j.payload.has_ids
    BY <2>4, Zenon DEF verify_storekit_jws, PayloadComplete
  <2>6. EnrollAnswer(input, load_apple_jwt_keys(PinnedKeys), now, SampleManifest) = 401 <=>
          ~(verify_apple_jwt(t, load_apple_jwt_keys(PinnedKeys), now) /\ verify_storekit_jws(j))
    BY <2>1 DEF EnrollAnswer
  <2> QED BY <2>1, <2>3, <2>5, <2>6, Zenon
<1> QED BY <1>1, TypedAlways, PTL

-----------------------------------------------------------------------------
(* UUIDs *)

Upper(c) == IF c \in 26 .. 51 THEN c - 26 ELSE c

LEMMA ShoutedIs ==
  ASSUME NEW u \in Seq(Nat)
  PROVE  /\ Shouted(u) \in Seq(Nat) /\ Len(Shouted(u)) = Len(u)
         /\ \A i \in 1 .. Len(u) : Shouted(u)[i] = Upper(u[i])
<1>1. \A x \in Nat : Upper(x) \in Nat
  BY DEF Upper
<1>2. DOMAIN u = 1 .. Len(u) /\ \A i \in 1 .. Len(u) : u[i] \in Nat
  OBVIOUS
<1>3. Shouted(u) = [i \in 1 .. Len(u) |-> Upper(u[i])]
  BY <1>2, Zenon DEF Shouted, Upper
<1> QED BY <1>1, <1>2, <1>3

LEMMA ShoutedAppend ==
  ASSUME NEW u \in Seq(Nat), NEW c \in Nat
  PROVE  Shouted(Append(u, c)) = Append(Shouted(u), Upper(c))
<1>1. PICK n \in Nat : n = Len(u)
  OBVIOUS
<1>2. PICK y \in Seq(Nat) : y = Append(u, c)
  <2>1. Append(u, c) \in Seq(Nat)
    OBVIOUS
  <2> QED BY <2>1
<1>3. Len(y) = n + 1 /\ y[n + 1] = c /\ \A i \in 1 .. n : y[i] = u[i]
  BY <1>1, <1>2
<1>4. PICK v \in Seq(Nat) : v = Shouted(u) /\ Len(v) = n /\ \A i \in 1 .. n : v[i] = Upper(u[i])
  BY <1>1, ShoutedIs
<1>5. PICK w \in Seq(Nat) : w = Shouted(y) /\ Len(w) = n + 1 /\ \A i \in 1 .. n + 1 : w[i] = Upper(y[i])
  BY <1>3, ShoutedIs
<1>6. PICK e \in Nat : e = Upper(c)
  BY DEF Upper
<1>7. w[n + 1] = e /\ \A i \in 1 .. n : w[i] = v[i]
  BY <1>3, <1>4, <1>5, <1>6
<1>8. w = Append(v, e)
  BY <1>4, <1>5, <1>7
<1> QED BY <1>2, <1>4, <1>5, <1>6, <1>8

\* The case of a UUID does not matter to norm.
LEMMA NormShouted ==
  ASSUME NEW s \in Seq(Nat)
  PROVE  Shouted(s) \in Seq(Nat) /\ norm(Shouted(s)) = norm(s)
<1> DEFINE P == {u \in Seq(Nat) : Shouted(u) \in Seq(Nat) /\ norm(Shouted(u)) = norm(u)}
<1>1. <<>> \in P
  <2>1. Shouted(<<>>) = <<>>
    BY DEF Shouted
  <2>2. <<>> \in Seq(Nat)
    OBVIOUS
  <2> QED BY <2>1, <2>2
<1>2. ASSUME NEW u \in Seq(Nat), NEW c \in Nat, u \in P PROVE Append(u, c) \in P
  <2>1. Shouted(Append(u, c)) = Append(Shouted(u), Upper(c))
    BY ShoutedAppend
  <2>2. Upper(c) \in Nat /\ lower(Upper(c)) = lower(c) /\ (Upper(c) = DASH <=> c = DASH)
    BY DEF Upper, lower, DASH
  <2>3. PICK v : v = Shouted(u)
    OBVIOUS
  <2>4. v \in Seq(Nat) /\ norm(v) = norm(u)
    BY <1>2, <2>3
  <2>5. norm(Append(v, Upper(c))) = norm(Append(u, c))
    <3>1. PICK d \in Nat : d = Upper(c)
      BY <2>2
    <3>2. norm(Append(v, d)) = IF d = DASH THEN norm(v) ELSE Append(norm(v), lower(d))
      BY <2>4, NormAppend
    <3>3. norm(Append(u, c)) = IF c = DASH THEN norm(u) ELSE Append(norm(u), lower(c))
      BY NormAppend
    <3> QED BY <2>2, <2>4, <3>1, <3>2, <3>3, Zenon
  <2>6. Append(v, Upper(c)) \in Seq(Nat) /\ Append(u, c) \in Seq(Nat)
    BY <2>2, <2>4
  <2> QED BY <2>1, <2>3, <2>5, <2>6
<1> HIDE DEF P
<1>3. s \in P
  BY <1>1, <1>2, Growing
<1> QED BY <1>3 DEF P

LEMMA SampleDigest ==
  ASSUME NEW d \in SampleDigests
  PROVE  d \in Seq(Byte) /\ Len(d) = 20
<1>1. PICK n \in Nat : n = 20
  OBVIOUS
<1>2. d \in [1 .. n -> 0 .. 255]
  BY <1>1, SampleAssumption, Zenon
<1>3. \A x \in 0 .. 255 : x \in Byte
  BY DEF Byte
<1>4. d \in Seq(0 .. 255) /\ Len(d) = n
  BY <1>2
<1>5. d \in Seq(Byte)
  BY <1>3, <1>4, SeqWidens
<1> QED BY <1>1, <1>4, <1>5

\* Two digests make the same 16 bytes exactly when the kept bits agree.
LEMMA StampsAgree ==
  ASSUME NEW d \in Seq(Byte), Len(d) = 20, NEW e \in Seq(Byte), Len(e) = 20
  PROVE  Stamped(d) = Stamped(e) <=> \A i \in 1 .. 16 : Kept(d, i) = Kept(e, i)
<1>0. \A i \in 1 .. 20 : d[i] \in Byte /\ e[i] \in Byte
  BY Element
<1>1. PICK m, n : m = Stamped(d) /\ n = Stamped(e)
  OBVIOUS
<1>2. m \in Seq(Byte) /\ Long(m, 16) /\ \A i \in 1 .. 16 : m[i] = Mark(d, i)
  BY <1>1, StampedDigest
<1>3. n \in Seq(Byte) /\ Long(n, 16) /\ \A i \in 1 .. 16 : n[i] = Mark(e, i)
  BY <1>1, StampedDigest
<1>4. m = n <=> \A i \in 1 .. 16 : m[i] = n[i]
  <2>1. Len(m) = 16 /\ Len(n) = 16
    BY <1>2, <1>3 DEF Long
  <2>2. ASSUME \A i \in 1 .. 16 : m[i] = n[i] PROVE m = n
    <3>1. \A i \in 1 .. Len(m) : m[i] = n[i]
      BY <2>1, <2>2
    <3> QED BY <1>2, <1>3, <2>1, <3>1, SameSequence
  <2> QED BY <2>2
<1>5. ASSUME NEW i \in 1 .. 16 PROVE Mark(d, i) = Mark(e, i) <=> Kept(d, i) = Kept(e, i)
  <2>1. CASE i = 7
    <3>1. PICK x \in Byte, y \in Byte : x = d[7] /\ y = e[7]
      BY <1>0
    <3>2. (x % 16) + 80 = (y % 16) + 80 <=> x % 16 = y % 16
      BY DEF Byte
    <3> QED BY <2>1, <3>1, <3>2 DEF Mark, Kept
  <2>2. CASE i = 9
    <3>1. PICK x \in Byte, y \in Byte : x = d[9] /\ y = e[9]
      BY <1>0
    <3>2. (x % 64) + 128 = (y % 64) + 128 <=> x % 64 = y % 64
      BY DEF Byte
    <3> QED BY <2>2, <3>1, <3>2 DEF Mark, Kept
  <2>3. CASE i # 7 /\ i # 9
    BY <2>3 DEF Mark, Kept
  <2> QED BY <2>1, <2>2, <2>3
<1> QED BY <1>1, <1>2, <1>3, <1>4, <1>5

\* A UUID made by uuid_v5 of any digest shows version 5 and the RFC variant and
\* keeps the other 122 bits: uuid_eq takes it for another, in whichever case
\* Apple writes it, exactly when those bits agree.
THEOREM UuidBits == Spec => []UuidsKeepTheirBits
<1>1. Typed => UuidsKeepTheirBits
  <2> SUFFICES ASSUME Typed, kind = "digests" PROVE UuidsKeepTheirBits
    BY DEF UuidsKeepTheirBits
  <2>1. PICK d \in SampleDigests, e \in SampleDigests : input = <<d, e>>
    BY DEF Typed
  <2>2. d \in Seq(Byte) /\ Len(d) = 20 /\ e \in Seq(Byte) /\ Len(e) = 20
    BY SampleDigest
  <2>3. PICK mine, theirs, g, h : /\ mine = uuid_v5(d) /\ theirs = uuid_v5(e)
                                  /\ g = hex_encode(Stamped(d)) /\ h = hex_encode(Stamped(e))
    OBVIOUS
  <2>4. /\ mine \in Seq(Nat) /\ norm(mine) = g /\ hex_decode(g) = Stamped(d)
        /\ mine[15] = HEX(5) /\ mine[20] \in {HEX(8), HEX(9), HEX(10), HEX(11)}
    BY <2>2, <2>3, UuidOf
  <2>5. theirs \in Seq(Nat) /\ norm(theirs) = h /\ hex_decode(h) = Stamped(e)
    BY <2>2, <2>3, UuidOf
  <2>6. uuid_eq(mine, Shouted(theirs)) <=> g = h
    BY <2>4, <2>5, NormShouted DEF uuid_eq
  <2>7. g = h <=> Stamped(d) = Stamped(e)
    BY <2>3, <2>4, <2>5
  <2>8. Stamped(d) = Stamped(e) <=> \A i \in 1 .. 16 : Kept(d, i) = Kept(e, i)
    BY <2>2, StampsAgree
  <2>9. input[1] = d /\ input[2] = e
    BY <2>1
  <2> QED BY <2>3, <2>4, <2>6, <2>7, <2>8, <2>9, Zenon DEF UuidsKeepTheirBits
<1> QED BY <1>1, TypedAlways, PTL

-----------------------------------------------------------------------------
(* The base64 decoder *)

LEMMA DecodedBytes ==
  ASSUME NEW s \in Seq(Nat)
  PROVE  b64_decode_any(s) = Concatenated(s)
<1>1. PICK u \in Seq(Nat) : u = Without(s, Skipped)
  BY WithoutTyped
<1>2. Concatenated(s) =
        IF \E i \in DOMAIN u : b64_val(u[i]) = None THEN None
        ELSE [k \in 1 .. Len(AllBits(u)) \div 8 |-> Number(SubSeq(AllBits(u), 8 * k - 7, 8 * k))]
  BY <1>1, Zenon DEF Concatenated, AllBits, BitAt, Skipped
<1>3. CASE Readable(s)
  <2>1. u \in Seq(Symbol)
    BY <1>1, <1>3, DecodedText
  <2>2. PICK d : HasRead(u, d) /\ b64_decode_any(s) = d.out
    BY <1>1, <1>3, DecodedText
  <2>3. ~ \E i \in DOMAIN u : b64_val(u[i]) = None
    BY <2>1, Symbols DEF Symbol
  <2>4. [k \in 1 .. Len(AllBits(u)) \div 8 |-> Number(SubSeq(AllBits(u), 8 * k - 7, 8 * k))] = d.out
    BY <2>1, <2>2, BytesOf
  <2> QED BY <1>2, <2>2, <2>3, <2>4, Zenon
<1>4. CASE ~Readable(s)
  <2>1. b64_decode_any(s) = None
    BY <1>4, Refused, Zenon DEF b64_decode_any
  <2>2. PICK i \in DOMAIN s : s[i] \notin Skipped /\ b64_val(s[i]) = None
    BY <1>4, Refused
  <2>3. PICK c : c = s[i]
    OBVIOUS
  <2>4. In(c, u)
    <3>1. In(c, s) /\ c \notin Skipped
      BY <2>2, <2>3 DEF In
    <3> QED BY <1>1, <3>1, WithoutIn
  <2>5. \E j \in DOMAIN u : b64_val(u[j]) = None
    BY <2>2, <2>3, <2>4, Zenon DEF In
  <2> QED BY <1>2, <2>1, <2>5, Zenon
<1> QED BY <1>3, <1>4

\* The decoder's accumulator is never masked, and need not be: what it has
\* not emitted is always at most six bits at its end, so that it returns the
\* bytes of the concatenated characters, and None where one is no character
\* of either alphabet.
THEOREM DecoderRight == Spec => []DecodesConcatenation
<1>1. Typed => DecodesConcatenation
  <2> SUFFICES ASSUME Typed, kind = "text", BLANK \notin Range(input)
               PROVE  b64_decode_any(input) = Concatenated(input)
    BY DEF DecodesConcatenation
  <2>1. PICK s : s = input
    OBVIOUS
  <2>2. s \in Seq(Nat)
    BY <2>1, SampleAssumption, SeqWidens DEF Typed
  <2> QED BY <2>1, <2>2, DecodedBytes
<1> QED BY <1>1, TypedAlways, PTL

\* Whatever bytes b64url_nopad, b64_encode and hex_encode are given, of any
\* length, the decoders of lib.rs read them back.
THEOREM RoundTripsAlways == Spec => []RoundTrips
<1>1. Typed => RoundTrips
  <2> SUFFICES ASSUME Typed, kind = "bytes"
               PROVE  /\ b64_decode_any(b64url_nopad(input)) = input
                      /\ b64_decode_any(b64_encode(input)) = input
                      /\ hex_decode(hex_encode(input)) = input
    BY DEF RoundTrips
  <2>1. input \in Seq(Byte)
    <3>1. SampleBytes \in SUBSET Byte /\ input \in Seq(SampleBytes)
      BY SampleAssumption DEF Typed, Byte
    <3> QED BY <3>1, SeqWidens
  <2> QED BY <2>1, UrlReadsBack, EncodeReadsBack, HexRoundTrip
<1> QED BY <1>1, TypedAlways, PTL

-----------------------------------------------------------------------------
(* PEM *)

\* c holds the bodies of the blocks F, in their order in the text.
Listed(c, F, text) ==
  /\ Len(c) = Cardinality(F)
  /\ \A p \in F : c[Cardinality({q \in F : q[1] <= p[1]})] = Body(text, p)

LEMMA ListedNone ==
  ASSUME NEW text
  PROVE  Listed(<<>>, {}, text)
<1>1. Len(<<>>) = 0 /\ Cardinality({}) = 0
  BY FS_EmptySet
<1> QED BY <1>1 DEF Listed

\* A block before all the others goes to the front.
LEMMA ListedMore ==
  ASSUME NEW text, NEW T, NEW c \in Seq(T), NEW d \in T, NEW F, IsFiniteSet(F), NEW b,
         d = Body(text, b), b[1] \in Nat, \A q \in F : q[1] \in Nat /\ b[1] < q[1],
         Listed(c, F, text)
  PROVE  Listed(Join(<<d>>, c), F \cup {b}, text)
<1>1. PICK x : x = Join(<<d>>, c)
  OBVIOUS
<1>2. /\ Len(x) = Len(c) + 1 /\ x[1] = d
      /\ \A i \in 1 .. Len(c) : x[i + 1] = c[i]
  BY <1>1 DEF Join
<1>3. b \notin F
  <2>1. ~(b[1] < b[1])
    OBVIOUS
  <2> QED BY <2>1
<1>4. Cardinality(F) \in Nat /\ Cardinality(F \cup {b}) = Cardinality(F) + 1
  BY <1>3, FS_AddElement, FS_CardinalityType
<1>5. Len(x) = Cardinality(F \cup {b})
  BY <1>2, <1>4 DEF Listed
<1>6. x[Cardinality({q \in F \cup {b} : q[1] <= b[1]})] = Body(text, b)
  <2>1. {q \in F \cup {b} : q[1] <= b[1]} = {b}
    <3>1. \A q \in F : ~(q[1] <= b[1])
      OBVIOUS
    <3>2. b[1] <= b[1]
      OBVIOUS
    <3> QED BY <3>1, <3>2, Zenon
  <2>2. Cardinality({b}) = 1
    BY FS_Singleton
  <2> QED BY <1>2, <2>1, <2>2
<1>7. ASSUME NEW p \in F PROVE x[Cardinality({q \in F \cup {b} : q[1] <= p[1]})] = Body(text, p)
  <2>1. PICK R : R = {q \in F : q[1] <= p[1]}
    OBVIOUS
  <2>2. {q \in F \cup {b} : q[1] <= p[1]} = R \cup {b}
    <3>1. b[1] <= p[1]
      OBVIOUS
    <3> QED BY <2>1, <3>1, Zenon
  <2>3. R \in SUBSET F /\ b \notin R /\ p \in R
    <3>1. p[1] <= p[1]
      OBVIOUS
    <3> QED BY <1>3, <2>1, <3>1
  <2>4. IsFiniteSet(R) /\ Cardinality(R) <= Cardinality(F)
    BY <2>3, FS_Subset
  <2>5. Cardinality(R) \in Nat /\ Cardinality(R) # 0
    BY <2>3, <2>4, FS_CardinalityType, FS_EmptySet
  <2>6. Cardinality(R \cup {b}) = Cardinality(R) + 1
    BY <2>3, <2>4, FS_AddElement
  <2>7. Cardinality(R) \in 1 .. Len(c)
    BY <1>4, <2>4, <2>5 DEF Listed
  <2>8. c[Cardinality(R)] = Body(text, p)
    BY <2>1 DEF Listed
  <2> QED BY <1>2, <2>2, <2>6, <2>7, <2>8
<1>8. \A p \in F \cup {b} : x[Cardinality({q \in F \cup {b} : q[1] <= p[1]})] = Body(text, p)
  BY <1>6, <1>7, Zenon
<1> QED BY <1>1, <1>5, <1>8, Zenon DEF Listed

\* What lies between two marks.
Between(text, s, e) == SubSeq(text, s + 1, e - 1)

LEMMA BetweenIs ==
  ASSUME NEW text \in Seq(Pieces), NEW s \in Nat, NEW e \in Nat, s < e, e <= Len(text), NEW D
  PROVE  /\ Between(text, s, e) \in Seq(Pieces)
         /\ (\E i \in DOMAIN Between(text, s, e) : Between(text, s, e)[i] \in D)
              <=> (\E i \in s + 1 .. e - 1 : text[i] \in D)
<1>1. PICK f \in Nat, l \in Nat, m \in Nat : f = s + 1 /\ l = e - 1 /\ m = e - 1 - s
  <2>1. s + 1 \in Nat /\ e - 1 \in Nat /\ e - 1 - s \in Nat
    OBVIOUS
  <2> QED BY <2>1
<1>2. PICK a \in Seq(Pieces) : a = Between(text, s, e) /\ IsSlice(a, text, f, m)
  <2>1. 1 <= f /\ l + 1 = f + m /\ l <= Len(text)
    BY <1>1
  <2>2. Slice(text, f, l) \in Seq(Pieces) /\ IsSlice(Slice(text, f, l), text, f, m)
    BY <2>1, SliceOf
  <2>3. Between(text, s, e) = Slice(text, f, l)
    BY <1>1 DEF Between, Slice
  <2> QED BY <2>2, <2>3
<1>3. DOMAIN a = 1 .. m /\ \A i \in 1 .. m : a[i] = text[s + i]
  <2>1. Len(a) = m /\ \A i \in 1 .. m : a[i] = text[f + i - 1]
    BY <1>2 DEF IsSlice
  <2>2. \A i \in 1 .. m : f + i - 1 = s + i
    BY <1>1
  <2>3. DOMAIN a = 1 .. m
    BY <2>1
  <2>4. \A i \in 1 .. m : a[i] = text[s + i]
    BY <2>1, <2>2, Zenon
  <2> QED BY <2>3, <2>4
<1>4. ASSUME NEW i \in 1 .. m, a[i] \in D PROVE \E j \in s + 1 .. e - 1 : text[j] \in D
  <2>1. s + i \in s + 1 .. e - 1
    BY <1>1
  <2> QED BY <1>3, <1>4, <2>1
<1>5. ASSUME NEW j \in s + 1 .. e - 1, text[j] \in D PROVE \E i \in 1 .. m : a[i] \in D
  <2>1. j - s \in 1 .. m /\ s + (j - s) = j
    BY <1>1
  <2> QED BY <1>3, <1>5, <2>1
<1> QED BY <1>2, <1>3, <1>4, <1>5

\* A BEGIN that another one follows before any END.
Unclosed(text) ==
  \E i, j \in DOMAIN text : /\ i < j /\ text[i] = "BEGIN" /\ text[j] = "BEGIN"
                            /\ \A k \in i .. j : text[k] # "END"

\* A block that is lifted is sound, and its certificate is its body.
LEMMA LiftedIsSound ==
  ASSUME NEW text \in Seq(Pieces), NEW r \in Nat, 1 <= r, NEW s, NEW e, Marked(text, r, s, e),
         DerAt(text, s, e) \notin {None, <<>>}
  PROVE  <<s, e>> \in Sound(text) /\ Body(text, <<s, e>>) = DerAt(text, s, e)
<1>1. /\ s \in Nat /\ e \in Nat /\ r <= s /\ s < e /\ e <= Len(text)
      /\ text[s] = "BEGIN" /\ text[e] = "END"
      /\ \A i \in Nat : s < i /\ i < e => text[i] # "END"
  BY DEF Marked
<1>2. PICK x : x = Between(text, s, e)
  OBVIOUS
<1>3. DerAt(text, s, e) = BodyDer(x)
  BY <1>2 DEF DerAt, Between
<1>4. ~(\E i \in DOMAIN x : x[i] \in {"BEGIN", "noise"}) /\ DerAt(text, s, e) = Without(x, {"eol"})
  BY <1>3, Zenon DEF BodyDer
<1>5. \A i \in s + 1 .. e - 1 : text[i] \notin {"BEGIN", "noise"}
  BY <1>1, <1>2, <1>4, BetweenIs
<1>6. \A i \in s + 1 .. e - 1 : text[i] # "END" /\ text[i] # "BEGIN" /\ text[i] # "noise"
  <2>1. \A i \in s + 1 .. e - 1 : i \in Nat /\ s < i /\ i < e
    BY <1>1
  <2> QED BY <1>1, <1>5, <2>1
<1>7. PICK p : p = <<s, e>> /\ p[1] = s /\ p[2] = e
  <2>1. <<s, e>>[1] = s /\ <<s, e>>[2] = e
    OBVIOUS
  <2> QED BY <2>1, Zenon
<1>8. Body(text, p) = DerAt(text, s, e)
  <2>1. Body(text, p) = Without(Between(text, s, e), {"eol"})
    BY <1>7, Zenon DEF Body, Between
  <2> QED BY <1>2, <1>4, <2>1
<1>9. p \in Blocks(text)
  <2>1. s \in DOMAIN text /\ e \in DOMAIN text
    BY <1>1
  <2>2. p \in (DOMAIN text) \X (DOMAIN text)
    BY <1>7, <2>1
  <2> QED BY <1>1, <1>6, <1>7, <2>2 DEF Blocks
<1>10. Body(text, p) # <<>>
  BY <1>8
<1>11. p \in Sound(text)
  BY <1>6, <1>7, <1>9, <1>10 DEF Sound
<1> QED BY <1>7, <1>8, <1>11

\* A sound block at the first BEGIN is lifted.
LEMMA SoundIsLifted ==
  ASSUME NEW text \in Seq(Pieces), NEW r \in Nat, 1 <= r, NEW s, NEW e, Marked(text, r, s, e),
         <<s, e>> \in Sound(text)
  PROVE  DerAt(text, s, e) \notin {None, <<>>}
<1>1. s \in Nat /\ e \in Nat /\ s < e /\ e <= Len(text)
  BY DEF Marked
<1>2. PICK p : p = <<s, e>> /\ p[1] = s /\ p[2] = e
  OBVIOUS
<1>3. /\ Body(text, p) # <<>>
      /\ \A i \in s + 1 .. e - 1 : text[i] # "noise" /\ text[i] # "BEGIN"
  BY <1>2 DEF Sound, Blocks
<1>4. PICK x : x = Between(text, s, e)
  OBVIOUS
<1>5. x \in Seq(Pieces) /\ ~(\E i \in DOMAIN x : x[i] \in {"BEGIN", "noise"})
  <2>1. ~(\E i \in s + 1 .. e - 1 : text[i] \in {"BEGIN", "noise"})
    BY <1>3
  <2> QED BY <1>1, <1>4, <2>1, BetweenIs
<1>6. DerAt(text, s, e) = Without(x, {"eol"})
  <2>1. DerAt(text, s, e) = BodyDer(x)
    BY <1>4 DEF DerAt, Between
  <2> QED BY <1>5, <2>1, Zenon DEF BodyDer
<1>7. Body(text, p) = Without(x, {"eol"})
  BY <1>2, <1>4, Zenon DEF Body, Between
<1>8. Without(x, {"eol"}) \in Seq(Pieces)
  BY <1>5, WithoutTyped
<1>9. DerAt(text, s, e) # None
  BY <1>6, <1>8, SampleAssumption
<1> QED BY <1>3, <1>6, <1>7, <1>9

\* With every BEGIN closed, the other blocks from r on start behind the END.
LEMMA OthersBehind ==
  ASSUME NEW text \in Seq(Pieces), NEW r \in Nat, 1 <= r, NEW s, NEW e, Marked(text, r, s, e),
         ~Unclosed(text), NEW p \in Sound(text), r <= p[1]
  PROVE  p = <<s, e>> \/ e + 1 <= p[1]
<1>1. /\ s \in Nat /\ e \in Nat /\ r <= s /\ s < e /\ e <= Len(text)
      /\ text[s] = "BEGIN" /\ text[e] = "END"
      /\ \A i \in Nat : r <= i /\ i < s => text[i] # "BEGIN"
      /\ \A i \in Nat : s < i /\ i < e => text[i] # "END"
  BY DEF Marked
<1>2. PICK a \in DOMAIN text, b \in DOMAIN text : p = <<a, b>> /\ p[1] = a /\ p[2] = b
  BY DEF Sound, Blocks
<1>3. /\ a < b /\ text[a] = "BEGIN" /\ text[b] = "END"
      /\ \A i \in a + 1 .. b - 1 : text[i] # "END"
  BY <1>2 DEF Sound, Blocks
<1>4. a \in Nat /\ b \in Nat /\ r <= a /\ 1 <= a /\ b <= Len(text)
  BY <1>2
<1>5. s <= a
  BY <1>1, <1>3, <1>4
<1>6. CASE a = s
  <2>1. ~(b < e)
    BY <1>1, <1>3, <1>4, <1>6
  <2>2. ~(e < b)
    <3>1. e < b => e \in a + 1 .. b - 1
      BY <1>1, <1>4, <1>6
    <3> QED BY <1>1, <1>3, <3>1
  <2>3. b = e
    BY <1>1, <1>4, <2>1, <2>2
  <2> QED BY <1>2, <1>6, <2>3
<1>7. CASE a # s
  <2>1. s < a
    BY <1>1, <1>4, <1>5, <1>7
  <2>2. ~(a < e)
    <3> SUFFICES ASSUME a < e PROVE FALSE
      OBVIOUS
    <3>1. ASSUME NEW k \in s .. a PROVE text[k] # "END"
      <4>1. CASE k = s
        BY <1>1, <4>1
      <4>2. CASE k # s
        <5>1. k \in Nat /\ s < k /\ k < e
          BY <1>1, <1>4, <4>2
        <5> QED BY <1>1, <5>1
      <4> QED BY <4>1, <4>2
    <3>2. s \in DOMAIN text
      BY <1>1
    <3> QED BY <1>1, <1>2, <1>3, <2>1, <3>1, <3>2 DEF Unclosed
  <2>3. a # e
    BY <1>1, <1>3
  <2> QED BY <1>1, <1>2, <1>4, <2>2, <2>3
<1> QED BY <1>6, <1>7

\* The sound blocks from r on.
From(text, r) == {p \in Sound(text) : r <= p[1]}

\* What the loop lifts from r on: bodies of sound blocks, and of all of them
\* when every BEGIN is closed.
Lifting(c, text, r) ==
  /\ c \in Seq(Seq(Pieces))
  /\ \A k \in DOMAIN c : \E p \in Sound(text) : c[k] = Body(text, p)
  /\ ~Unclosed(text) => Listed(c, From(text, r), text)

LEMMA SoundPlaces ==
  ASSUME NEW text \in Seq(Pieces), NEW p \in Sound(text)
  PROVE  /\ p[1] \in Nat /\ p[2] \in Nat /\ 1 <= p[1] /\ p[1] < p[2] /\ p[2] <= Len(text)
         /\ text[p[1]] = "BEGIN" /\ text[p[2]] = "END"
<1>1. p \in (DOMAIN text) \X (DOMAIN text) /\ p[1] < p[2] /\ text[p[1]] = "BEGIN" /\ text[p[2]] = "END"
  BY DEF Sound, Blocks
<1>2. p[1] \in 1 .. Len(text) /\ p[2] \in 1 .. Len(text)
  BY <1>1
<1> QED BY <1>1, <1>2

LEMMA FromFinite ==
  ASSUME NEW text \in Seq(Pieces), NEW r
  PROVE  IsFiniteSet(From(text, r))
<1>1. PICK n \in Int : n = Len(text)
  OBVIOUS
<1>2. PICK I : I = 1 .. n
  OBVIOUS
<1>3. IsFiniteSet(I)
  BY <1>2, FS_Interval
<1>4. IsFiniteSet(I \X I)
  BY <1>3, FS_Product
<1>5. DOMAIN text = I
  BY <1>1, <1>2
<1>6. From(text, r) \in SUBSET (I \X I)
  BY <1>5, Zenon DEF From, Sound, Blocks
<1> QED BY <1>4, <1>6, FS_Subset

\* Where no BEGIN has an END the loop stops, and no block is left.
LEMMA LiftEnd ==
  ASSUME NEW text \in Seq(Pieces), NEW r \in Nat, Ends(text, r)
  PROVE  Lifting(<<>>, text, r)
<1>1. From(text, r) = {}
  <2> SUFFICES ASSUME NEW p \in Sound(text), r <= p[1] PROVE FALSE
    BY DEF From
  <2>1. PICK a \in Nat, b \in Nat : a = p[1] /\ b = p[2] /\ a < b /\ b <= Len(text)
                                    /\ text[a] = "BEGIN" /\ text[b] = "END"
    BY SoundPlaces
  <2> QED BY <2>1 DEF Ends
<1>2. Listed(<<>>, From(text, r), text)
  BY <1>1, ListedNone
<1>3. <<>> \in Seq(Seq(Pieces)) /\ \A k \in DOMAIN <<>> : FALSE
  OBVIOUS
<1> QED BY <1>2, <1>3, Zenon DEF Lifting

\* A turn of the loop: the block is lifted when it is sound, and the rest of
\* the blocks are behind its END.
LEMMA LiftBlock ==
  ASSUME NEW text \in Seq(Pieces), NEW r \in Nat, 1 <= r, NEW s, NEW e, Marked(text, r, s, e),
         NEW c, Lifting(c, text, e + 1)
  PROVE  Lifting(Join(Lifted(DerAt(text, s, e)), c), text, r)
<1>1. s \in Nat /\ e \in Nat /\ r <= s /\ s < e /\ e <= Len(text)
  BY DEF Marked
<1>2. c \in Seq(Seq(Pieces)) /\ \A k \in DOMAIN c : \E p \in Sound(text) : c[k] = Body(text, p)
  BY DEF Lifting
<1>3. PICK F : F = From(text, e + 1)
  OBVIOUS
<1>4. \A p \in Sound(text) : p[1] \in Nat
  BY SoundPlaces
<1>5. PICK b : b = <<s, e>> /\ b[1] = s
  <2>1. <<s, e>>[1] = s
    OBVIOUS
  <2> QED BY <2>1, Zenon
<1>6. ASSUME ~Unclosed(text), NEW p \in Sound(text), r <= p[1] PROVE p = b \/ e + 1 <= p[1]
  BY <1>5, <1>6, OthersBehind
<1>7. \A p \in F : p \in Sound(text) /\ r <= p[1] /\ s < p[1]
  BY <1>1, <1>3, <1>4 DEF From
<1>8. CASE DerAt(text, s, e) \in {None, <<>>}
  <2>1. Join(Lifted(DerAt(text, s, e)), c) = c
    <3>1. Lifted(DerAt(text, s, e)) = <<>>
      BY <1>8, Zenon DEF Lifted
    <3> QED BY <1>2, <3>1 DEF Join
  <2>2. b \notin Sound(text)
    BY <1>5, <1>8, SoundIsLifted
  <2>3. ~Unclosed(text) => From(text, r) = F
    BY <1>3, <1>6, <1>7, <2>2, Zenon DEF From
  <2> QED BY <1>3, <2>1, <2>3, Zenon DEF Lifting
<1>9. CASE DerAt(text, s, e) \notin {None, <<>>}
  <2>1. PICK d : d = DerAt(text, s, e)
    OBVIOUS
  <2>2. Lifted(DerAt(text, s, e)) = <<d>>
    BY <1>9, <2>1, Zenon DEF Lifted
  <2>3. b \in Sound(text) /\ d = Body(text, b)
    BY <1>5, <1>9, <2>1, LiftedIsSound
  <2>4. d \in Seq(Pieces)
    <3>1. d = BodyDer(Between(text, s, e))
      BY <2>1 DEF DerAt, Between
    <3>2. Between(text, s, e) \in Seq(Pieces)
      BY <1>1, BetweenIs
    <3>3. d = Without(Between(text, s, e), {"eol"})
      BY <1>9, <2>1, <3>1, Zenon DEF BodyDer
    <3> QED BY <3>2, <3>3, WithoutTyped
  <2>5. PICK x : x = Join(<<d>>, c)
    OBVIOUS
  <2>6. /\ x \in Seq(Seq(Pieces)) /\ x[1] = d /\ DOMAIN x = 1 .. Len(c) + 1
        /\ \A k \in 2 .. Len(c) + 1 : x[k] = c[k - 1] /\ k - 1 \in DOMAIN c
    BY <1>2, <2>4, <2>5 DEF Join
  <2>7. ASSUME NEW k \in DOMAIN x PROVE \E p \in Sound(text) : x[k] = Body(text, p)
    <3>1. CASE k = 1
      BY <2>3, <2>6, <3>1
    <3>2. CASE k # 1
      <4>1. k \in 2 .. Len(c) + 1
        BY <1>2, <2>6, <3>2
      <4> QED BY <1>2, <2>6, <4>1
    <3> QED BY <3>1, <3>2
  <2>8. ~Unclosed(text) => Listed(x, From(text, r), text)
    <3> SUFFICES ASSUME ~Unclosed(text) PROVE Listed(x, From(text, r), text)
      OBVIOUS
    <3>1. From(text, r) = F \cup {b}
      <4>1. r <= b[1]
        BY <1>1, <1>5
      <4>2. \A p \in From(text, r) : p \in F \cup {b}
        BY <1>3, <1>6, Zenon DEF From
      <4>3. \A p \in F \cup {b} : p \in From(text, r)
        BY <1>7, <2>3, <4>1, Zenon DEF From
      <4> QED BY <4>2, <4>3, Zenon
    <3>2. Listed(c, F, text)
      BY <1>3 DEF Lifting
    <3>3. IsFiniteSet(F)
      BY <1>3, FromFinite
    <3>4. b[1] \in Nat /\ \A q \in F : q[1] \in Nat /\ b[1] < q[1]
      BY <1>1, <1>4, <1>5, <1>7
    <3>5. Listed(Join(<<d>>, c), F \cup {b}, text)
      BY <1>2, <2>3, <2>4, <3>2, <3>3, <3>4, ListedMore
    <3> QED BY <2>5, <3>1, <3>5
  <2>9. Lifting(x, text, r)
    BY <2>6, <2>7, <2>8, Zenon DEF Lifting
  <2> QED BY <2>2, <2>5, <2>9
<1> QED BY <1>8, <1>9

\* The chain of any text.
LEMMA ChainLifted ==
  ASSUME NEW text \in Seq(Pieces)
  PROVE  Lifting(pck_chain_from_quote(text), text, 1)
<1>1. PICK n \in Nat : n = Len(text) + 1 /\ 1 <= n
  OBVIOUS
<1>2. PICK f : Lifts(f, text)
  BY LiftRun
<1> DEFINE S == {r \in 1 .. n : Lifting(f[r], text, r)}
<1>3. ASSUME NEW r \in 1 .. n, \A q \in r + 1 .. n : q \in S PROVE r \in S
  <2>1. r \in Nat /\ 1 <= r
    OBVIOUS
  <2>2. \/ Ends(text, r) /\ f[r] = <<>>
        \/ \E s, e : Marked(text, r, s, e) /\ f[r] = Join(Lifted(DerAt(text, s, e)), f[e + 1])
    BY <1>1, <1>2 DEF Lifts
  <2>3. CASE Ends(text, r) /\ f[r] = <<>>
    BY <2>1, <2>3, LiftEnd
  <2>4. CASE \E s, e : Marked(text, r, s, e) /\ f[r] = Join(Lifted(DerAt(text, s, e)), f[e + 1])
    <3>1. PICK s, e : Marked(text, r, s, e) /\ f[r] = Join(Lifted(DerAt(text, s, e)), f[e + 1])
      BY <2>4
    <3>2. e + 1 \in r + 1 .. n
      BY <1>1, <3>1 DEF Marked
    <3>3. Lifting(f[e + 1], text, e + 1)
      BY <1>3, <3>2
    <3>4. Lifting(f[r], text, r)
      BY <2>1, <3>1, <3>3, LiftBlock
    <3> QED BY <3>4
  <2> QED BY <2>2, <2>3, <2>4
<1>4. \A r \in 1 .. n : r \in S
  <2>1. \A r \in 1 .. n : (\A q \in r + 1 .. n : q \in S) => r \in S
    BY <1>3
  <2> HIDE DEF S
  <2> QED BY <2>1, FromTop
<1>5. Lifting(f[1], text, 1)
  BY <1>1, <1>4
<1> QED BY <1>2, <1>5 DEF Lifts

\* pck_chain_from_quote makes every certificate out of one whole block, and
\* lifts all of them, leaf first, when every BEGIN is closed, in a PEM text of
\* any length.
THEOREM BlocksLifted == Spec => []LiftsBlocks
<1>1. Typed => LiftsBlocks
  <2> SUFFICES ASSUME Typed, kind = "pem" PROVE LiftsBlocks
    BY Zenon DEF LiftsBlocks
  <2>1. PICK text \in Seq(Pieces) : text = input
    BY DEF Typed
  <2>2. PICK c : c = pck_chain_from_quote(text)
    OBVIOUS
  <2>3. Lifting(c, text, 1)
    BY <2>2, ChainLifted
  <2>4. From(text, 1) = Sound(text)
    <3>1. \A p \in Sound(text) : 1 <= p[1]
      BY SoundPlaces
    <3> QED BY <3>1, Zenon DEF From
  <2>5. ~Unclosed(text) => Lists(c, text)
    BY <2>3, <2>4, Zenon DEF Lifting, Listed, Lists
  <2>6. \A k \in DOMAIN c : \E p \in Sound(text) : c[k] = Body(text, p)
    BY <2>3 DEF Lifting
  <2>7. c = pck_chain_from_quote(input)
    BY <2>1, <2>2
  <2>8. \A k \in DOMAIN c : \E p \in Sound(input) : c[k] = Body(input, p)
    BY <2>1, <2>6
  <2>9. ~Unclosed(input) => Lists(c, input)
    BY <2>1, <2>5
  <2> QED BY <2>7, <2>8, <2>9 DEF LiftsBlocks, Unclosed
<1> QED BY <1>1, TypedAlways, PTL
=============================================================================
