--------------------------- MODULE CodecsProofs -----------------------------
(***************************************************************************)
(* What the codecs compute, for every input.                               *)
(*                                                                         *)
(* The code's loops are recursive functions over an interval.  Facts about *)
(* them are proved by induction on the interval, which UpTo states for a   *)
(* set of numbers, and Growing for a set of sequences.                     *)
(***************************************************************************)
EXTENDS Codecs, WellFoundedInduction, TLAPS

-----------------------------------------------------------------------------
(* Sequences *)

LEMMA Element ==
  ASSUME NEW S, NEW s \in Seq(S), NEW i \in 1 .. Len(s)
  PROVE  s[i] \in S
OBVIOUS

LEMMA Joined ==
  ASSUME NEW S, NEW s \in Seq(S), NEW t \in Seq(S)
  PROVE  /\ Len(s \o t) = Len(s) + Len(t)
         /\ \A i \in 1 .. Len(s) + Len(t) :
              (s \o t)[i] = IF i <= Len(s) THEN s[i] ELSE t[i - Len(s)]
OBVIOUS

LEMMA SameSequence ==
  ASSUME NEW S, NEW s \in Seq(S), NEW t \in Seq(S), Len(s) = Len(t), \A i \in 1 .. Len(s) : s[i] = t[i]
  PROVE  s = t
OBVIOUS

-----------------------------------------------------------------------------
(* Induction *)

\* A set of numbers that is not empty has a least one.
LEMMA LeastNat ==
  ASSUME NEW T \in SUBSET Nat, T # {}
  PROVE  \E m \in T : \A k \in T : m <= k
<1>1. PICK x \in T : \A y \in T : ~(<<y, x>> \in OpToRel(<, Nat))
  BY NatLessThanWellFounded, WFMin, Zenon
<1>2. \A y \in T : <<y, x>> \in OpToRel(<, Nat) <=> y < x
  BY DEF OpToRel
<1>3. \A y \in T : ~(y < x)
  BY <1>1, <1>2, Zenon
<1> QED BY <1>3

\* Induction up to n: what holds of 0 and passes from each number to the
\* next holds of all of them.
LEMMA UpTo ==
  ASSUME NEW n \in Nat, NEW S, 0 \in S, \A i \in 1 .. n : i - 1 \in S => i \in S
  PROVE  \A i \in 0 .. n : i \in S
<1> SUFFICES ASSUME (0 .. n) \ S # {} PROVE FALSE
  OBVIOUS
<1>1. PICK m \in (0 .. n) \ S : \A k \in (0 .. n) \ S : m <= k
  <2>1. (0 .. n) \ S \in SUBSET Nat
    OBVIOUS
  <2> QED BY <2>1, LeastNat
<1>2. m \in 1 .. n /\ m - 1 \in 0 .. n /\ ~(m <= m - 1)
  BY <1>1
<1>3. m - 1 \in S
  BY <1>1, <1>2
<1> QED BY <1>1, <1>2, <1>3

\* Min and Max are what their names say where there is such an element.
LEMMA MinIs ==
  ASSUME NEW S \in SUBSET Int, NEW m \in S, \A k \in S : m <= k
  PROVE  Min(S) = m
<1>1. Min(S) \in S /\ \A k \in S : Min(S) <= k
  BY Zenon DEF Min
<1>2. Min(S) \in Int /\ m \in Int /\ Min(S) <= m /\ m <= Min(S)
  BY <1>1
<1> QED BY <1>2

LEMMA MaxIs ==
  ASSUME NEW S \in SUBSET Int, NEW m \in S, \A k \in S : m >= k
  PROVE  Max(S) = m
<1>1. Max(S) \in S /\ \A k \in S : Max(S) >= k
  BY Zenon DEF Max
<1>2. Max(S) \in Int /\ m \in Int /\ Max(S) >= m /\ m >= Max(S)
  BY <1>1
<1> QED BY <1>2

LEMMA MinProps ==
  ASSUME NEW S \in SUBSET Nat, S # {}
  PROVE  Min(S) \in S /\ \A k \in S : Min(S) <= k
<1>1. PICK m \in S : \A k \in S : m <= k
  BY LeastNat
<1>2. Min(S) = m
  BY <1>1, MinIs
<1> QED BY <1>1, <1>2

\* A loop of n turns starts in a, and its turn i makes a state of D out of one.
IsLoop(step, n, D, a) == a \in D /\ step \in [D \X (1 .. n) -> D]

IsRun(f, step, n, D, a) ==
  /\ f \in [0 .. n -> D] /\ f[0] = a
  /\ \A i \in 1 .. n : f[i] = step[<<f[i - 1], i>>]

\* A loop has a run.
LEMMA Iteration ==
  ASSUME NEW n \in Nat, NEW D, NEW a, NEW step, IsLoop(step, n, D, a)
  PROVE  \E f : IsRun(f, step, n, D, a)
<1> USE DEF IsLoop
<1> DEFINE Run(k) == \E f \in [0 .. k -> D] :
                       f[0] = a /\ \A i \in 1 .. k : f[i] = step[<<f[i - 1], i>>]
           S == {k \in 0 .. n : Run(k)}
<1>1. Run(0)
  <2> DEFINE f == [i \in 0 .. 0 |-> a]
  <2>1. f \in [0 .. 0 -> D] /\ f[0] = a /\ \A i \in 1 .. 0 : f[i] = step[<<f[i - 1], i>>]
    OBVIOUS
  <2> QED BY <2>1
<1>2. ASSUME NEW k \in 1 .. n, Run(k - 1) PROVE Run(k)
  <2>1. PICK f \in [0 .. k - 1 -> D] :
          f[0] = a /\ \A i \in 1 .. k - 1 : f[i] = step[<<f[i - 1], i>>]
    BY <1>2
  <2> DEFINE g == [i \in 0 .. k |-> IF i = k THEN step[<<f[k - 1], k>>] ELSE f[i]]
  <2>2. f[k - 1] \in D /\ step[<<f[k - 1], k>>] \in D
    BY <2>1
  <2>3. g \in [0 .. k -> D]
    BY <2>2
  <2>4. g[0] = a /\ g[k] = step[<<f[k - 1], k>>] /\ \A i \in 0 .. k - 1 : g[i] = f[i]
    BY <2>1
  <2> HIDE DEF g
  <2>5. \A i \in 1 .. k : g[i] = step[<<g[i - 1], i>>]
    <3>1. ASSUME NEW i \in 1 .. k PROVE g[i] = step[<<g[i - 1], i>>]
      <4>1. i - 1 \in 0 .. k - 1 /\ (i # k => i \in 1 .. k - 1 /\ i \in 0 .. k - 1)
        OBVIOUS
      <4> QED BY <2>1, <2>4, <4>1
    <3> QED BY <3>1
  <2> QED BY <2>3, <2>4, <2>5
<1> HIDE DEF Run
<1>3. \A k \in 0 .. n : k \in S
  <2>1. 0 \in S
    BY <1>1
  <2>2. \A k \in 1 .. n : k - 1 \in S => k \in S
    BY <1>2
  <2> HIDE DEF S
  <2> QED BY <2>1, <2>2, UpTo
<1>4. Run(n)
  BY <1>3
<1> QED BY <1>4 DEF Run, IsRun

\* Induction over sequences: what holds of the empty one and passes from
\* each to those one element longer holds of all of them.
LEMMA Growing ==
  ASSUME NEW S, NEW P, <<>> \in P, \A t \in Seq(S), c \in S : t \in P => Append(t, c) \in P
  PROVE  \A s \in Seq(S) : s \in P
<1> SUFFICES ASSUME NEW s \in Seq(S) PROVE s \in P
  OBVIOUS
<1>1. PICK n \in Nat : n = Len(s)
  OBVIOUS
<1> DEFINE pre(i) == SubSeq(s, 1, i)
<1>2. pre(0) = <<>> /\ pre(n) = s
  BY <1>1
<1>3. \A i \in 1 .. n : pre(i - 1) \in Seq(S) /\ s[i] \in S /\ pre(i) = Append(pre(i - 1), s[i])
  BY <1>1
<1> HIDE DEF pre
<1> DEFINE T == {i \in 0 .. n : pre(i) \in P}
<1>4. 0 \in T /\ \A i \in 1 .. n : i - 1 \in T => i \in T
  <2>1. \A i \in 1 .. n : pre(i - 1) \in P => pre(i) \in P
    BY <1>3
  <2> QED BY <1>2, <2>1
<1>5. \A i \in 0 .. n : i \in T
  <2> HIDE DEF T
  <2> QED BY <1>4, UpTo
<1> QED BY <1>2, <1>5

LEMMA SeqWidens ==
  ASSUME NEW T, NEW S \in SUBSET T, NEW s \in Seq(S)
  PROVE  s \in Seq(T)
OBVIOUS

LEMMA SeqNarrows ==
  ASSUME NEW S, NEW T, NEW s \in Seq(S), \A i \in 1 .. Len(s) : s[i] \in T
  PROVE  s \in Seq(T)
<1>1. PICK n \in Nat : n = Len(s)
  OBVIOUS
<1>2. s \in [1 .. n -> T]
  BY <1>1
<1> QED BY <1>2

-----------------------------------------------------------------------------
(* Without *)

\* k is what the loop of Without has kept after each of its turns.
Keeps(k, s, D, S) ==
  /\ k \in [0 .. Len(s) -> Seq(S)]
  /\ k[0] = <<>>
  /\ \A i \in 1 .. Len(s) : k[i] = IF s[i] \in D THEN k[i - 1] ELSE Append(k[i - 1], s[i])
  /\ Without(s, D) = k[Len(s)]

\* The loop of Without has a run.
LEMMA WithoutRun ==
  ASSUME NEW S, NEW s \in Seq(S), NEW D
  PROVE  \E k : Keeps(k, s, D, S)
<1> DEFINE Turn(t, i) == IF s[i] \in D THEN t ELSE Append(t, s[i])
           Loop(k) == [i \in 0 .. Len(s) |-> IF i = 0 THEN <<>> ELSE Turn(k[i - 1], i)]
<1>1. PICK n \in Nat : n = Len(s)
  OBVIOUS
<1> DEFINE step == [x \in Seq(S) \X (1 .. n) |-> Turn(x[1], x[2])]
<1>2. \A t \in Seq(S), i \in 1 .. n : Turn(t, i) \in Seq(S) /\ step[<<t, i>>] = Turn(t, i)
  BY <1>1
<1>3. step \in [Seq(S) \X (1 .. n) -> Seq(S)]
  BY <1>2
<1>4. <<>> \in Seq(S)
  OBVIOUS
<1>5. PICK f : f \in [0 .. n -> Seq(S)] /\ f[0] = <<>> /\ \A i \in 1 .. n : f[i] = step[<<f[i - 1], i>>]
  <2>1. IsLoop(step, n, Seq(S), <<>>)
    BY <1>3, <1>4 DEF IsLoop
  <2> HIDE DEF step
  <2>2. PICK f : IsRun(f, step, n, Seq(S), <<>>)
    BY <2>1, Iteration
  <2> QED BY <2>2 DEF IsRun
<1>6. \A i \in 1 .. n : f[i - 1] \in Seq(S) /\ f[i] = Turn(f[i - 1], i)
  <2>1. \A i \in 1 .. n : f[i - 1] \in Seq(S)
    BY <1>5
  <2> HIDE DEF step, Turn
  <2> QED BY <1>2, <1>5, <2>1
<1>7. f = Loop(f)
  <2> HIDE DEF Turn
  <2> QED BY <1>1, <1>5, <1>6
<1>8. PICK k : k = Loop(k) /\ Without(s, D) = k[Len(s)]
  <2> DEFINE K == CHOOSE k : k = Loop(k)
  <2>1. K = Loop(K)
    BY <1>7, Zenon
  <2>2. Without(s, D) = K[Len(s)]
    BY DEF Without
  <2> HIDE DEF K, Loop
  <2> QED BY <2>1, <2>2
<1>9. DOMAIN k = 0 .. n /\ k[0] = <<>> /\ \A i \in 1 .. n : k[i] = Turn(k[i - 1], i)
  <2> HIDE DEF Turn
  <2> QED BY <1>1, <1>8
<1>10. \A i \in 0 .. n : k[i] = f[i]
  <2>1. \A i \in 1 .. n : k[i - 1] = f[i - 1] => k[i] = f[i]
    <3> HIDE DEF Turn
    <3> QED BY <1>6, <1>9
  <2> DEFINE Same == {i \in 0 .. n : k[i] = f[i]}
  <2>2. 0 \in Same /\ \A i \in 1 .. n : i - 1 \in Same => i \in Same
    BY <1>5, <1>9, <2>1
  <2> HIDE DEF Same
  <2>3. \A i \in 0 .. n : i \in Same
    BY <2>2, UpTo
  <2> QED BY <2>3 DEF Same
<1>11. k \in [0 .. n -> Seq(S)]
  <2>1. k = [i \in 0 .. n |-> k[i]]
    BY <1>1, <1>8
  <2>2. \A i \in 0 .. n : k[i] \in Seq(S)
    BY <1>5, <1>10
  <2> QED BY <2>1, <2>2
<1> QED BY <1>1, <1>8, <1>9, <1>11 DEF Keeps

\* What Without keeps is a sequence of the same elements.
LEMMA WithoutTyped ==
  ASSUME NEW S, NEW s \in Seq(S), NEW D
  PROVE  Without(s, D) \in Seq(S)
<1>1. PICK k : Keeps(k, s, D, S)
  BY WithoutRun
<1> QED BY <1>1 DEF Keeps

LEMMA WithoutEmpty ==
  ASSUME NEW D
  PROVE  Without(<<>>, D) = <<>>
<1>1. PICK s : s = <<>>
  OBVIOUS
<1>2. s \in Seq({})
  BY <1>1
<1>3. PICK k : Keeps(k, s, D, {})
  BY <1>2, WithoutRun
<1> QED BY <1>1, <1>3 DEF Keeps

\* One more element is kept unless it is one to be left out.
LEMMA WithoutAppend ==
  ASSUME NEW S, NEW s \in Seq(S), NEW c \in S, NEW D
  PROVE  Without(Append(s, c), D) =
           IF c \in D THEN Without(s, D) ELSE Append(Without(s, D), c)
<1>1. PICK n \in Nat : n = Len(s)
  OBVIOUS
<1>2. PICK t : t = Append(s, c)
  OBVIOUS
<1>3. t \in Seq(S) /\ Len(t) = n + 1 /\ t[n + 1] = c /\ \A i \in 1 .. n : t[i] = s[i]
  BY <1>1, <1>2
<1>4. PICK k : Keeps(k, s, D, S)
  BY WithoutRun
<1>5. PICK l : Keeps(l, t, D, S)
  BY <1>3, WithoutRun
<1> DEFINE Same == {i \in 0 .. n : l[i] = k[i]}
<1>6. 0 \in Same
  BY <1>4, <1>5 DEF Keeps
<1>7. ASSUME NEW i \in 1 .. n, l[i - 1] = k[i - 1] PROVE l[i] = k[i]
  <2>1. k[i] = IF s[i] \in D THEN k[i - 1] ELSE Append(k[i - 1], s[i])
    BY <1>1, <1>4 DEF Keeps
  <2>2. l[i] = IF t[i] \in D THEN l[i - 1] ELSE Append(l[i - 1], t[i])
    <3>1. i \in 1 .. Len(t)
      BY <1>3
    <3> QED BY <1>5, <3>1, Zenon DEF Keeps
  <2>3. t[i] = s[i]
    BY <1>3
  <2> QED BY <1>7, <2>1, <2>2, <2>3
<1>8. \A i \in 0 .. n : i \in Same
  <2>1. ASSUME NEW i \in 1 .. n, i - 1 \in Same PROVE i \in Same
    <3>1. l[i - 1] = k[i - 1] /\ i \in 0 .. n
      BY <2>1
    <3> QED BY <1>7, <3>1
  <2> HIDE DEF Same
  <2> QED BY <1>6, <2>1, UpTo
<1>9. l[n] = k[n]
  BY <1>8
<1>10. Without(t, D) = IF c \in D THEN l[n] ELSE Append(l[n], c)
  <2>1. n + 1 \in 1 .. n + 1 /\ (n + 1) - 1 = n
    OBVIOUS
  <2>2. Without(t, D) = l[n + 1] /\ l[n + 1] = IF t[n + 1] \in D THEN l[n] ELSE Append(l[n], t[n + 1])
    BY <1>3, <1>5, <2>1 DEF Keeps
  <2> QED BY <1>3, <2>2
<1>11. Without(s, D) = k[n]
  BY <1>1, <1>4 DEF Keeps
<1> QED BY <1>2, <1>9, <1>10, <1>11

Join(s, t) == s \o t

\* Leaving out can be done on each of two halves.
LEMMA WithoutJoin ==
  ASSUME NEW S, NEW s \in Seq(S), NEW t \in Seq(S), NEW D
  PROVE  Without(Join(s, t), D) = Join(Without(s, D), Without(t, D))
<1> USE DEF Join
<1> DEFINE P == {u \in Seq(S) : Without(s \o u, D) = Without(s, D) \o Without(u, D)}
<1>1. <<>> \in P
  <2>1. <<>> \in Seq(S) /\ s \o <<>> = s
    OBVIOUS
  <2>2. PICK w : w = Without(s, D)
    OBVIOUS
  <2>3. w \in Seq(S)
    BY <2>2, WithoutTyped
  <2>4. w \o <<>> = w
    BY <2>3
  <2> QED BY <2>1, <2>2, <2>4, WithoutEmpty
<1>2. ASSUME NEW u \in Seq(S), NEW c \in S, u \in P PROVE Append(u, c) \in P
  <2>1. s \o u \in Seq(S) /\ Append(u, c) \in Seq(S) /\ s \o Append(u, c) = Append(s \o u, c)
    OBVIOUS
  <2>2. PICK v \in Seq(S), w \in Seq(S) : v = Without(s, D) /\ w = Without(u, D)
    BY WithoutTyped
  <2>6. v \o Append(w, c) = Append(v \o w, c)
    OBVIOUS
  <2>3. PICK x : x = Without(s \o u, D)
    OBVIOUS
  <2> x = v \o w
    BY <1>2, <2>2, <2>3
  <2>4. Without(Append(u, c), D) = IF c \in D THEN w ELSE Append(w, c)
    BY <2>2, WithoutAppend
  <2>5. Without(Append(s \o u, c), D) = IF c \in D THEN x ELSE Append(x, c)
    <3>1. PICK y : y = s \o u
      OBVIOUS
    <3>2. y \in Seq(S)
      BY <2>1, <3>1
    <3>3. Without(Append(y, c), D) = IF c \in D THEN Without(y, D) ELSE Append(Without(y, D), c)
      BY <3>2, WithoutAppend
    <3> QED BY <2>3, <3>1, <3>3
  <2>7. Without(s \o Append(u, c), D) = v \o Without(Append(u, c), D)
    <3>1. CASE c \in D
      BY <2>1, <2>3, <2>4, <2>5, <3>1, Zenon
    <3>2. CASE c \notin D
      BY <2>1, <2>3, <2>4, <2>5, <2>6, <3>2, Zenon
    <3> QED BY <3>1, <3>2
  <2> QED BY <2>1, <2>2, <2>7
<1> HIDE DEF P
<1>3. t \in P
  BY <1>1, <1>2, Growing
<1> QED BY <1>3 DEF P

\* Where there is nothing to leave out, nothing is.
LEMMA WithoutNone ==
  ASSUME NEW S, NEW s \in Seq(S), NEW D, S \cap D = {}
  PROVE  Without(s, D) = s
<1> DEFINE P == {u \in Seq(S) : Without(u, D) = u}
<1>1. <<>> \in P
  <2>1. <<>> \in Seq(S)
    OBVIOUS
  <2> QED BY <2>1, WithoutEmpty
<1>2. ASSUME NEW u \in Seq(S), NEW c \in S, u \in P PROVE Append(u, c) \in P
  <2>1. c \notin D /\ Append(u, c) \in Seq(S) /\ Without(u, D) = u
    BY <1>2
  <2>2. Without(Append(u, c), D) = Append(u, c)
    BY <2>1, WithoutAppend
  <2> QED BY <2>1, <2>2
<1> HIDE DEF P
<1>3. s \in P
  BY <1>1, <1>2, Growing
<1> QED BY <1>3 DEF P

\* Where everything is to be left out, nothing stays.
LEMMA WithoutAll ==
  ASSUME NEW D, NEW s \in Seq(D)
  PROVE  Without(s, D) = <<>>
<1> DEFINE P == {u \in Seq(D) : Without(u, D) = <<>>}
<1>1. <<>> \in P
  <2>1. <<>> \in Seq(D)
    OBVIOUS
  <2> QED BY <2>1, WithoutEmpty
<1>2. ASSUME NEW u \in Seq(D), NEW c \in D, u \in P PROVE Append(u, c) \in P
  <2>1. Append(u, c) \in Seq(D) /\ Without(u, D) = <<>>
    BY <1>2
  <2>2. Without(Append(u, c), D) = <<>>
    BY <2>1, WithoutAppend
  <2> QED BY <2>1, <2>2
<1> HIDE DEF P
<1>3. s \in P
  BY <1>1, <1>2, Growing
<1> QED BY <1>3 DEF P

LEMMA WithoutOne ==
  ASSUME NEW c, NEW D, c \in D
  PROVE  Without(<<c>>, D) = <<>>
<1>1. <<>> \in Seq({c}) /\ Append(<<>>, c) = <<c>>
  OBVIOUS
<1>2. PICK e : e = <<>>
  OBVIOUS
<1>3. Without(Append(e, c), D) = Without(e, D)
  BY <1>1, <1>2, WithoutAppend
<1> QED BY <1>1, <1>2, <1>3, WithoutEmpty

-----------------------------------------------------------------------------
(* Hex *)

Byte == {x \in Nat : x < 256}

Digit == {x \in Nat : x < 16}

\* The digit hex_encode writes at place i.
Nibble(b, i) == IF i % 2 = 1 THEN b[(i + 1) \div 2] \div 16 ELSE b[(i + 1) \div 2] % 16

\* hex_val reads what HEX writes, whatever its case.
LEMMA HexDigits ==
  /\ \A n \in Digit : HEX(n) \in Nat /\ lower(HEX(n)) = HEX(n) /\ hex_val(HEX(n)) = n
  /\ \A c \in Nat, n \in Digit : lower(c) = HEX(n) <=> hex_val(c) = n
  /\ \A c \in Nat : hex_val(c) # None => hex_val(c) \in Digit
<1>1. \A n \in Digit : HEX(n) \in Nat /\ lower(HEX(n)) = HEX(n) /\ hex_val(HEX(n)) = n
  BY DEF HEX, lower, hex_val, Digit
<1>2. \A c \in Nat, n \in Digit : lower(c) = HEX(n) <=> hex_val(c) = n
  <2> SUFFICES ASSUME NEW c \in Nat, NEW n \in Digit PROVE lower(c) = HEX(n) <=> hex_val(c) = n
    OBVIOUS
  <2>1. CASE c \in 52 .. 61 \/ c \in 26 .. 31 \/ c \in 0 .. 5
    BY <2>1 DEF lower, hex_val, HEX, Digit
  <2>2. CASE ~(c \in 52 .. 61 \/ c \in 26 .. 31 \/ c \in 0 .. 5)
    <3>1. hex_val(c) = None
      BY <2>2 DEF hex_val
    <3> None # n
      BY NoneAssumption DEF Digit
    <3>2. lower(c) # HEX(n)
      BY <2>2 DEF lower, HEX, Digit
    <3> QED BY <3>1, <3>2
  <2> QED BY <2>1, <2>2
<1>3. \A c \in Nat : hex_val(c) # None => hex_val(c) \in Digit
  BY DEF hex_val, Digit
<1> QED BY <1>1, <1>2, <1>3

\* hex_encode writes two digits a byte.
LEMMA HexEncoded ==
  ASSUME NEW b \in Seq(Byte)
  PROVE  /\ hex_encode(b) \in Seq(Nat) /\ Len(hex_encode(b)) = 2 * Len(b)
         /\ \A i \in 1 .. 2 * Len(b) :
              Nibble(b, i) \in Digit /\ hex_encode(b)[i] = HEX(Nibble(b, i))
<1>1. PICK n \in Nat : n = Len(b)
  OBVIOUS
<1>2. \A i \in 1 .. 2 * n : Nibble(b, i) \in Digit
  <2> SUFFICES ASSUME NEW i \in 1 .. 2 * n PROVE Nibble(b, i) \in Digit
    OBVIOUS
  <2>1. (i + 1) \div 2 \in 1 .. n
    OBVIOUS
  <2>2. b[(i + 1) \div 2] \in Byte
    BY <1>1, <2>1
  <2>3. \A x \in Byte : x \div 16 \in Digit /\ x % 16 \in Digit
    BY DEF Byte, Digit
  <2> QED BY <2>2, <2>3 DEF Nibble
<1>3. hex_encode(b) = [i \in 1 .. 2 * n |-> HEX(Nibble(b, i))]
  <2>1. \A i \in 1 .. 2 * n :
           HEX(IF i % 2 = 1 THEN b[(i + 1) \div 2] \div 16 ELSE b[(i + 1) \div 2] % 16) = HEX(Nibble(b, i))
    BY Zenon DEF Nibble
  <2> QED BY <1>1, <2>1, Zenon DEF hex_encode
<1>4. \A i \in 1 .. 2 * n : HEX(Nibble(b, i)) \in Nat
  BY <1>2, HexDigits
<1>5. PICK h : h = hex_encode(b)
  OBVIOUS
<1>6. h \in [1 .. 2 * n -> Nat] /\ \A i \in 1 .. 2 * n : h[i] = HEX(Nibble(b, i))
  BY <1>3, <1>4, <1>5
<1>7. h \in Seq(Nat) /\ Len(h) = 2 * n
  BY <1>6
<1> QED BY <1>1, <1>2, <1>5, <1>6, <1>7

\* Two nibbles make the byte, and the byte gives the two nibbles.
LEMMA Nibbles ==
  ASSUME NEW b \in Seq(Byte), NEW k \in 1 .. Len(b)
  PROVE  /\ b[k] \in Byte
         /\ Nibble(b, 2 * k - 1) = b[k] \div 16 /\ Nibble(b, 2 * k) = b[k] % 16
<1>1. (2 * k - 1) % 2 = 1 /\ (2 * k - 1 + 1) \div 2 = k /\ (2 * k) % 2 = 0 /\ (2 * k + 1) \div 2 = k
  OBVIOUS
<1>2. b[k] \in Byte
  OBVIOUS
<1>3. Nibble(b, 2 * k - 1) = b[k] \div 16
  BY <1>1 DEF Nibble
<1>4. Nibble(b, 2 * k) = b[k] % 16
  BY <1>1 DEF Nibble
<1> QED BY <1>2, <1>3, <1>4

\* Comparing a text with the hex of some bytes, in any case (contains_pubkey,
\* the enroll handler), is comparing what hex_decode reads with those bytes,
\* whatever their length.
THEOREM HexText ==
  ASSUME NEW b \in Seq(Byte), NEW s \in Seq(Nat)
  PROVE  eq_ignore_ascii_case(s, hex_encode(b)) <=> hex_decode(s) = b
<1>1. PICK h : h = hex_encode(b)
  OBVIOUS
<1> PICK n \in Nat : n = Len(b)
  OBVIOUS
<1>2. /\ h \in Seq(Nat) /\ Len(h) = 2 * n
      /\ \A i \in 1 .. 2 * n : Nibble(b, i) \in Digit /\ h[i] = HEX(Nibble(b, i))
  BY <1>1, HexEncoded
<1>3. ASSUME eq_ignore_ascii_case(s, h) PROVE hex_decode(s) = b
  <2>1. Len(s) = 2 * n /\ \A i \in 1 .. 2 * n : lower(s[i]) = lower(h[i])
    <3>1. Len(s) = Len(h) /\ \A i \in DOMAIN s : lower(s[i]) = lower(h[i])
      BY <1>3 DEF eq_ignore_ascii_case
    <3>2. DOMAIN s = 1 .. 2 * n
      BY <1>2, <3>1
    <3> QED BY <1>2, <3>1, <3>2
  <2>2. \A i \in 1 .. 2 * n : s[i] \in Nat /\ hex_val(s[i]) = Nibble(b, i)
    <3>1. \A i \in 1 .. 2 * n : s[i] \in Nat /\ lower(s[i]) = HEX(Nibble(b, i))
      <4> TAKE i \in 1 .. 2 * n
      <4>1. s[i] \in Nat
        BY <2>1
      <4>2. PICK d \in Digit : d = Nibble(b, i)
        BY <1>2
      <4>3. lower(s[i]) = lower(HEX(d))
        BY <1>2, <2>1, <4>2
      <4> QED BY <4>1, <4>2, <4>3, HexDigits
    <3> QED BY <1>2, <3>1, HexDigits
  <2>3. ~(Len(s) % 2 # 0 \/ \E i \in DOMAIN s : hex_val(s[i]) = None)
    <3>1. None \notin Digit
      BY NoneAssumption DEF Digit
    <3>2. DOMAIN s = 1 .. 2 * n /\ Len(s) % 2 = 0
      BY <2>1
    <3> QED BY <1>2, <2>2, <3>1, <3>2
  <2>4. Len(s) \div 2 = n
    BY <2>1
  <2>5. \A k \in 1 .. n : 16 * hex_val(s[2 * k - 1]) + hex_val(s[2 * k]) = b[k]
    <3> SUFFICES ASSUME NEW k \in 1 .. n PROVE 16 * hex_val(s[2 * k - 1]) + hex_val(s[2 * k]) = b[k]
      OBVIOUS
    <3>1. b[k] \in Byte /\ Nibble(b, 2 * k - 1) = b[k] \div 16 /\ Nibble(b, 2 * k) = b[k] % 16
      BY <1>1, Nibbles
    <3>2. hex_val(s[2 * k - 1]) = b[k] \div 16 /\ hex_val(s[2 * k]) = b[k] % 16
      BY <2>2, <3>1
    <3>3. \A x \in Byte : 16 * (x \div 16) + (x % 16) = x
      BY DEF Byte
    <3> QED BY <3>1, <3>2, <3>3
  <2>6. hex_decode(s) = [k \in 1 .. n |-> b[k]]
    BY <2>3, <2>4, <2>5 DEF hex_decode
  <2> QED BY <1>1, <2>6
<1>4. ASSUME hex_decode(s) = b PROVE eq_ignore_ascii_case(s, h)
  <2>1. b # None
    <3>1. b \in Seq(Nat)
      BY SeqWidens DEF Byte
    <3> QED BY <3>1, NoneAssumption
  <2>2. Len(s) % 2 = 0 /\ (\A i \in DOMAIN s : hex_val(s[i]) # None)
        /\ b = [i \in 1 .. Len(s) \div 2 |-> 16 * hex_val(s[2 * i - 1]) + hex_val(s[2 * i])]
    BY <1>4, <2>1, Zenon DEF hex_decode
  <2>3. Len(s) = 2 * n
    BY <1>1, <2>2
  <2>4. \A k \in 1 .. n : hex_val(s[2 * k - 1]) = Nibble(b, 2 * k - 1) /\ hex_val(s[2 * k]) = Nibble(b, 2 * k)
    <3> SUFFICES ASSUME NEW k \in 1 .. n
                 PROVE  hex_val(s[2 * k - 1]) = Nibble(b, 2 * k - 1) /\ hex_val(s[2 * k]) = Nibble(b, 2 * k)
      OBVIOUS
    <3>1. b[k] \in Byte /\ Nibble(b, 2 * k - 1) = b[k] \div 16 /\ Nibble(b, 2 * k) = b[k] % 16
      BY <1>1, Nibbles
    <3>2. s[2 * k - 1] \in Nat /\ s[2 * k] \in Nat /\ 2 * k - 1 \in DOMAIN s /\ 2 * k \in DOMAIN s
      BY <2>3
    <3>3. hex_val(s[2 * k - 1]) \in Digit /\ hex_val(s[2 * k]) \in Digit
      BY <2>2, <3>2, HexDigits
    <3>4. b[k] = 16 * hex_val(s[2 * k - 1]) + hex_val(s[2 * k])
      BY <2>2, <2>3
    <3>5. \A x \in Digit, y \in Digit : (16 * x + y) \div 16 = x /\ (16 * x + y) % 16 = y
      BY DEF Digit
    <3> QED BY <3>1, <3>3, <3>4, <3>5
  <2>5. ASSUME NEW i \in 1 .. 2 * n PROVE lower(s[i]) = lower(h[i])
    <3>1. PICK k \in 1 .. n : i = 2 * k - 1 \/ i = 2 * k
      <4> DEFINE m == (i + 1) \div 2
      <4>1. m \in 1 .. n /\ (i = 2 * m - 1 \/ i = 2 * m)
        OBVIOUS
      <4> HIDE DEF m
      <4> QED BY <4>1
    <3>2. hex_val(s[i]) = Nibble(b, i) /\ s[i] \in Nat
      <4>1. hex_val(s[i]) = Nibble(b, i)
        BY <2>4, <3>1
      <4> QED BY <2>3, <4>1
    <3> QED BY <1>2, <3>2, HexDigits
  <2> QED BY <1>2, <2>3, <2>5 DEF eq_ignore_ascii_case
<1> QED BY <1>1, <1>3, <1>4

LEMMA HexRoundTrip ==
  ASSUME NEW b \in Seq(Byte)
  PROVE  hex_decode(hex_encode(b)) = b
<1>1. PICK h : h = hex_encode(b)
  OBVIOUS
<1>2. h \in Seq(Nat)
  BY <1>1, HexEncoded
<1>3. eq_ignore_ascii_case(h, h)
  BY DEF eq_ignore_ascii_case
<1> QED BY <1>1, <1>2, <1>3, HexText

-----------------------------------------------------------------------------
(* UUIDs *)

Dashes == {DASH}

LEMMA NormTyped ==
  ASSUME NEW s \in Seq(Nat)
  PROVE  norm(s) \in Seq(Nat)
<1>1. PICK w : w = Without(s, Dashes)
  OBVIOUS
<1>2. w \in Seq(Nat)
  BY <1>1, WithoutTyped
<1>3. [i \in DOMAIN w |-> lower(w[i])] \in Seq(Nat)
  BY <1>2 DEF lower
<1> QED BY <1>1, <1>3 DEF norm, Dashes

LEMMA NormAppend ==
  ASSUME NEW s \in Seq(Nat), NEW c \in Nat
  PROVE  norm(Append(s, c)) = IF c = DASH THEN norm(s) ELSE Append(norm(s), lower(c))
<1> DEFINE Low(u) == [i \in DOMAIN u |-> lower(u[i])]
<1>1. PICK w : w = Without(s, Dashes)
  OBVIOUS
<1>2. w \in Seq(Nat)
  BY <1>1, WithoutTyped
<1>3. Without(Append(s, c), Dashes) = IF c \in Dashes THEN w ELSE Append(w, c)
  BY <1>1, WithoutAppend
<1>4. Low(Append(w, c)) = Append(Low(w), lower(c))
  BY <1>2
<1>5. norm(s) = Low(w) /\ norm(Append(s, c)) = Low(Without(Append(s, c), Dashes))
  BY <1>1 DEF norm, Dashes
<1>6. CASE c = DASH
  BY <1>3, <1>5, <1>6 DEF Dashes
<1>7. CASE c # DASH
  <2>1. Without(Append(s, c), Dashes) = Append(w, c)
    BY <1>3, <1>7 DEF Dashes
  <2> HIDE DEF Low
  <2> QED BY <1>4, <1>5, <1>7, <2>1
<1> QED BY <1>6, <1>7

\* A piece of text and the piece that follows it.
LEMMA JoinPieces ==
  ASSUME NEW S, NEW s \in Seq(S), NEW i \in Nat, NEW j \in Nat, i <= j, j <= Len(s)
  PROVE  SubSeq(s, 1, i) \o SubSeq(s, i + 1, j) = SubSeq(s, 1, j)
OBVIOUS

\* Stripping the dashes after a piece that has none.
LEMMA StripDash ==
  ASSUME NEW S \in SUBSET Nat, DASH \notin S, NEW s \in Seq(Nat), NEW t \in Seq(S)
  PROVE  /\ s \o <<DASH>> \o t \in Seq(Nat)
         /\ Without(s \o <<DASH>> \o t, Dashes) = Without(s, Dashes) \o t
<1>1. PICK u : u = s \o <<DASH>>
  OBVIOUS
<1>2. <<DASH>> \in Seq(Nat) /\ u \in Seq(Nat) /\ t \in Seq(Nat)
  <2>1. <<DASH>> \in Seq(Nat)
    BY DEF DASH
  <2>2. u \in Seq(Nat)
    BY <1>1 DEF DASH
  <2> QED BY <2>1, <2>2, SeqWidens
<1>3. u \o t \in Seq(Nat)
  BY <1>2
<1>4. PICK w \in Seq(Nat) : w = Without(s, Dashes)
  BY WithoutTyped
<1>5. Without(u, Dashes) = w
  <2>1. Without(s \o <<DASH>>, Dashes) = w \o Without(<<DASH>>, Dashes)
    <3>1. PICK v \in Seq(Nat) : v = <<DASH>>
      BY <1>2
    <3>2. Without(Join(s, v), Dashes) = Join(Without(s, Dashes), Without(v, Dashes))
      BY WithoutJoin
    <3> QED BY <1>4, <3>1, <3>2 DEF Join
  <2>2. Without(<<DASH>>, Dashes) = <<>>
    BY WithoutOne DEF Dashes
  <2>3. w \o <<>> = w
    OBVIOUS
  <2> QED BY <1>1, <2>1, <2>2, <2>3
<1>6. Without(t, Dashes) = t
  <2>1. S \cap Dashes = {}
    BY DEF Dashes
  <2> QED BY <2>1, WithoutNone
<1>7. Without(u \o t, Dashes) = w \o t
  <2>1. Without(u \o t, Dashes) = Without(u, Dashes) \o Without(t, Dashes)
    <3>1. Without(Join(u, t), Dashes) = Join(Without(u, Dashes), Without(t, Dashes))
      BY <1>2, WithoutJoin
    <3> QED BY <3>1 DEF Join
  <2> QED BY <1>5, <1>6, <2>1
<1> QED BY <1>1, <1>3, <1>4, <1>7

Lowercase == {c \in Nat : c \in 26 .. 31 \/ c \in 52 .. 61}

\* What hex_encode writes has no dash and is in lower case.
LEMMA HexLowercase ==
  ASSUME NEW b \in Seq(Byte)
  PROVE  hex_encode(b) \in Seq(Lowercase)
<1>1. \A n \in Digit : HEX(n) \in Lowercase
  BY DEF Digit, HEX, Lowercase
<1>2. PICK h : h = hex_encode(b)
  OBVIOUS
<1>3. PICK n \in Nat : n = 2 * Len(b)
  OBVIOUS
<1>4. h \in Seq(Nat) /\ Len(h) = n /\ \A i \in 1 .. n : h[i] \in Lowercase
  BY <1>1, <1>2, <1>3, HexEncoded
<1> QED BY <1>2, <1>4

\* The first j digits of h, and s followed by a dash and the digits f to j.
First(h, j) == SubSeq(h, 1, j)

Long(s, n) == Len(s) = n

LEMMA FirstOf ==
  ASSUME NEW S, NEW d \in Seq(S), NEW k \in Nat, k <= Len(d)
  PROVE  /\ First(d, k) \in Seq(S) /\ Long(First(d, k), k)
         /\ \A i \in 1 .. k : First(d, k)[i] = d[i]
<1>1. SubSeq(d, 1, k) \in Seq(S) /\ Len(SubSeq(d, 1, k)) = k
  OBVIOUS
<1>2. \A i \in 1 .. k : SubSeq(d, 1, k)[i] = d[i]
  OBVIOUS
<1> QED BY <1>1, <1>2 DEF First, Long

Piece(s, h, f, j) == s \o <<DASH>> \o SubSeq(h, f, j)

LEMMA Dashed ==
  ASSUME NEW h \in Seq(Lowercase), NEW s \in Seq(Nat),
         NEW f \in Nat, NEW j \in Nat, 1 <= f, f <= j, j <= Len(h),
         Without(s, Dashes) = First(h, f - 1), NEW n \in Nat, Long(s, n)
  PROVE  /\ Piece(s, h, f, j) \in Seq(Nat)
         /\ Without(Piece(s, h, f, j), Dashes) = First(h, j)
         /\ Long(Piece(s, h, f, j), n + 2 + (j - f))
         /\ \A k \in 1 .. n : Piece(s, h, f, j)[k] = s[k]
         /\ Piece(s, h, f, j)[n + 2] = h[f]
<1>1. Lowercase \in SUBSET Nat /\ DASH \notin Lowercase
  BY DEF Lowercase, DASH
<1>2. PICK t \in Seq(Lowercase) : t = SubSeq(h, f, j)
  <2>1. SubSeq(h, f, j) \in Seq(Lowercase)
    OBVIOUS
  <2> QED BY <2>1
<1>3. Len(t) = j - f + 1 /\ t[1] = h[f]
  BY <1>2
<1>4. PICK v : v = s \o <<DASH>> \o t
  OBVIOUS
<1>5. v \in Seq(Nat) /\ Without(v, Dashes) = Without(s, Dashes) \o t
  BY <1>1, <1>4, StripDash
<1>6. Piece(s, h, f, j) = v
  BY <1>2, <1>4 DEF Piece
<1>7. Without(v, Dashes) = First(h, j)
  <2>1. f - 1 \in Nat /\ f - 1 <= j /\ (f - 1) + 1 = f
    OBVIOUS
  <2>2. SubSeq(h, 1, f - 1) \o SubSeq(h, f, j) = SubSeq(h, 1, j)
    OBVIOUS
  <2> QED BY <1>2, <1>5, <2>2, Zenon DEF First
<1>8. Len(v) = Len(s) + 2 + (j - f) /\ (\A k \in 1 .. Len(s) : v[k] = s[k]) /\ v[Len(s) + 2] = h[f]
  <2>1. PICK w : w = s \o <<DASH>>
    OBVIOUS
  <2>2. DASH \in Nat
    BY DEF DASH
  <2>3. w \in Seq(Nat) /\ Len(w) = Len(s) + 1 /\ \A k \in 1 .. Len(s) : w[k] = s[k]
    BY <2>1, <2>2
  <2>4. t \in Seq(Nat)
    BY <1>1, SeqWidens
  <2>5. v = w \o t
    BY <1>4, <2>1
  <2>6. Len(v) = Len(w) + Len(t) /\ \A i \in 1 .. Len(w) + Len(t) : v[i] = IF i <= Len(w) THEN w[i] ELSE t[i - Len(w)]
    BY <2>3, <2>4, <2>5, Joined
  <2>7. Len(s) \in Nat /\ Len(s) + 2 \in 1 .. Len(w) + Len(t) /\ Len(s) + 2 - Len(w) = 1
    BY <1>3, <2>3
  <2>8. Len(v) = Len(s) + 2 + (j - f)
    BY <1>3, <2>3, <2>6
  <2>9. ASSUME NEW k \in 1 .. Len(s) PROVE v[k] = s[k]
    <3>1. k \in 1 .. Len(w) + Len(t)
      BY <1>3, <2>3
    <3>2. k <= Len(w)
      BY <2>3
    <3>3. v[k] = w[k]
      BY <2>6, <3>1, <3>2
    <3> QED BY <2>3, <3>3
  <2>10. v[Len(s) + 2] = t[Len(s) + 2 - Len(w)]
    <3>1. ~(Len(s) + 2 <= Len(w))
      BY <2>3
    <3> QED BY <2>6, <2>7, <3>1
  <2> QED BY <1>3, <2>7, <2>8, <2>9, <2>10
<1> QED BY <1>5, <1>6, <1>7, <1>8 DEF Long

\* s is text of length n that holds the first e digits of h.
Holds(s, h, e, n) ==
  /\ h \in Seq(Lowercase) /\ e \in Nat /\ e <= Len(h)
  /\ s \in Seq(Nat) /\ n \in Nat /\ Long(s, n)
  /\ Without(s, Dashes) = First(h, e)

\* After e digits in n places, the digits f to j and a dash make m places.
Follows(h, e, n, f, j, m) ==
  /\ e \in Nat /\ n \in Nat /\ j \in Nat /\ j <= Len(h)
  /\ f = e + 1 /\ f <= j /\ m = n + 2 + (j - f)

\* t goes on from the n places of s with a dash and the f-th digit of h.
GoesOn(t, s, n, h, f) == t[n + 2] = h[f] /\ \A k \in 1 .. n : t[k] = s[k]

LEMMA PieceAdded ==
  ASSUME NEW s, NEW h, NEW e, NEW n, Holds(s, h, e, n),
         NEW f, NEW j, NEW m, Follows(h, e, n, f, j, m)
  PROVE  /\ Holds(Piece(s, h, f, j), h, j, m)
         /\ GoesOn(Piece(s, h, f, j), s, n, h, f)
<1>1. h \in Seq(Lowercase) /\ s \in Seq(Nat) /\ Long(s, n)
  BY DEF Holds
<1>2. e \in Nat /\ n \in Nat /\ f \in Nat /\ j \in Nat /\ 1 <= f /\ f <= j /\ j <= Len(h)
      /\ f - 1 = e /\ m = n + 2 + (j - f) /\ m \in Nat
  BY DEF Follows
<1>3. Without(s, Dashes) = First(h, f - 1)
  BY <1>2 DEF Holds
<1>4. /\ Piece(s, h, f, j) \in Seq(Nat)
      /\ Without(Piece(s, h, f, j), Dashes) = First(h, j)
      /\ Long(Piece(s, h, f, j), m)
      /\ \A k \in 1 .. n : Piece(s, h, f, j)[k] = s[k]
      /\ Piece(s, h, f, j)[n + 2] = h[f]
  <2> HIDE DEF Piece
  <2> QED BY <1>1, <1>2, <1>3, Dashed
<1>5. GoesOn(Piece(s, h, f, j), s, n, h, f)
  BY <1>4 DEF GoesOn
<1> QED BY <1>1, <1>2, <1>4, <1>5 DEF Holds

\* The text uuid_v5 makes of 32 digits.
TextOf(h) ==
  SubSeq(h, 1, 8) \o <<DASH>> \o SubSeq(h, 9, 12) \o <<DASH>> \o SubSeq(h, 13, 16)
    \o <<DASH>> \o SubSeq(h, 17, 20) \o <<DASH>> \o SubSeq(h, 21, 32)

\* The text of a UUID: 32 digits, of which the 13th and the 17th stand at
\* places 15 and 20, and norm gives the digits back.
LEMMA UuidText ==
  ASSUME NEW h \in Seq(Lowercase), Long(h, 32)
  PROVE  /\ TextOf(h) \in Seq(Nat) /\ norm(TextOf(h)) = h
         /\ TextOf(h)[15] = h[13] /\ TextOf(h)[20] = h[17]
<1> 32 <= Len(h)
  BY DEF Long
<1>1. PICK u1 : u1 = First(h, 8)
  OBVIOUS
<1>2. Holds(u1, h, 8, 8)
  <2>1. u1 \in Seq(Lowercase) /\ Long(u1, 8)
    BY <1>1, FirstOf
  <2>2. u1 \in Seq(Nat)
    BY <2>1, SeqWidens DEF Lowercase
  <2>3. Without(u1, Dashes) = u1
    <3>1. DASH \notin Lowercase
      BY DEF Lowercase, DASH
    <3>2. Lowercase \cap Dashes = {}
      BY <3>1 DEF Dashes
    <3> QED BY <2>1, <3>2, WithoutNone
  <2> QED BY <1>1, <2>1, <2>2, <2>3 DEF Holds
<1>3. /\ Follows(h, 8, 8, 9, 12, 13) /\ Follows(h, 12, 13, 13, 16, 18)
      /\ Follows(h, 16, 18, 17, 20, 23) /\ Follows(h, 20, 23, 21, 32, 36)
  BY DEF Follows
<1>4. PICK u2 : u2 = Piece(u1, h, 9, 12)
  OBVIOUS
<1>5. Holds(u2, h, 12, 13)
  BY <1>2, <1>3, <1>4, PieceAdded
<1>6. PICK u3 : u3 = Piece(u2, h, 13, 16)
  OBVIOUS
<1>7. Holds(u3, h, 16, 18) /\ GoesOn(u3, u2, 13, h, 13)
  BY <1>3, <1>5, <1>6, PieceAdded
<1>8. PICK u4 : u4 = Piece(u3, h, 17, 20)
  OBVIOUS
<1>9. Holds(u4, h, 20, 23) /\ GoesOn(u4, u3, 18, h, 17)
  BY <1>3, <1>7, <1>8, PieceAdded
<1>10. PICK u5 : u5 = Piece(u4, h, 21, 32)
  OBVIOUS
<1>11. Holds(u5, h, 32, 36) /\ GoesOn(u5, u4, 23, h, 21)
  BY <1>3, <1>9, <1>10, PieceAdded
<1>12. u5[15] = h[13] /\ u5[20] = h[17]
  <2>1. u3[15] = h[13]
    BY <1>7 DEF GoesOn
  <2>2. u4[20] = h[17] /\ u4[15] = u3[15]
    BY <1>9 DEF GoesOn
  <2>3. u5[20] = u4[20] /\ u5[15] = u4[15]
    BY <1>11 DEF GoesOn
  <2> QED BY <2>1, <2>2, <2>3
<1>13. u5 \in Seq(Nat) /\ Without(u5, Dashes) = First(h, 32)
  BY <1>11 DEF Holds
<1>18. TextOf(h) = u5
  BY <1>1, <1>4, <1>6, <1>8, <1>10, Zenon DEF TextOf, First, Piece
<1>19. First(h, 32) = h
  <2>1. PICK n \in Nat : n = Len(h)
    OBVIOUS
  <2>2. First(h, n) = h
    BY <2>1 DEF First
  <2> QED BY <2>1, <2>2 DEF Long
<1>20. [i \in DOMAIN h |-> lower(h[i])] = h
  <2>1. \A c \in Lowercase : lower(c) = c
    BY DEF lower, Lowercase
  <2> QED BY <2>1
<1>21. norm(u5) = h
  BY <1>13, <1>19, <1>20 DEF norm, Dashes
<1> QED BY <1>12, <1>13, <1>18, <1>21

\* Byte i of a UUID: version and variant are set, the rest is the digest's.
Mark(d, i) == IF i = 7 THEN (d[7] % 16) + 80 ELSE IF i = 9 THEN (d[9] % 64) + 128 ELSE d[i]

LEMMA StampedDigest ==
  ASSUME NEW d \in Seq(Byte), Len(d) = 20
  PROVE  /\ Stamped(d) \in Seq(Byte) /\ Long(Stamped(d), 16)
         /\ \A i \in 1 .. 16 : Stamped(d)[i] = Mark(d, i)
<1>1. \A i \in 1 .. 20 : d[i] \in Byte
  BY Element
<1>2. PICK u : u = SubSeq(d, 1, 16)
  OBVIOUS
<1>3. Len(u) = 16 /\ DOMAIN u = 1 .. 16 /\ \A i \in 1 .. 16 : u[i] = d[i]
  <2>1. d \in Seq(Nat)
    <3>1. Byte \in SUBSET Nat
      BY DEF Byte
    <3> QED BY <3>1, SeqWidens
  <2>2. 16 <= Len(d) /\ 16 \in Nat /\ u = First(d, 16)
    BY <1>2 DEF First
  <2>3. u \in Seq(Nat) /\ Long(u, 16) /\ \A i \in 1 .. 16 : u[i] = d[i]
    BY <2>1, <2>2, FirstOf
  <2> QED BY <2>3 DEF Long
<1>4. PICK m : m = Stamped(d)
  OBVIOUS
<1>5. m = [u EXCEPT ![7] = (@ % 16) + 80, ![9] = (@ % 64) + 128]
  BY <1>2, <1>4 DEF Stamped
<1>6. DOMAIN m = 1 .. 16 /\ \A i \in 1 .. 16 : m[i] = Mark(d, i)
  <2>1. u[7] = d[7] /\ u[9] = d[9]
    BY <1>3
  <2>2. \A i \in 1 .. 16 : i # 7 /\ i # 9 => m[i] = u[i]
    BY <1>3, <1>5
  <2>3. m[7] = (d[7] % 16) + 80 /\ m[9] = (d[9] % 64) + 128 /\ DOMAIN m = 1 .. 16
    BY <1>3, <1>5, <2>1
  <2>4. ASSUME NEW i \in 1 .. 16 PROVE m[i] = Mark(d, i)
    <3>1. CASE i = 7 \/ i = 9
      BY <2>3, <3>1 DEF Mark
    <3>2. CASE i # 7 /\ i # 9
      <4>1. m[i] = d[i]
        BY <1>3, <2>2, <3>2
      <4> QED BY <3>2, <4>1 DEF Mark
    <3> QED BY <3>1, <3>2
  <2> QED BY <2>3, <2>4
<1>7. \A i \in 1 .. 16 : Mark(d, i) \in Byte
  <2>1. \A x \in Byte : (x % 16) + 80 \in Byte /\ (x % 64) + 128 \in Byte
    BY DEF Byte
  <2>2. d[7] \in Byte /\ d[9] \in Byte /\ \A i \in 1 .. 16 : d[i] \in Byte
    BY <1>1
  <2>3. (d[7] % 16) + 80 \in Byte /\ (d[9] % 64) + 128 \in Byte
    BY <2>1, <2>2
  <2> QED BY <2>2, <2>3 DEF Mark
<1>8. m \in Seq(Byte) /\ Len(m) = 16
  <2>1. m = [i \in 1 .. 16 |-> m[i]]
    BY <1>3, <1>5, <1>6
  <2> QED BY <1>6, <1>7, <2>1
<1> QED BY <1>4, <1>6, <1>8 DEF Long

\* The hex text of a stamped digest has the version and the variant in their
\* places, and norm of the UUID is that text.
LEMMA UuidOf ==
  ASSUME NEW d \in Seq(Byte), Len(d) = 20, NEW h, h = hex_encode(Stamped(d))
  PROVE  /\ uuid_v5(d) \in Seq(Nat)
         /\ norm(uuid_v5(d)) = h /\ hex_decode(h) = Stamped(d)
         /\ uuid_v5(d)[15] = HEX(5)
         /\ uuid_v5(d)[20] \in {HEX(8), HEX(9), HEX(10), HEX(11)}
<1>1. PICK m : m = Stamped(d)
  OBVIOUS
<1>2. m \in Seq(Byte) /\ Long(m, 16) /\ \A i \in 1 .. 16 : m[i] = Mark(d, i)
  BY <1>1, StampedDigest
<1>3. PICK g : g = hex_encode(m)
  OBVIOUS
<1>4. g \in Seq(Lowercase) /\ hex_decode(g) = m
  BY <1>2, <1>3, HexLowercase, HexRoundTrip
<1>5. Long(g, 32)
  <2>1. PICK n \in Nat : n = Len(m)
    BY <1>2
  <2>2. Len(g) = 2 * n
    BY <1>2, <1>3, <2>1, HexEncoded
  <2> QED BY <1>2, <2>1, <2>2 DEF Long
<1>6. g[13] = HEX(5) /\ g[17] \in {HEX(8), HEX(9), HEX(10), HEX(11)}
  <2>1. 7 \in 1 .. Len(m) /\ 9 \in 1 .. Len(m)
    BY <1>2 DEF Long
  <2>2. Nibble(m, 2 * 7 - 1) = m[7] \div 16 /\ Nibble(m, 2 * 9 - 1) = m[9] \div 16
    BY <1>2, <2>1, Nibbles
  <2>3. PICK x \in Byte, y \in Byte : m[7] = (x % 16) + 80 /\ m[9] = (y % 64) + 128
    <3>1. d[7] \in Byte /\ d[9] \in Byte
      <4>1. \A i \in 1 .. 20 : d[i] \in Byte
        BY Element
      <4> QED BY <4>1
    <3>2. m[7] = Mark(d, 7) /\ m[9] = Mark(d, 9)
      BY <1>2
    <3>3. m[7] = (d[7] % 16) + 80 /\ m[9] = (d[9] % 64) + 128
      BY <3>2 DEF Mark
    <3> QED BY <3>1, <3>3
  <2>4. ((x % 16) + 80) \div 16 = 5 /\ ((y % 64) + 128) \div 16 \in {8, 9, 10, 11}
    BY DEF Byte
  <2>5. 13 \in 1 .. 2 * Len(m) /\ 17 \in 1 .. 2 * Len(m)
    BY <2>1
  <2>6. g[13] = HEX(Nibble(m, 13)) /\ g[17] = HEX(Nibble(m, 17))
    BY <1>2, <1>3, <2>5, HexEncoded
  <2>7. Nibble(m, 13) = 5 /\ Nibble(m, 17) \in {8, 9, 10, 11}
    BY <2>2, <2>3, <2>4
  <2> QED BY <2>6, <2>7
<1>7. uuid_v5(d) = TextOf(g)
  BY <1>1, <1>3, Zenon DEF uuid_v5, TextOf
<1>8. PICK t : t = TextOf(g)
  OBVIOUS
<1>9. t \in Seq(Nat) /\ norm(t) = g /\ t[15] = g[13] /\ t[20] = g[17]
  BY <1>4, <1>5, <1>8, UuidText
<1> QED BY <1>1, <1>3, <1>4, <1>6, <1>7, <1>8, <1>9

-----------------------------------------------------------------------------
(* The base64 decoder *)

\* The characters that stand for six bits, and what they stand for.
Symbol == {c \in Nat : c <= UNDERSCORE}

Sextet == {v \in Nat : v < 64}

Bit == {0, 1}

LEMMA Symbols ==
  /\ \A c \in Nat : b64_val(c) # None <=> c \in Symbol
  /\ \A c \in Symbol : b64_val(c) \in Sextet
<1>1. \A c \in Symbol : b64_val(c) \in Sextet
  BY DEF b64_val, Symbol, Sextet, DASH, UNDERSCORE
<1>2. \A c \in Nat : c \notin Symbol => b64_val(c) = None
  BY DEF b64_val, Symbol, DASH, UNDERSCORE
<1>3. None \notin Sextet
  BY NoneAssumption DEF Sextet
<1> QED BY <1>1, <1>2, <1>3

LEMMA BitsTyped ==
  ASSUME NEW v \in Sextet
  PROVE  Bits(v) \in Seq(Bit) /\ Long(Bits(v), 6)
<1>1. /\ v \div 32 \in Bit /\ (v \div 16) % 2 \in Bit /\ (v \div 8) % 2 \in Bit
      /\ (v \div 4) % 2 \in Bit /\ (v \div 2) % 2 \in Bit /\ v % 2 \in Bit
  BY DEF Sextet, Bit
<1> QED BY <1>1 DEF Bits, Long

\* The elements f to l of a sequence.
Slice(a, f, l) == SubSeq(a, f, l)

\* t is the m elements of a from the f-th on.
IsSlice(t, a, f, m) == Len(t) = m /\ \A i \in 1 .. m : t[i] = a[f + i - 1]

LEMMA SliceOf ==
  ASSUME NEW S, NEW a \in Seq(S), NEW f \in Nat, NEW l \in Nat, NEW m \in Nat,
         1 <= f, l + 1 = f + m, l <= Len(a)
  PROVE  Slice(a, f, l) \in Seq(S) /\ IsSlice(Slice(a, f, l), a, f, m)
<1>1. SubSeq(a, f, l) \in Seq(S)
  OBVIOUS
<1>2. Len(SubSeq(a, f, l)) = m
  OBVIOUS
<1>3. \A i \in 1 .. m : SubSeq(a, f, l)[i] = a[f + i - 1]
  OBVIOUS
<1> QED BY <1>1, <1>2, <1>3 DEF Slice, IsSlice

\* acc << 6, with a new character's bits at its end.
Moved(acc, v) == SubSeq(acc, 7, 32) \o Bits(v)

LEMMA MovedBits ==
  ASSUME NEW acc \in Seq(Bit), Long(acc, 32), NEW v \in Sextet
  PROVE  /\ Moved(acc, v) \in Seq(Bit) /\ Long(Moved(acc, v), 32)
         /\ \A j \in 1 .. 6 : Moved(acc, v)[33 - j] = Bits(v)[7 - j]
         /\ \A j \in 7 .. 32 : Moved(acc, v)[33 - j] = acc[39 - j]
<1>1. PICK b \in Seq(Bit) : b = Bits(v)
  BY BitsTyped
<1>2. Len(b) = 6
  BY <1>1, BitsTyped DEF Long
<1>3. PICK a \in Seq(Bit) : a = Slice(acc, 7, 32) /\ IsSlice(a, acc, 7, 26)
  <2>1. 32 <= Len(acc) /\ 32 + 1 = 7 + 26 /\ 1 <= 7
    BY DEF Long
  <2> QED BY <2>1, SliceOf
<1>4. Len(a) = 26 /\ \A i \in 1 .. 26 : a[i] = acc[7 + i - 1]
  BY <1>3 DEF IsSlice
<1>5. PICK w : w = a \o b
  OBVIOUS
<1>6. w \in Seq(Bit) /\ Len(w) = Len(a) + Len(b)
  BY <1>5
<1>7. \A i \in 1 .. Len(a) : w[i] = a[i]
  BY <1>5
<1>8. \A i \in 1 .. Len(b) : w[Len(a) + i] = b[i]
  BY <1>5
<1>9. PICK p \in Nat, q \in Nat : p = Len(a) /\ q = Len(b)
  OBVIOUS
<1>10. p = 26 /\ q = 6
  BY <1>2, <1>4, <1>9 DEF Long
<1>11. ASSUME NEW j \in 1 .. 6 PROVE w[33 - j] = b[7 - j]
  <2>1. 7 - j \in 1 .. q /\ p + (7 - j) = 33 - j
    BY <1>10
  <2> QED BY <1>8, <1>9, <2>1
<1>12. ASSUME NEW j \in 7 .. 32 PROVE w[33 - j] = acc[39 - j]
  <2>1. PICK i \in Nat : i = 33 - j /\ 1 <= i /\ i <= 26
    OBVIOUS
  <2>2. i \in 1 .. p /\ i \in 1 .. 26 /\ 7 + i - 1 = 39 - j
    BY <1>10, <2>1
  <2>3. w[i] = a[i]
    BY <1>7, <1>9, <2>2
  <2>4. a[i] = acc[7 + i - 1]
    BY <1>4, <2>2
  <2> QED BY <2>1, <2>2, <2>3, <2>4
<1>13. w = Moved(acc, v)
  BY <1>1, <1>3, <1>5 DEF Moved, Slice
<1>14. Long(w, 32)
  BY <1>6, <1>9, <1>10 DEF Long
<1> QED BY <1>1, <1>6, <1>11, <1>12, <1>13, <1>14

\* Bit k of the characters u in a row, and the byte of the k-th eight.
BitAt(u, k) == Bits(b64_val(u[(k + 5) \div 6]))[((k - 1) % 6) + 1]

ByteAt(u, k) ==
  128 * BitAt(u, 8 * k - 7) + 64 * BitAt(u, 8 * k - 6) + 32 * BitAt(u, 8 * k - 5)
    + 16 * BitAt(u, 8 * k - 4) + 8 * BitAt(u, 8 * k - 3) + 4 * BitAt(u, 8 * k - 2)
    + 2 * BitAt(u, 8 * k - 1) + BitAt(u, 8 * k)

\* One more character leaves the earlier bits as they are and adds its own.
LEMMA BitAppended ==
  ASSUME NEW u \in Seq(Symbol), NEW c \in Symbol, NEW n \in Nat, n = Len(u)
  PROVE  /\ \A k \in 1 .. 6 * n : BitAt(Append(u, c), k) = BitAt(u, k)
         /\ \A k \in 1 .. n : 8 * k <= 6 * n => ByteAt(Append(u, c), k) = ByteAt(u, k)
         /\ \A j \in 1 .. 6 : BitAt(Append(u, c), 6 * n + j) = Bits(b64_val(c))[j]
<1>1. PICK t : t = Append(u, c)
  OBVIOUS
<1>2. (\A i \in 1 .. n : t[i] = u[i]) /\ t[n + 1] = c
  BY <1>1
<1>3. \A k \in 1 .. 6 * n : BitAt(t, k) = BitAt(u, k)
  <2> SUFFICES ASSUME NEW k \in 1 .. 6 * n PROVE BitAt(t, k) = BitAt(u, k)
    OBVIOUS
  <2>1. (k + 5) \div 6 \in 1 .. n
    OBVIOUS
  <2>2. t[(k + 5) \div 6] = u[(k + 5) \div 6]
    BY <1>2, <2>1
  <2> QED BY <2>2, Zenon DEF BitAt
<1>4. \A k \in 1 .. n : 8 * k <= 6 * n => ByteAt(t, k) = ByteAt(u, k)
  <2> SUFFICES ASSUME NEW k \in 1 .. n, 8 * k <= 6 * n PROVE ByteAt(t, k) = ByteAt(u, k)
    OBVIOUS
  <2>1. \A i \in 0 .. 7 : 8 * k - i \in 1 .. 6 * n
    OBVIOUS
  <2>2. 8 * k \in 1 .. 6 * n
    OBVIOUS
  <2>3. \A i \in 0 .. 7 : BitAt(t, 8 * k - i) = BitAt(u, 8 * k - i)
    BY <1>3, <2>1
  <2>4. BitAt(t, 8 * k) = BitAt(u, 8 * k)
    BY <1>3, <2>2
  <2> QED BY <2>3, <2>4 DEF ByteAt
<1>5. \A j \in 1 .. 6 : BitAt(t, 6 * n + j) = Bits(b64_val(c))[j]
  <2> SUFFICES ASSUME NEW j \in 1 .. 6 PROVE BitAt(t, 6 * n + j) = Bits(b64_val(c))[j]
    OBVIOUS
  <2>1. (6 * n + j + 5) \div 6 = n + 1 /\ ((6 * n + j - 1) % 6) + 1 = j
    OBVIOUS
  <2> QED BY <1>2, <2>1 DEF BitAt
<1> QED BY <1>1, <1>3, <1>4, <1>5

\* The decoder's state, and what it holds once it has read the characters u:
\* the whole bytes in out, the nbits bits left over at the end of acc.
Word == {a \in Seq(Bit) : Long(a, 32)}

DecoderState == [acc : Word, nbits : {0, 2, 4, 6}, out : Seq(Nat)]

HasRead(u, d) ==
  /\ d \in DecoderState
  /\ 6 * Len(u) = 8 * Len(d.out) + d.nbits
  /\ \A j \in 1 .. d.nbits : d.acc[33 - j] = BitAt(u, 6 * Len(u) + 1 - j)
  /\ \A k \in 1 .. Len(d.out) : d.out[k] = ByteAt(u, k)

\* What a turn makes of the new accumulator.
Shifted(acc, nbits, out) ==
  IF Emits(nbits)
  THEN [acc |-> acc, nbits |-> nbits - 8,
        out |-> Append(out, Number(SubSeq(acc, 33 - nbits, 40 - nbits)))]
  ELSE [acc |-> acc, nbits |-> nbits, out |-> out]

LEMMA ShiftIs ==
  ASSUME NEW d, NEW c
  PROVE  Shift(d, c) = Shifted(Moved(d.acc, b64_val(c)), d.nbits + 6, d.out)
BY Zenon DEF Shift, Shifted, Moved

\* One turn of the loop: whatever the top of the accumulator holds, the bits
\* not yet emitted are the last nbits of it.
LEMMA ShiftReads ==
  ASSUME NEW u \in Seq(Symbol), NEW c \in Symbol, NEW d, HasRead(u, d)
  PROVE  HasRead(Append(u, c), Shift(d, c))
<1>1. PICK n \in Nat : n = Len(u)
  OBVIOUS
<1>2. PICK t \in Seq(Symbol) : t = Append(u, c) /\ Len(t) = n + 1
  <2>1. Append(u, c) \in Seq(Symbol) /\ Len(Append(u, c)) = n + 1
    BY <1>1
  <2> QED BY <2>1
<1>3. PICK v \in Sextet : v = b64_val(c)
  BY Symbols
<1>4. PICK a \in Seq(Bit), b \in {0, 2, 4, 6}, out \in Seq(Nat) :
        /\ d.acc = a /\ Long(a, 32) /\ d.nbits = b /\ d.out = out
  BY DEF HasRead, DecoderState, Word
<1>5. PICK m \in Nat : m = Len(out)
  OBVIOUS
<1>6. /\ 6 * n = 8 * m + b
      /\ \A j \in 1 .. b : a[33 - j] = BitAt(u, 6 * n + 1 - j)
      /\ \A k \in 1 .. m : out[k] = ByteAt(u, k)
  BY <1>1, <1>4, <1>5 DEF HasRead
<1>7. PICK w \in Seq(Bit) : w = Moved(a, v)
  BY <1>4, MovedBits
<1>8. /\ Long(w, 32)
      /\ \A j \in 1 .. 6 : w[33 - j] = Bits(v)[7 - j]
      /\ \A j \in 7 .. 32 : w[33 - j] = a[39 - j]
  BY <1>4, <1>7, MovedBits
<1>9. /\ \A k \in 1 .. 6 * n : BitAt(t, k) = BitAt(u, k)
      /\ \A k \in 1 .. n : 8 * k <= 6 * n => ByteAt(t, k) = ByteAt(u, k)
      /\ \A j \in 1 .. 6 : BitAt(t, 6 * n + j) = Bits(v)[j]
  BY <1>1, <1>2, <1>3, BitAppended
<1>10. ASSUME NEW j \in 1 .. b + 6 PROVE w[33 - j] = BitAt(t, 6 * (n + 1) + 1 - j)
  <2>1. CASE j \in 1 .. 6
    <3>1. 7 - j \in 1 .. 6 /\ 6 * (n + 1) + 1 - j = 6 * n + (7 - j)
      BY <2>1
    <3> QED BY <1>8, <1>9, <2>1, <3>1
  <2>2. CASE j \in 7 .. b + 6
    <3>1. j - 6 \in 1 .. b /\ 39 - j = 33 - (j - 6) /\ j \in 7 .. 32
      BY <2>2
    <3>2. 6 * n + 1 - (j - 6) = 6 * (n + 1) + 1 - j /\ 6 * n + 1 - (j - 6) \in 1 .. 6 * n
      BY <1>6, <2>2
    <3>3. w[33 - j] = BitAt(u, 6 * n + 1 - (j - 6))
      BY <1>6, <1>8, <3>1
    <3> QED BY <1>9, <3>2, <3>3
  <2> QED BY <2>1, <2>2
<1>11. \A k \in 1 .. m : out[k] = ByteAt(t, k)
  <2>1. \A k \in 1 .. m : k \in 1 .. n /\ 8 * k <= 6 * n
    BY <1>6
  <2> QED BY <1>6, <1>9, <2>1
<1>12. Shift(d, c) = Shifted(w, b + 6, out)
  <2>1. Shift(d, c) = Shifted(Moved(d.acc, b64_val(c)), d.nbits + 6, d.out)
    BY ShiftIs
  <2> QED BY <1>3, <1>4, <1>7, <2>1
<1>13. CASE b + 6 < 8
  <2>1. b = 0
    BY <1>13
  <2>2. PICK e : e = Shift(d, c)
    OBVIOUS
  <2>3. e = [acc |-> w, nbits |-> 6, out |-> out]
    BY <1>12, <2>1, <2>2 DEF Shifted, Emits
  <2>4. e \in DecoderState /\ e.acc = w /\ e.nbits = 6 /\ e.out = out
    BY <1>8, <2>3 DEF DecoderState, Word
  <2>5. 6 * (n + 1) = 8 * m + 6
    BY <1>6, <2>1
  <2>6. \A j \in 1 .. 6 : w[33 - j] = BitAt(t, 6 * (n + 1) + 1 - j)
    <3>1. \A j \in 1 .. 6 : j \in 1 .. b + 6
      BY <2>1
    <3> QED BY <1>10, <3>1
  <2> QED BY <1>2, <1>5, <1>11, <2>2, <2>4, <2>5, <2>6 DEF HasRead
<1>14. CASE b + 6 >= 8
  <2>1. b \in {2, 4, 6}
    BY <1>14
  <2>2. PICK s \in Seq(Bit) : s = Slice(w, 27 - b, 34 - b) /\ IsSlice(s, w, 27 - b, 8)
    <3>1. PICK f \in Nat, l \in Nat : f = 27 - b /\ l = 34 - b
      BY <2>1
    <3>2. 32 <= Len(w)
      <4>1. Long(w, 32)
        BY <1>8
      <4> QED BY <4>1 DEF Long
    <3>3. 1 <= f /\ l + 1 = f + 8 /\ l <= Len(w)
      BY <2>1, <3>1, <3>2
    <3> QED BY <3>1, <3>3, SliceOf
  <2>3. ASSUME NEW i \in 1 .. 8 PROVE s[i] = BitAt(t, 8 * m + i)
    <3>1. s[i] = w[(27 - b) + i - 1]
      BY <2>2 DEF IsSlice
    <3>2. (7 + b) - i \in 1 .. b + 6 /\ (27 - b) + i - 1 = 33 - ((7 + b) - i)
      BY <2>1
    <3>3. 6 * (n + 1) + 1 - ((7 + b) - i) = 8 * m + i
      BY <1>6, <2>1
    <3> QED BY <1>10, <3>1, <3>2, <3>3
  <2>4. Number(s) = ByteAt(t, m + 1)
    <3>1. /\ 8 * (m + 1) - 7 = 8 * m + 1 /\ 8 * (m + 1) - 6 = 8 * m + 2 /\ 8 * (m + 1) - 5 = 8 * m + 3
          /\ 8 * (m + 1) - 4 = 8 * m + 4 /\ 8 * (m + 1) - 3 = 8 * m + 5 /\ 8 * (m + 1) - 2 = 8 * m + 6
          /\ 8 * (m + 1) - 1 = 8 * m + 7 /\ 8 * (m + 1) = 8 * m + 8
      OBVIOUS
    <3>2. /\ s[1] = BitAt(t, 8 * m + 1) /\ s[2] = BitAt(t, 8 * m + 2) /\ s[3] = BitAt(t, 8 * m + 3)
          /\ s[4] = BitAt(t, 8 * m + 4) /\ s[5] = BitAt(t, 8 * m + 5) /\ s[6] = BitAt(t, 8 * m + 6)
          /\ s[7] = BitAt(t, 8 * m + 7) /\ s[8] = BitAt(t, 8 * m + 8)
      BY <2>3
    <3> QED BY <3>1, <3>2 DEF Number, ByteAt
  <2>5. Number(s) \in Nat
    <3>1. Len(s) = 8
      BY <2>2 DEF IsSlice
    <3>2. \A i \in 1 .. Len(s) : s[i] \in Bit
      OBVIOUS
    <3>3. s[1] \in Bit /\ s[2] \in Bit /\ s[3] \in Bit /\ s[4] \in Bit
          /\ s[5] \in Bit /\ s[6] \in Bit /\ s[7] \in Bit /\ s[8] \in Bit
      BY <3>1, <3>2
    <3>4. PICK b1 \in Nat, b2 \in Nat, b3 \in Nat, b4 \in Nat, b5 \in Nat, b6 \in Nat, b7 \in Nat, b8 \in Nat :
            s[1] = b1 /\ s[2] = b2 /\ s[3] = b3 /\ s[4] = b4 /\ s[5] = b5 /\ s[6] = b6 /\ s[7] = b7 /\ s[8] = b8
      <4>1. \A x \in Bit : x \in Nat
        BY DEF Bit
      <4> QED BY <3>3, <4>1, Zenon
    <3> QED BY <3>4 DEF Number
  <2>6. PICK o \in Seq(Nat) : o = Append(out, Number(s)) /\ Len(o) = m + 1
                              /\ o[m + 1] = Number(s) /\ \A k \in 1 .. m : o[k] = out[k]
    <3>1. PICK x \in Nat : x = Number(s)
      BY <2>5
    <3>2. Append(out, x) \in Seq(Nat) /\ Len(Append(out, x)) = m + 1 /\ Append(out, x)[m + 1] = x
          /\ \A k \in 1 .. m : Append(out, x)[k] = out[k]
      BY <1>5
    <3> QED BY <3>1, <3>2
  <2>7. PICK e : e = Shift(d, c)
    OBVIOUS
  <2>8. e = [acc |-> w, nbits |-> b - 2, out |-> o]
    <3>1. 33 - (b + 6) = 27 - b /\ 40 - (b + 6) = 34 - b /\ b + 6 - 8 = b - 2
      BY <2>1
    <3>2. s = SubSeq(w, 33 - (b + 6), 40 - (b + 6))
      BY <2>2, <3>1 DEF Slice
    <3>3. Emits(b + 6)
      BY <1>14 DEF Emits
    <3>4. Shifted(w, b + 6, out) = [acc |-> w, nbits |-> (b + 6) - 8, out |-> Append(out, Number(s))]
      BY <3>2, <3>3, Zenon DEF Shifted
    <3> QED BY <1>12, <2>6, <2>7, <3>1, <3>4
  <2>9. e \in DecoderState /\ e.acc = w /\ e.nbits = b - 2 /\ e.out = o
    <3>1. b - 2 \in {0, 2, 4, 6}
      BY <2>1
    <3> QED BY <1>8, <2>8, <3>1 DEF DecoderState, Word
  <2>10. 6 * (n + 1) = 8 * (m + 1) + (b - 2)
    BY <1>6, <2>1
  <2>11. \A j \in 1 .. b - 2 : w[33 - j] = BitAt(t, 6 * (n + 1) + 1 - j)
    <3>1. \A j \in 1 .. b - 2 : j \in 1 .. b + 6
      BY <2>1
    <3> QED BY <1>10, <3>1
  <2>12. \A k \in 1 .. m + 1 : o[k] = ByteAt(t, k)
    BY <1>11, <2>4, <2>6
  <2> QED BY <1>2, <2>6, <2>7, <2>9, <2>10, <2>11, <2>12 DEF HasRead
<1> QED BY <1>13, <1>14

Start == [acc |-> [k \in 1 .. 32 |-> 0], nbits |-> 0, out |-> <<>>]

LEMMA StartReads == HasRead(<<>>, Start)
<1>1. PICK a : a = [k \in 1 .. 32 |-> 0]
  OBVIOUS
<1>2. a \in Seq(Bit) /\ Long(a, 32)
  <2>1. PICK n \in Nat : n = 32
    OBVIOUS
  <2>2. [k \in 1 .. n |-> 0] \in Seq(Bit) /\ Len([k \in 1 .. n |-> 0]) = n
    BY DEF Bit
  <2> QED BY <1>1, <2>1, <2>2 DEF Long
<1>3. a \in Word
  BY <1>2 DEF Word
<1>4. PICK d : d = Start
  OBVIOUS
<1>5. d = [acc |-> a, nbits |-> 0, out |-> <<>>]
  BY <1>1, <1>4, Zenon DEF Start
<1>6. d \in DecoderState /\ d.nbits = 0 /\ d.out = <<>>
  BY <1>3, <1>5 DEF DecoderState
<1> QED BY <1>4, <1>6 DEF HasRead

\* The decoder's state after the characters of some text.
Reached == {d \in DecoderState : \E u \in Seq(Symbol) : HasRead(u, d)}

\* Text the decoder does not refuse.
Readable(s) == \A i \in DOMAIN s : s[i] \in Skipped \/ s[i] \in Symbol

\* t is the decoder's state after each turn of its loop.
Decodes(t, s) ==
  /\ DOMAIN t = 0 .. Len(s) /\ t[0] = Start
  /\ \A i \in 1 .. Len(s) : t[i] = IF s[i] \in Skipped THEN t[i - 1] ELSE Shift(t[i - 1], s[i])
  /\ b64_decode_any(s) = t[Len(s)].out

LEMMA Refused ==
  ASSUME NEW s \in Seq(Nat)
  PROVE  (\E i \in DOMAIN s : s[i] \notin Skipped /\ b64_val(s[i]) = None) <=> ~Readable(s)
<1>1. \A i \in DOMAIN s : s[i] \in Nat
  OBVIOUS
<1> QED BY <1>1, Symbols DEF Readable

LEMMA DecodeRun ==
  ASSUME NEW s \in Seq(Nat), Readable(s)
  PROVE  \E t : Decodes(t, s)
<1>1. PICK n \in Nat : n = Len(s)
  OBVIOUS
<1> DEFINE Turn(d, i) == IF s[i] \in Skipped THEN d ELSE Shift(d, s[i])
           step == [x \in Reached \X (1 .. n) |-> Turn(x[1], x[2])]
           Loop(k) == [i \in 0 .. Len(s) |-> IF i = 0 THEN Start ELSE Turn(k[i - 1], i)]
<1>2. \A d \in Reached, i \in 1 .. n : Turn(d, i) \in Reached /\ step[<<d, i>>] = Turn(d, i)
  <2> SUFFICES ASSUME NEW d \in Reached, NEW i \in 1 .. n
               PROVE  Turn(d, i) \in Reached /\ step[<<d, i>>] = Turn(d, i)
    OBVIOUS
  <2>1. ASSUME s[i] \notin Skipped PROVE Shift(d, s[i]) \in Reached
    <3>1. PICK c \in Symbol : c = s[i]
      BY <1>1, <2>1 DEF Readable
    <3>2. PICK u \in Seq(Symbol) : HasRead(u, d)
      BY DEF Reached
    <3>3. PICK e, v : e = Shift(d, c) /\ v = Append(u, c)
      OBVIOUS
    <3>4. HasRead(v, e)
      BY <3>2, <3>3, ShiftReads
    <3>5. v \in Seq(Symbol) /\ e \in DecoderState
      BY <3>3, <3>4 DEF HasRead
    <3> QED BY <3>1, <3>3, <3>4, <3>5 DEF Reached
  <2>2. Turn(d, i) \in Reached
    BY <2>1
  <2> HIDE DEF Turn
  <2> QED BY <2>2
<1>3. IsLoop(step, n, Reached, Start)
  <2>1. Start \in Reached
    <3>1. <<>> \in Seq(Symbol) /\ Start \in DecoderState
      BY StartReads DEF HasRead
    <3> QED BY <3>1, StartReads DEF Reached
  <2>2. step \in [Reached \X (1 .. n) -> Reached]
    <3> HIDE DEF Turn
    <3> QED BY <1>2
  <2> HIDE DEF step
  <2> QED BY <2>1, <2>2 DEF IsLoop
<1>4. PICK f : IsRun(f, step, n, Reached, Start)
  <2> HIDE DEF step
  <2> QED BY <1>3, Iteration
<1>5. /\ DOMAIN f = 0 .. n /\ f = [i \in 0 .. n |-> f[i]] /\ f[0] = Start
      /\ \A i \in 1 .. n : f[i] = Turn(f[i - 1], i)
  <2> HIDE DEF step, Turn
  <2>1. \A i \in 1 .. n : f[i - 1] \in Reached
    BY <1>4 DEF IsRun
  <2> QED BY <1>2, <1>4, <2>1 DEF IsRun
<1>6. f = Loop(f)
  <2> HIDE DEF Turn
  <2>1. ASSUME NEW i \in 0 .. n PROVE f[i] = IF i = 0 THEN Start ELSE Turn(f[i - 1], i)
    <3>1. CASE i = 0
      BY <1>5, <3>1, Zenon
    <3>2. CASE i # 0
      <4>1. i \in 1 .. n
        BY <3>2
      <4> QED BY <1>5, <3>2, <4>1, Zenon
    <3> QED BY <3>1, <3>2
  <2>2. f = [i \in 0 .. n |-> IF i = 0 THEN Start ELSE Turn(f[i - 1], i)]
    BY <1>5, <2>1
  <2> QED BY <1>1, <2>2, Zenon
<1>7. PICK t : t = Loop(t) /\ b64_decode_any(s) = t[Len(s)].out
  <2> DEFINE L == CHOOSE k : k = Loop(k)
  <2>1. L = Loop(L)
    BY <1>6, Zenon
  <2>2. ~ \E i \in DOMAIN s : s[i] \notin Skipped /\ b64_val(s[i]) = None
    BY Refused
  <2>3. b64_decode_any(s) = L[Len(s)].out
    BY <2>2, Zenon DEF b64_decode_any, Start
  <2> HIDE DEF L, Loop
  <2> QED BY <2>1, <2>3
<1>8. DOMAIN t = 0 .. n /\ t[0] = Start /\ \A i \in 1 .. n : t[i] = Turn(t[i - 1], i)
  <2> HIDE DEF Turn
  <2>1. t = [i \in 0 .. n |-> IF i = 0 THEN Start ELSE Turn(t[i - 1], i)]
    BY <1>1, <1>7, Zenon
  <2>2. DOMAIN t = 0 .. n /\ \A i \in 0 .. n : t[i] = IF i = 0 THEN Start ELSE Turn(t[i - 1], i)
    BY <2>1, Zenon
  <2> QED BY <2>2
<1> QED BY <1>1, <1>7, <1>8 DEF Decodes

\* What the decoder holds at the end.
LEMMA DecodedText ==
  ASSUME NEW s \in Seq(Nat), Readable(s)
  PROVE  /\ Without(s, Skipped) \in Seq(Symbol)
         /\ \E d : HasRead(Without(s, Skipped), d) /\ b64_decode_any(s) = d.out
<1>1. PICK n \in Nat : n = Len(s)
  OBVIOUS
<1>2. PICK k : Keeps(k, s, Skipped, Nat)
  BY WithoutRun
<1>3. PICK t : Decodes(t, s)
  BY DecodeRun
<1> DEFINE Good(i) == k[i] \in Seq(Symbol) /\ HasRead(k[i], t[i])
           S == {i \in 0 .. n : Good(i)}
<1>4. Good(0)
  <2>1. k[0] = <<>> /\ t[0] = Start
    BY <1>2, <1>3, Zenon DEF Keeps, Decodes
  <2> QED BY <2>1, StartReads
<1>5. ASSUME NEW i \in 1 .. n, Good(i - 1) PROVE Good(i)
  <2>1. k[i] = IF s[i] \in Skipped THEN k[i - 1] ELSE Append(k[i - 1], s[i])
    BY <1>1, <1>2 DEF Keeps
  <2>2. t[i] = IF s[i] \in Skipped THEN t[i - 1] ELSE Shift(t[i - 1], s[i])
    BY <1>1, <1>3 DEF Decodes
  <2>3. CASE s[i] \in Skipped
    BY <1>5, <2>1, <2>2, <2>3, Zenon
  <2>4. CASE s[i] \notin Skipped
    <3>1. PICK c \in Symbol : c = s[i]
      BY <1>1, <2>4 DEF Readable
    <3>2. PICK d : d = t[i - 1]
      OBVIOUS
    <3>7. PICK u \in Seq(Symbol) : u = k[i - 1] /\ HasRead(u, d)
      BY <1>5, <3>2
    <3>3. PICK v, e : v = Append(u, c) /\ e = Shift(d, c)
      OBVIOUS
    <3>4. HasRead(v, e)
      BY <3>7, <3>3, ShiftReads
    <3>5. v \in Seq(Symbol)
      BY <3>3
    <3>6. k[i] = v /\ t[i] = e
      BY <2>1, <2>2, <2>4, <3>1, <3>2, <3>7, <3>3, Zenon
    <3> QED BY <3>4, <3>5, <3>6
  <2> QED BY <2>3, <2>4
<1>6. Good(n)
  <2> HIDE DEF Good
  <2>1. 0 \in S
    BY <1>4
  <2>2. \A i \in 1 .. n : i - 1 \in S => i \in S
    <3> SUFFICES ASSUME NEW i \in 1 .. n, i - 1 \in S PROVE i \in S
      OBVIOUS
    <3>1. Good(i - 1)
      OBVIOUS
    <3>2. Good(i)
      BY <1>5, <3>1
    <3> QED BY <3>2
  <2>3. \A i \in 0 .. n : i \in S
    <3> HIDE DEF S
    <3> QED BY <2>1, <2>2, UpTo
  <2>4. n \in S
    BY <2>3
  <2> QED BY <2>4
<1>7. Without(s, Skipped) = k[n] /\ b64_decode_any(s) = t[n].out
  BY <1>1, <1>2, <1>3 DEF Keeps, Decodes
<1> QED BY <1>6, <1>7, Zenon

\* An element is left by Without exactly if it was there and is not in D.
In(c, s) == \E i \in DOMAIN s : s[i] = c

LEMMA WithoutIn ==
  ASSUME NEW S, NEW s \in Seq(S), NEW D, NEW c
  PROVE  In(c, Without(s, D)) <=> c \notin D /\ In(c, s)
<1>1. PICK n \in Nat : n = Len(s)
  OBVIOUS
<1> DEFINE P == {u \in Seq(S) : In(c, Without(u, D)) <=> c \notin D /\ In(c, u)}
<1>2. <<>> \in P
  <2>1. Without(<<>>, D) = <<>>
    BY WithoutEmpty
  <2>2. ~In(c, <<>>)
    BY DEF In
  <2> QED BY <2>1, <2>2
<1>3. ASSUME NEW u \in Seq(S), NEW e \in S, u \in P PROVE Append(u, e) \in P
  <2>1. \A w \in Seq(S) : In(c, Append(w, e)) <=> In(c, w) \/ c = e
    <3> SUFFICES ASSUME NEW w \in Seq(S) PROVE In(c, Append(w, e)) <=> In(c, w) \/ c = e
      OBVIOUS
    <3>1. PICK m \in Nat : m = Len(w)
      OBVIOUS
    <3>2. PICK x : x = Append(w, e)
      OBVIOUS
    <3>3. DOMAIN x = 1 .. m + 1 /\ x[m + 1] = e /\ \A i \in 1 .. m : x[i] = w[i]
      BY <3>1, <3>2
    <3>4. DOMAIN w = 1 .. m
      BY <3>1
    <3>5. \A i \in 1 .. m + 1 : i = m + 1 \/ i \in 1 .. m
      OBVIOUS
    <3>6. m + 1 \in 1 .. m + 1 /\ \A i \in 1 .. m : i \in 1 .. m + 1
      OBVIOUS
    <3>7. In(c, x) => In(c, w) \/ c = e
      BY <3>3, <3>4, <3>5, Zenon DEF In
    <3>8. In(c, w) \/ c = e => In(c, x)
      BY <3>3, <3>4, <3>6, Zenon DEF In
    <3> QED BY <3>2, <3>7, <3>8
  <2>2. PICK w \in Seq(S) : w = Without(u, D)
    BY WithoutTyped
  <2>3. Without(Append(u, e), D) = IF e \in D THEN w ELSE Append(w, e)
    BY <2>2, WithoutAppend
  <2>4. In(c, w) <=> c \notin D /\ In(c, u)
    BY <1>3, <2>2
  <2>5. In(c, Append(u, e)) <=> In(c, u) \/ c = e
    BY <2>1
  <2>6. In(c, Append(w, e)) <=> In(c, w) \/ c = e
    BY <2>1
  <2>7. Append(u, e) \in Seq(S)
    OBVIOUS
  <2>8. In(c, Without(Append(u, e), D)) <=> c \notin D /\ In(c, Append(u, e))
    <3>1. CASE e \in D
      BY <2>3, <2>4, <2>5, <3>1, Zenon
    <3>2. CASE e \notin D
      BY <2>3, <2>4, <2>5, <2>6, <3>2, Zenon
    <3> QED BY <3>1, <3>2
  <2> QED BY <2>7, <2>8
<1>4. \A u \in Seq(S) : u \in P
  <2> HIDE DEF P
  <2> QED BY <1>2, <1>3, Growing
<1> QED BY <1>4

AllBits(u) == [k \in 1 .. 6 * Len(u) |-> BitAt(u, k)]

\* The bytes that the concatenated bits make are the ones the decoder has.
LEMMA BytesOf ==
  ASSUME NEW u \in Seq(Symbol), NEW d, HasRead(u, d)
  PROVE  [k \in 1 .. Len(AllBits(u)) \div 8 |-> Number(SubSeq(AllBits(u), 8 * k - 7, 8 * k))] = d.out
<1>1. PICK n \in Nat : n = Len(u)
  OBVIOUS
<1>2. PICK b \in {0, 2, 4, 6}, out \in Seq(Nat) : d.nbits = b /\ d.out = out
  BY DEF HasRead, DecoderState
<1>3. PICK m \in Nat : m = Len(out)
  OBVIOUS
<1>4. 6 * n = 8 * m + b /\ \A k \in 1 .. m : out[k] = ByteAt(u, k)
  BY <1>1, <1>2, <1>3 DEF HasRead
<1>5. PICK bits : bits = AllBits(u)
  OBVIOUS
<1>6. \A k \in 1 .. 6 * n : BitAt(u, k) \in Bit
  <2> SUFFICES ASSUME NEW k \in 1 .. 6 * n PROVE BitAt(u, k) \in Bit
    OBVIOUS
  <2>1. (k + 5) \div 6 \in 1 .. n /\ ((k - 1) % 6) + 1 \in 1 .. 6
    OBVIOUS
  <2>2. PICK v \in Sextet : v = b64_val(u[(k + 5) \div 6])
    BY <1>1, <2>1, Symbols
  <2>3. PICK x \in Seq(Bit) : x = Bits(v) /\ Len(x) = 6
    <3>1. Bits(v) \in Seq(Bit) /\ Long(Bits(v), 6)
      BY BitsTyped
    <3> QED BY <3>1 DEF Long
  <2>4. x[((k - 1) % 6) + 1] \in Bit
    <3>1. PICK j \in 1 .. 6 : j = ((k - 1) % 6) + 1
      BY <2>1
    <3>2. j \in 1 .. Len(x)
      BY <2>3
    <3>3. x[j] \in Bit
      BY <3>2, Element
    <3> QED BY <3>1, <3>3
  <2> QED BY <2>2, <2>3, <2>4, Zenon DEF BitAt
<1>7. bits = [k \in 1 .. 6 * n |-> BitAt(u, k)]
  BY <1>1, <1>5, Zenon DEF AllBits
<1>8. bits \in Seq(Bit) /\ Len(bits) = 6 * n /\ \A k \in 1 .. 6 * n : bits[k] = BitAt(u, k)
  BY <1>6, <1>7
<1>9. Len(bits) \div 8 = m
  BY <1>4, <1>8
<1>10. ASSUME NEW k \in 1 .. m PROVE Number(SubSeq(bits, 8 * k - 7, 8 * k)) = out[k]
  <2>1. PICK f \in Nat, l \in Nat : f = 8 * k - 7 /\ l = 8 * k
    OBVIOUS
  <2>2. 1 <= f /\ l + 1 = f + 8 /\ l <= 6 * n /\ l = f + 7
    BY <1>4, <2>1
  <2>3. PICK x : x = Slice(bits, f, l)
    OBVIOUS
  <2>4. IsSlice(x, bits, f, 8)
    BY <1>8, <2>2, <2>3, SliceOf
  <2>5. ASSUME NEW i \in 1 .. 8 PROVE x[i] = BitAt(u, (8 * k - 8) + i)
    <3>1. f + i - 1 \in 1 .. 6 * n /\ f + i - 1 = (8 * k - 8) + i
      BY <2>1, <2>2
    <3>2. x[i] = bits[f + i - 1]
      BY <2>4 DEF IsSlice
    <3> QED BY <1>8, <3>1, <3>2
  <2>6. /\ x[1] = BitAt(u, 8 * k - 7) /\ x[2] = BitAt(u, 8 * k - 6) /\ x[3] = BitAt(u, 8 * k - 5)
        /\ x[4] = BitAt(u, 8 * k - 4) /\ x[5] = BitAt(u, 8 * k - 3) /\ x[6] = BitAt(u, 8 * k - 2)
        /\ x[7] = BitAt(u, 8 * k - 1) /\ x[8] = BitAt(u, 8 * k)
    <3>1. /\ (8 * k - 8) + 1 = 8 * k - 7 /\ (8 * k - 8) + 2 = 8 * k - 6 /\ (8 * k - 8) + 3 = 8 * k - 5
          /\ (8 * k - 8) + 4 = 8 * k - 4 /\ (8 * k - 8) + 5 = 8 * k - 3 /\ (8 * k - 8) + 6 = 8 * k - 2
          /\ (8 * k - 8) + 7 = 8 * k - 1 /\ (8 * k - 8) + 8 = 8 * k
      OBVIOUS
    <3> QED BY <2>5, <3>1
  <2>7. Number(x) = ByteAt(u, k)
    BY <2>6 DEF Number, ByteAt
  <2>8. x = SubSeq(bits, 8 * k - 7, 8 * k)
    BY <2>1, <2>3 DEF Slice
  <2> QED BY <1>4, <2>7, <2>8
<1>11. [k \in 1 .. m |-> Number(SubSeq(bits, 8 * k - 7, 8 * k))] = [k \in 1 .. m |-> out[k]]
  BY <1>10, Zenon
<1>12. [k \in 1 .. m |-> out[k]] = out
  BY <1>3
<1>13. [k \in 1 .. Len(bits) \div 8 |-> Number(SubSeq(bits, 8 * k - 7, 8 * k))] = out
  BY <1>9, <1>11, <1>12, Zenon
<1> QED BY <1>2, <1>5, <1>13, Zenon

-----------------------------------------------------------------------------
(* The base64 encoders *)

\* A character's six bits, and the numbers its ends are.
LEMMA SixBits ==
  ASSUME NEW v \in Sextet
  PROVE  /\ 8 * Bits(v)[1] + 4 * Bits(v)[2] + 2 * Bits(v)[3] + Bits(v)[4] = v \div 4
         /\ 2 * Bits(v)[1] + Bits(v)[2] = v \div 16
         /\ 2 * Bits(v)[5] + Bits(v)[6] = v % 4
         /\ 8 * Bits(v)[3] + 4 * Bits(v)[4] + 2 * Bits(v)[5] + Bits(v)[6] = v % 16
         /\ \A i \in 1 .. 6 : Bits(v)[i] \in Nat
<1> PICK b1 \in Nat, b2 \in Nat, b3 \in Nat, b4 \in Nat, b5 \in Nat, b6 \in Nat :
      /\ b1 = v \div 32 /\ b2 = (v \div 16) % 2 /\ b3 = (v \div 8) % 2
      /\ b4 = (v \div 4) % 2 /\ b5 = (v \div 2) % 2 /\ b6 = v % 2
  BY DEF Sextet
<1>1. Bits(v) = <<b1, b2, b3, b4, b5, b6>>
  BY DEF Bits
<1>2. 8 * b1 + 4 * b2 + 2 * b3 + b4 = v \div 4 /\ 2 * b1 + b2 = v \div 16
      /\ 2 * b5 + b6 = v % 4 /\ 8 * b3 + 4 * b4 + 2 * b5 + b6 = v % 16
  BY DEF Sextet
<1> QED BY <1>1, <1>2

\* Character c of u stands for v, bit by bit.
Carries(u, c, v) == \A j \in 1 .. 6 : BitAt(u, 6 * (c - 1) + j) = Bits(v)[j]

LEMMA CharacterCarries ==
  ASSUME NEW u, NEW c \in Nat, 1 <= c, NEW v, b64_val(u[c]) = v
  PROVE  Carries(u, c, v)
<1>1. ASSUME NEW j \in 1 .. 6 PROVE BitAt(u, 6 * (c - 1) + j) = Bits(v)[j]
  <2>1. (6 * (c - 1) + j + 5) \div 6 = c /\ ((6 * (c - 1) + j - 1) % 6) + 1 = j
    OBVIOUS
  <2> QED BY <2>1 DEF BitAt
<1> QED BY <1>1 DEF Carries

\* The eight bits of byte k, and the byte they make.
EightBits(u, k, x1, x2, x3, x4, x5, x6, x7, x8) ==
  /\ BitAt(u, 8 * k - 7) = x1 /\ BitAt(u, 8 * k - 6) = x2 /\ BitAt(u, 8 * k - 5) = x3
  /\ BitAt(u, 8 * k - 4) = x4 /\ BitAt(u, 8 * k - 3) = x5 /\ BitAt(u, 8 * k - 2) = x6
  /\ BitAt(u, 8 * k - 1) = x7 /\ BitAt(u, 8 * k) = x8

Weighed(x1, x2, x3, x4, x5, x6, x7, x8) ==
  128 * x1 + 64 * x2 + 32 * x3 + 16 * x4 + 8 * x5 + 4 * x6 + 2 * x7 + x8

LEMMA ByteOfBits ==
  ASSUME NEW u, NEW k, NEW x1, NEW x2, NEW x3, NEW x4, NEW x5, NEW x6, NEW x7, NEW x8,
         EightBits(u, k, x1, x2, x3, x4, x5, x6, x7, x8)
  PROVE  ByteAt(u, k) = Weighed(x1, x2, x3, x4, x5, x6, x7, x8)
BY Zenon DEF ByteAt, EightBits, Weighed

\* The three bytes that four characters carry.
LEMMA FirstByte ==
  ASSUME NEW u, NEW h \in Nat, NEW v \in Sextet, NEW w \in Sextet,
         Carries(u, 4 * h + 1, v), Carries(u, 4 * h + 2, w)
  PROVE  ByteAt(u, 3 * h + 1) = 4 * v + (w \div 16)
<1>1. PICK v1 \in Nat, v2 \in Nat, v3 \in Nat, v4 \in Nat, v5 \in Nat, v6 \in Nat, w1 \in Nat, w2 \in Nat :
        /\ Bits(v)[1] = v1 /\ Bits(v)[2] = v2 /\ Bits(v)[3] = v3 /\ Bits(v)[4] = v4
        /\ Bits(v)[5] = v5 /\ Bits(v)[6] = v6 /\ Bits(w)[1] = w1 /\ Bits(w)[2] = w2
  <2>1. Bits(v)[1] \in Nat /\ Bits(v)[2] \in Nat /\ Bits(v)[3] \in Nat /\ Bits(v)[4] \in Nat
        /\ Bits(v)[5] \in Nat /\ Bits(v)[6] \in Nat /\ Bits(w)[1] \in Nat /\ Bits(w)[2] \in Nat
    BY SixBits
  <2> QED BY <2>1, Zenon
<1>2. 8 * v1 + 4 * v2 + 2 * v3 + v4 = v \div 4 /\ 2 * v5 + v6 = v % 4 /\ 2 * w1 + w2 = w \div 16
  BY <1>1, SixBits
<1>3. PICK k \in Nat : k = 3 * h + 1
  OBVIOUS
<1>4. EightBits(u, k, v1, v2, v3, v4, v5, v6, w1, w2)
  <2>1. /\ 8 * k - 7 = 24 * h + 1 /\ 8 * k - 6 = 24 * h + 2 /\ 8 * k - 5 = 24 * h + 3 /\ 8 * k - 4 = 24 * h + 4
        /\ 8 * k - 3 = 24 * h + 5 /\ 8 * k - 2 = 24 * h + 6 /\ 8 * k - 1 = 24 * h + 7 /\ 8 * k = 24 * h + 8
    BY <1>3
  <2> QED BY <1>1, <2>1 DEF Carries, EightBits
<1>5. ByteAt(u, k) = Weighed(v1, v2, v3, v4, v5, v6, w1, w2)
  BY <1>4, ByteOfBits
<1>6. Weighed(v1, v2, v3, v4, v5, v6, w1, w2) = 4 * v + (w \div 16)
  BY <1>2 DEF Sextet, Weighed
<1> QED BY <1>3, <1>5, <1>6

LEMMA SecondByte ==
  ASSUME NEW u, NEW h \in Nat, NEW v \in Sextet, NEW w \in Sextet,
         Carries(u, 4 * h + 2, v), Carries(u, 4 * h + 3, w)
  PROVE  ByteAt(u, 3 * h + 2) = 16 * (v % 16) + (w \div 4)
<1>1. PICK v3 \in Nat, v4 \in Nat, v5 \in Nat, v6 \in Nat, w1 \in Nat, w2 \in Nat, w3 \in Nat, w4 \in Nat :
        /\ Bits(v)[3] = v3 /\ Bits(v)[4] = v4 /\ Bits(v)[5] = v5 /\ Bits(v)[6] = v6
        /\ Bits(w)[1] = w1 /\ Bits(w)[2] = w2 /\ Bits(w)[3] = w3 /\ Bits(w)[4] = w4
  <2>1. Bits(v)[3] \in Nat /\ Bits(v)[4] \in Nat /\ Bits(v)[5] \in Nat /\ Bits(v)[6] \in Nat
        /\ Bits(w)[1] \in Nat /\ Bits(w)[2] \in Nat /\ Bits(w)[3] \in Nat /\ Bits(w)[4] \in Nat
    BY SixBits
  <2> QED BY <2>1, Zenon
<1>2. 8 * v3 + 4 * v4 + 2 * v5 + v6 = v % 16 /\ 8 * w1 + 4 * w2 + 2 * w3 + w4 = w \div 4
  BY <1>1, SixBits
<1>3. PICK k \in Nat : k = 3 * h + 2
  OBVIOUS
<1>4. EightBits(u, k, v3, v4, v5, v6, w1, w2, w3, w4)
  <2>1. /\ 8 * k - 7 = 24 * h + 9 /\ 8 * k - 6 = 24 * h + 10 /\ 8 * k - 5 = 24 * h + 11 /\ 8 * k - 4 = 24 * h + 12
        /\ 8 * k - 3 = 24 * h + 13 /\ 8 * k - 2 = 24 * h + 14 /\ 8 * k - 1 = 24 * h + 15 /\ 8 * k = 24 * h + 16
    BY <1>3
  <2> QED BY <1>1, <2>1 DEF Carries, EightBits
<1>5. ByteAt(u, k) = Weighed(v3, v4, v5, v6, w1, w2, w3, w4)
  BY <1>4, ByteOfBits
<1>6. Weighed(v3, v4, v5, v6, w1, w2, w3, w4) = 16 * (v % 16) + (w \div 4)
  BY <1>2 DEF Sextet, Weighed
<1> QED BY <1>3, <1>5, <1>6

LEMMA ThirdByte ==
  ASSUME NEW u, NEW h \in Nat, NEW v \in Sextet, NEW w \in Sextet,
         Carries(u, 4 * h + 3, v), Carries(u, 4 * h + 4, w)
  PROVE  ByteAt(u, 3 * h + 3) = 64 * (v % 4) + w
<1>1. PICK v5 \in Nat, v6 \in Nat, w1 \in Nat, w2 \in Nat, w3 \in Nat, w4 \in Nat, w5 \in Nat, w6 \in Nat :
        /\ Bits(v)[5] = v5 /\ Bits(v)[6] = v6 /\ Bits(w)[1] = w1 /\ Bits(w)[2] = w2
        /\ Bits(w)[3] = w3 /\ Bits(w)[4] = w4 /\ Bits(w)[5] = w5 /\ Bits(w)[6] = w6
  <2>1. Bits(v)[5] \in Nat /\ Bits(v)[6] \in Nat /\ Bits(w)[1] \in Nat /\ Bits(w)[2] \in Nat
        /\ Bits(w)[3] \in Nat /\ Bits(w)[4] \in Nat /\ Bits(w)[5] \in Nat /\ Bits(w)[6] \in Nat
    BY SixBits
  <2> QED BY <2>1, Zenon
<1>2. 2 * v5 + v6 = v % 4 /\ 8 * w1 + 4 * w2 + 2 * w3 + w4 = w \div 4 /\ 2 * w5 + w6 = w % 4
  BY <1>1, SixBits
<1>3. PICK k \in Nat : k = 3 * h + 3
  OBVIOUS
<1>4. EightBits(u, k, v5, v6, w1, w2, w3, w4, w5, w6)
  <2>1. /\ 8 * k - 7 = 24 * h + 17 /\ 8 * k - 6 = 24 * h + 18 /\ 8 * k - 5 = 24 * h + 19 /\ 8 * k - 4 = 24 * h + 20
        /\ 8 * k - 3 = 24 * h + 21 /\ 8 * k - 2 = 24 * h + 22 /\ 8 * k - 1 = 24 * h + 23 /\ 8 * k = 24 * h + 24
    BY <1>3
  <2> QED BY <1>1, <2>1 DEF Carries, EightBits
<1>5. ByteAt(u, k) = Weighed(v5, v6, w1, w2, w3, w4, w5, w6)
  BY <1>4, ByteOfBits
<1>6. Weighed(v5, v6, w1, w2, w3, w4, w5, w6) = 64 * (v % 4) + w
  BY <1>2 DEF Sextet, Weighed
<1> QED BY <1>3, <1>5, <1>6

\* The byte at place i of a group, or the zero that fills it up.
Filled(c, i) == IF i <= Len(c) THEN c[i] ELSE 0

\* The four characters of a group hold its three bytes.
Spells(x, a, b, c) ==
  \E p1 \in Sextet, p2 \in Sextet, p3 \in Sextet, p4 \in Sextet :
    /\ x = <<p1, p2, p3, p4>>
    /\ 4 * p1 + (p2 \div 16) = a /\ 16 * (p2 % 16) + (p3 \div 4) = b /\ 64 * (p3 % 4) + p4 = c

LEMMA GroupSpelled ==
  ASSUME NEW c \in Seq(Byte)
  PROVE  Spells(Sextets(c), Filled(c, 1), Filled(c, 2), Filled(c, 3))
<1>1. \A i \in Nat : 1 <= i => Filled(c, i) \in Byte
  BY DEF Filled, Byte
<1>2. PICK a \in Byte, b \in Byte, e \in Byte : Filled(c, 1) = a /\ Filled(c, 2) = b /\ Filled(c, 3) = e
  BY <1>1
<1>3. PICK n \in Nat : n = 65536 * a + 256 * b + e
  BY SMT DEF Byte
<1>4. Sextets(c) = <<n \div 262144, (n \div 4096) % 64, (n \div 64) % 64, n % 64>>
  <2> DEFINE f == [j \in 1 .. 3 |-> IF j <= Len(c) THEN c[j] ELSE 0]
             w == 65536 * f[1] + 256 * f[2] + f[3]
  <2>1. f[1] = a /\ f[2] = b /\ f[3] = e
    BY <1>2, SMT DEF Filled
  <2>2. Sextets(c) = <<w \div 262144, (w \div 4096) % 64, (w \div 64) % 64, w % 64>>
    BY SMT DEF Sextets
  <2> HIDE DEF f
  <2>3. w = n
    BY <1>3, <2>1, SMT
  <2> HIDE DEF w
  <2> QED BY <2>2, <2>3, SMT
<1>5. PICK p1 \in Nat, p2 \in Nat, p3 \in Nat, p4 \in Nat :
        p1 = n \div 262144 /\ p2 = (n \div 4096) % 64 /\ p3 = (n \div 64) % 64 /\ p4 = n % 64
  BY SMT
<1>6. p1 = a \div 4 /\ p2 = 16 * (a % 4) + (b \div 16) /\ p3 = 4 * (b % 16) + (e \div 64) /\ p4 = e % 64
  BY <1>3, <1>5, SMT DEF Byte
<1>7. p1 \in Sextet /\ p2 \in Sextet /\ p3 \in Sextet /\ p4 \in Sextet
  BY <1>6, SMT DEF Byte, Sextet
<1>8. 4 * p1 + (p2 \div 16) = a /\ 16 * (p2 % 16) + (p3 \div 4) = b /\ 64 * (p3 % 4) + p4 = e
  BY <1>6, SMT DEF Byte
<1>9. Sextets(c) = <<p1, p2, p3, p4>>
  BY <1>4, <1>5, SMT
<1> QED BY <1>2, <1>7, <1>8, <1>9, SMT DEF Spells

\* Group h + 1 is the bytes after the first 3 * h, three of them or what is left.
LEMMA ChunkIs ==
  ASSUME NEW b \in Seq(Byte), NEW h \in Nat, 3 * h < Len(b)
  PROVE  /\ h + 1 \in DOMAIN Chunks(b) /\ Chunks(b)[h + 1] \in Seq(Byte)
         /\ Len(Chunks(b)[h + 1]) = IF 3 * h + 3 <= Len(b) THEN 3 ELSE Len(b) - 3 * h
         /\ \A i \in 1 .. Len(Chunks(b)[h + 1]) : Chunks(b)[h + 1][i] = b[3 * h + i]
<1>1. PICK n \in Nat : n = Len(b)
  OBVIOUS
<1>2. PICK m \in Nat : /\ (3 * h + 3 <= n => m = 3) /\ (~(3 * h + 3 <= n) => m = n - 3 * h)
                       /\ 1 <= m /\ m <= 3 /\ 3 * h + m <= n
  <2>1. CASE 3 * h + 3 <= n
    <3>1. 3 \in Nat /\ 3 * h + 3 <= n
      BY <2>1
    <3> QED BY <2>1, <3>1
  <2>2. CASE ~(3 * h + 3 <= n)
    <3>1. n - 3 * h \in Nat /\ 1 <= n - 3 * h /\ n - 3 * h <= 3 /\ 3 * h + (n - 3 * h) <= n
      BY <1>1, <2>2
    <3> QED BY <2>2, <3>1
  <2> QED BY <2>1, <2>2
<1>3. Min({3 * (h + 1), n}) = 3 * h + m
  <2>1. {3 * (h + 1), n} \in SUBSET Int /\ 3 * h + m \in {3 * (h + 1), n}
    BY <1>1, <1>2
  <2>2. \A k \in {3 * (h + 1), n} : 3 * h + m <= k
    BY <1>1, <1>2
  <2> QED BY <2>1, <2>2, MinIs
<1>4. h + 1 \in 1 .. (n + 2) \div 3
  BY <1>1
<1>5. DOMAIN Chunks(b) = 1 .. (n + 2) \div 3
  BY <1>1, Zenon DEF Chunks
<1>6. Chunks(b)[h + 1] = SubSeq(b, 3 * (h + 1) - 2, Min({3 * (h + 1), n}))
  BY <1>1, <1>4, Zenon DEF Chunks
<1>7. PICK f \in Nat, l \in Nat : f = 3 * (h + 1) - 2 /\ l = 3 * h + m
  OBVIOUS
<1>8. PICK c : c = Slice(b, f, l)
  OBVIOUS
<1>9. Chunks(b)[h + 1] = c
  BY <1>3, <1>6, <1>7, <1>8 DEF Slice
<1>10. c \in Seq(Byte) /\ IsSlice(c, b, f, m)
  <2>1. 1 <= f /\ l + 1 = f + m /\ l <= Len(b)
    BY <1>1, <1>2, <1>7
  <2> QED BY <1>8, <2>1, SliceOf
<1>11. \A i \in 1 .. m : f + i - 1 = 3 * h + i
  BY <1>7
<1>12. Len(c) = m /\ \A i \in 1 .. m : c[i] = b[3 * h + i]
  BY <1>10, <1>11 DEF IsSlice
<1>13. m = IF 3 * h + 3 <= n THEN 3 ELSE n - 3 * h
  BY <1>2
<1> QED BY <1>1, <1>4, <1>5, <1>9, <1>10, <1>12, <1>13

\* k is what the loop over the groups has pushed after each of its turns.
Collects(k, g, S) ==
  /\ k \in [0 .. Len(g) -> Seq(S)]
  /\ k[0] = <<>>
  /\ \A i \in 1 .. Len(g) : k[i] = Join(k[i - 1], g[i])
  /\ Pushed(g) = k[Len(g)]

\* The loop has a run.
LEMMA PushedRun ==
  ASSUME NEW S, NEW g \in Seq(Seq(S))
  PROVE  \E k : Collects(k, g, S)
<1> DEFINE Turn(t, i) == Join(t, g[i])
           Loop(k) == [i \in 0 .. Len(g) |-> IF i = 0 THEN <<>> ELSE Turn(k[i - 1], i)]
<1>1. PICK n \in Nat : n = Len(g)
  OBVIOUS
<1> DEFINE step == [x \in Seq(S) \X (1 .. n) |-> Turn(x[1], x[2])]
<1>2. \A t \in Seq(S), i \in 1 .. n : Turn(t, i) \in Seq(S) /\ step[<<t, i>>] = Turn(t, i)
  <2>1. \A i \in 1 .. n : g[i] \in Seq(S)
    BY <1>1
  <2>2. \A t \in Seq(S), c \in Seq(S) : Join(t, c) \in Seq(S)
    BY DEF Join
  <2> QED BY <2>1, <2>2
<1>3. step \in [Seq(S) \X (1 .. n) -> Seq(S)]
  BY <1>2
<1>4. <<>> \in Seq(S)
  OBVIOUS
<1>5. PICK f : f \in [0 .. n -> Seq(S)] /\ f[0] = <<>> /\ \A i \in 1 .. n : f[i] = step[<<f[i - 1], i>>]
  <2>1. IsLoop(step, n, Seq(S), <<>>)
    BY <1>3, <1>4 DEF IsLoop
  <2> HIDE DEF step
  <2>2. PICK f : IsRun(f, step, n, Seq(S), <<>>)
    BY <2>1, Iteration
  <2> QED BY <2>2 DEF IsRun
<1>6. \A i \in 1 .. n : f[i - 1] \in Seq(S) /\ f[i] = Turn(f[i - 1], i)
  <2>1. \A i \in 1 .. n : f[i - 1] \in Seq(S)
    BY <1>5
  <2> HIDE DEF step, Turn
  <2> QED BY <1>2, <1>5, <2>1
<1>7. f = Loop(f)
  <2> HIDE DEF Turn
  <2>1. \A i \in 0 .. n : f[i] = IF i = 0 THEN <<>> ELSE Turn(f[i - 1], i)
    BY <1>5, <1>6
  <2>2. f = [i \in 0 .. n |-> f[i]]
    BY <1>5
  <2> QED BY <1>1, <2>1, <2>2, Zenon
<1>8. PICK k : k = Loop(k) /\ Pushed(g) = k[Len(g)]
  <2> DEFINE K == CHOOSE k : k = Loop(k)
  <2>1. K = Loop(K)
    BY <1>7, Zenon
  <2>2. Pushed(g) = K[Len(g)]
    BY DEF Pushed, Join
  <2> HIDE DEF K, Loop
  <2> QED BY <2>1, <2>2
<1>9. DOMAIN k = 0 .. n /\ k[0] = <<>> /\ \A i \in 1 .. n : k[i] = Turn(k[i - 1], i)
  <2> HIDE DEF Turn
  <2>1. k = [i \in 0 .. n |-> IF i = 0 THEN <<>> ELSE Turn(k[i - 1], i)]
    BY <1>1, <1>8, Zenon
  <2>2. DOMAIN k = 0 .. n
    BY <2>1, Zenon
  <2>3. \A i \in 0 .. n : k[i] = IF i = 0 THEN <<>> ELSE Turn(k[i - 1], i)
    BY <2>1, Zenon
  <2>4. 0 \in 0 .. n /\ \A i \in 1 .. n : i \in 0 .. n /\ i # 0
    OBVIOUS
  <2> QED BY <2>2, <2>3, <2>4, Zenon
<1>10. \A i \in 0 .. n : k[i] = f[i]
  <2>1. \A i \in 1 .. n : k[i - 1] = f[i - 1] => k[i] = f[i]
    <3> HIDE DEF Turn
    <3> QED BY <1>6, <1>9
  <2> DEFINE Same == {i \in 0 .. n : k[i] = f[i]}
  <2>2. 0 \in Same /\ \A i \in 1 .. n : i - 1 \in Same => i \in Same
    BY <1>5, <1>9, <2>1
  <2> HIDE DEF Same
  <2>3. \A i \in 0 .. n : i \in Same
    BY <2>2, UpTo
  <2> QED BY <2>3 DEF Same
<1>11. k \in [0 .. n -> Seq(S)]
  <2>1. k = [i \in 0 .. n |-> k[i]]
    BY <1>1, <1>8
  <2>2. \A i \in 0 .. n : k[i] \in Seq(S)
    BY <1>5, <1>10
  <2> QED BY <2>1, <2>2
<1> QED BY <1>1, <1>8, <1>9, <1>11 DEF Collects

\* t is the first h groups in a row, each at its place and four long, but
\* that the last may be shorter.
Laid(t, g, h) ==
  /\ Len(t) = IF h = 0 THEN 0 ELSE 4 * (h - 1) + Len(g[h])
  /\ \A q \in Nat, i \in Nat :
       q < h /\ 1 <= i /\ i <= Len(g[q + 1]) => t[4 * q + i] = g[q + 1][i]

Fours(g, h) == \A q \in Nat : q < h => Len(g[q + 1]) = 4

LEMMA LaidNext ==
  ASSUME NEW S, NEW t \in Seq(S), NEW c \in Seq(S), NEW g, NEW h \in Nat,
         Laid(t, g, h), Fours(g, h), g[h + 1] = c
  PROVE  Laid(Join(t, c), g, h + 1)
<1>1. PICK m \in Nat : m = Len(c)
  OBVIOUS
<1>2. Len(t) = 4 * h
  <2>1. CASE h = 0
    BY <2>1 DEF Laid
  <2>2. CASE h # 0
    <3>1. PICK q \in Nat : q = h - 1
      BY <2>2
    <3>2. Len(g[h]) = 4
      BY <3>1 DEF Fours
    <3> QED BY <2>2, <3>2 DEF Laid
  <2> QED BY <2>1, <2>2
<1>3. PICK w : w = Join(t, c)
  OBVIOUS
<1>4. /\ Len(w) = 4 * h + m
      /\ \A i \in Nat : 1 <= i /\ i <= 4 * h => w[i] = t[i]
      /\ \A i \in Nat : 1 <= i /\ i <= m => w[4 * h + i] = c[i]
  <2>1. /\ Len(w) = Len(t) + m
        /\ \A i \in 1 .. Len(t) : w[i] = t[i]
        /\ \A i \in 1 .. m : w[Len(t) + i] = c[i]
    BY <1>1, <1>3 DEF Join
  <2>2. ASSUME NEW i \in Nat, 1 <= i, i <= 4 * h PROVE w[i] = t[i]
    BY <1>2, <2>1, <2>2
  <2>3. ASSUME NEW i \in Nat, 1 <= i, i <= m PROVE w[4 * h + i] = c[i]
    <3>1. w[Len(t) + i] = c[i]
      BY <2>1, <2>3
    <3> QED BY <1>2, <3>1
  <2>4. Len(w) = 4 * h + m
    BY <1>2, <2>1
  <2> QED BY <2>2, <2>3, <2>4
<1>5. ASSUME NEW q \in Nat, NEW i \in Nat, q < h + 1, 1 <= i, i <= Len(g[q + 1])
      PROVE  w[4 * q + i] = g[q + 1][i]
  <2>1. CASE q = h
    BY <1>1, <1>4, <1>5, <2>1
  <2>2. CASE q # h
    <3>1. q < h
      BY <1>5, <2>2
    <3>2. t[4 * q + i] = g[q + 1][i]
      BY <1>5, <3>1 DEF Laid
    <3>3. i <= 4
      BY <1>5, <3>1 DEF Fours
    <3>4. PICK p \in Nat : p = 4 * q + i /\ 1 <= p /\ p <= 4 * h
      BY <1>5, <3>1, <3>3
    <3> QED BY <1>4, <3>2, <3>4
  <2> QED BY <2>1, <2>2
<1>6. Len(w) = 4 * ((h + 1) - 1) + Len(g[h + 1]) /\ h + 1 # 0
  BY <1>1, <1>4
<1> QED BY <1>3, <1>5, <1>6 DEF Laid

\* The loop lays the groups it pushes in a row.
LEMMA PushedLaid ==
  ASSUME NEW S, NEW g \in Seq(Seq(S)), NEW n \in Nat, n = Len(g), Fours(g, n - 1)
  PROVE  Pushed(g) \in Seq(S) /\ Laid(Pushed(g), g, n)
<1>1. PICK k : Collects(k, g, S)
  BY PushedRun
<1>2. /\ k \in [0 .. n -> Seq(S)] /\ k[0] = <<>>
      /\ \A i \in 1 .. n : k[i] = Join(k[i - 1], g[i])
      /\ Pushed(g) = k[n]
  BY <1>1 DEF Collects
<1> DEFINE P == {i \in 0 .. n : Laid(k[i], g, i)}
<1>3. 0 \in P
  <2>1. Laid(<<>>, g, 0)
    BY DEF Laid
  <2> QED BY <1>2, <2>1
<1>4. ASSUME NEW i \in 1 .. n, i - 1 \in P PROVE i \in P
  <2>1. PICK h \in Nat : h = i - 1 /\ h + 1 = i /\ h <= n - 1
    OBVIOUS
  <2>2. Fours(g, h)
    <3> SUFFICES ASSUME NEW q \in Nat, q < h PROVE Len(g[q + 1]) = 4
      BY DEF Fours
    <3>1. q < n - 1
      BY <2>1
    <3> QED BY <3>1 DEF Fours
  <2>3. PICK t \in Seq(S), c \in Seq(S) : t = k[h] /\ c = g[h + 1]
    <3>1. h \in 0 .. n /\ h + 1 \in 1 .. Len(g)
      BY <2>1
    <3>2. k[h] \in Seq(S)
      BY <1>2, <3>1
    <3>3. g[h + 1] \in Seq(S)
      BY <3>1
    <3> QED BY <3>2, <3>3
  <2>4. Laid(t, g, h)
    BY <1>4, <2>1, <2>3
  <2>5. Laid(Join(t, c), g, h + 1)
    BY <2>2, <2>3, <2>4, LaidNext
  <2>6. k[i] = Join(t, c)
    BY <1>2, <2>1, <2>3
  <2> QED BY <2>1, <2>5, <2>6
<1>5. \A i \in 0 .. n : i \in P
  <2> HIDE DEF P
  <2> QED BY <1>3, <1>4, UpTo
<1>6. n \in P /\ k[n] \in Seq(S)
  BY <1>2, <1>5
<1> QED BY <1>2, <1>6

\* The text u spells the bytes b: it is as long as it takes, and its
\* characters are those of the groups.
Spelled(u, b) ==
  /\ u \in Seq(Symbol)
  /\ 3 * Len(u) <= 4 * Len(b) + 2 /\ 4 * Len(b) + 2 < 3 * Len(u) + 3
  /\ \A q \in Nat, i \in Nat :
       1 <= i /\ i <= 4 /\ 4 * q + i <= Len(u) => b64_val(u[4 * q + i]) = Sextets(Chunks(b)[q + 1])[i]

LEMMA SpelledByte ==
  ASSUME NEW b \in Seq(Byte), NEW u, Spelled(u, b), NEW k \in Nat, 1 <= k, k <= Len(b)
  PROVE  ByteAt(u, k) = b[k]
<1>1. PICK n \in Nat, l \in Nat : n = Len(b) /\ l = Len(u) /\ 4 * n + 2 < 3 * l + 3
  BY DEF Spelled
<1>2. PICK h \in Nat : 3 * h + 1 <= k /\ k <= 3 * h + 3
  <2>1. (k - 1) \div 3 \in Nat /\ 3 * ((k - 1) \div 3) + 1 <= k /\ k <= 3 * ((k - 1) \div 3) + 3
    OBVIOUS
  <2> QED BY <2>1
<1>3. PICK c \in Seq(Byte) : /\ c = Chunks(b)[h + 1]
                             /\ Len(c) = IF 3 * h + 3 <= n THEN 3 ELSE n - 3 * h
                             /\ \A i \in 1 .. Len(c) : c[i] = b[3 * h + i]
  <2>1. 3 * h < Len(b)
    BY <1>2
  <2> QED BY <1>1, <2>1, ChunkIs
<1>4. PICK p1 \in Sextet, p2 \in Sextet, p3 \in Sextet, p4 \in Sextet :
        /\ Sextets(c) = <<p1, p2, p3, p4>>
        /\ 4 * p1 + (p2 \div 16) = Filled(c, 1) /\ 16 * (p2 % 16) + (p3 \div 4) = Filled(c, 2)
        /\ 64 * (p3 % 4) + p4 = Filled(c, 3)
  BY GroupSpelled, Zenon DEF Spells
<1>5. /\ Sextets(c)[1] = p1 /\ Sextets(c)[2] = p2 /\ Sextets(c)[3] = p3 /\ Sextets(c)[4] = p4
  BY <1>4
<1>6. ASSUME NEW i \in Nat, 1 <= i, i <= 4, 4 * h + i <= l PROVE Carries(u, 4 * h + i, Sextets(c)[i])
  <2>1. b64_val(u[4 * h + i]) = Sextets(c)[i]
    <3>1. 4 * h + i <= Len(u)
      BY <1>1, <1>6
    <3>2. b64_val(u[4 * h + i]) = Sextets(Chunks(b)[h + 1])[i]
      BY <1>6, <3>1 DEF Spelled
    <3> QED BY <1>3, <3>2
  <2>2. PICK p \in Nat : p = 4 * h + i /\ 1 <= p
    BY <1>6
  <2> QED BY <2>1, <2>2, CharacterCarries
<1>7. k <= n /\ k - 3 * h <= Len(c)
  <2>1. k <= n
    BY <1>1
  <2>2. CASE 3 * h + 3 <= n
    BY <1>2, <1>3, <2>1, <2>2
  <2>3. CASE ~(3 * h + 3 <= n)
    BY <1>3, <2>1, <2>3
  <2> QED BY <2>1, <2>2, <2>3
<1>8. CASE k = 3 * h + 1
  <2>1. 4 * h + 1 <= l /\ 4 * h + 2 <= l /\ 1 <= Len(c)
    BY <1>1, <1>7, <1>8
  <2>2. Carries(u, 4 * h + 1, p1) /\ Carries(u, 4 * h + 2, p2)
    BY <1>5, <1>6, <2>1
  <2>3. ByteAt(u, k) = Filled(c, 1)
    BY <1>4, <1>8, <2>2, FirstByte
  <2>4. Filled(c, 1) = c[1]
    BY <2>1 DEF Filled
  <2>5. c[1] = b[3 * h + 1]
    BY <1>3, <2>1
  <2> QED BY <1>8, <2>3, <2>4, <2>5
<1>9. CASE k = 3 * h + 2
  <2>1. 4 * h + 2 <= l /\ 4 * h + 3 <= l /\ 2 <= Len(c)
    BY <1>1, <1>7, <1>9
  <2>2. Carries(u, 4 * h + 2, p2) /\ Carries(u, 4 * h + 3, p3)
    BY <1>5, <1>6, <2>1
  <2>3. ByteAt(u, k) = Filled(c, 2)
    BY <1>4, <1>9, <2>2, SecondByte
  <2>4. Filled(c, 2) = c[2]
    BY <2>1 DEF Filled
  <2>5. c[2] = b[3 * h + 2]
    BY <1>3, <2>1
  <2> QED BY <1>9, <2>3, <2>4, <2>5
<1>10. CASE k = 3 * h + 3
  <2>1. 4 * h + 3 <= l /\ 4 * h + 4 <= l /\ 3 <= Len(c)
    BY <1>1, <1>7, <1>10
  <2>2. Carries(u, 4 * h + 3, p3) /\ Carries(u, 4 * h + 4, p4)
    BY <1>5, <1>6, <2>1
  <2>3. ByteAt(u, k) = Filled(c, 3)
    BY <1>4, <1>10, <2>2, ThirdByte
  <2>4. Filled(c, 3) = c[3]
    BY <2>1 DEF Filled
  <2>5. c[3] = b[3 * h + 3]
    BY <1>3, <2>1
  <2> QED BY <1>10, <2>3, <2>4, <2>5
<1> QED BY <1>2, <1>8, <1>9, <1>10

\* What spells the bytes is read as them.
LEMMA SpelledReads ==
  ASSUME NEW b \in Seq(Byte), NEW s \in Seq(Nat), Readable(s), NEW u, u = Without(s, Skipped), Spelled(u, b)
  PROVE  b64_decode_any(s) = b
<1>1. PICK d : HasRead(u, d) /\ b64_decode_any(s) = d.out
  BY DecodedText
<1>2. PICK o : o = d.out
  OBVIOUS
<1>3. o \in Seq(Nat) /\ d.nbits \in Nat /\ d.nbits < 8
  BY <1>1, <1>2 DEF HasRead, DecoderState
<1>4. PICK n \in Nat, l \in Nat, m \in Nat, e \in Nat : n = Len(b) /\ l = Len(u) /\ m = Len(o) /\ e = d.nbits
  BY <1>3 DEF Spelled
<1>5. 3 * l <= 4 * n + 2 /\ 4 * n + 2 < 3 * l + 3 /\ 6 * l = 8 * m + e /\ e < 8
  BY <1>1, <1>2, <1>3, <1>4 DEF Spelled, HasRead
<1>6. m = n
  BY <1>5
<1>7. \A k \in 1 .. n : o[k] = b[k]
  <2>1. \A k \in 1 .. n : o[k] = ByteAt(u, k)
    BY <1>1, <1>2, <1>4, <1>6 DEF HasRead
  <2> QED BY <1>4, <2>1, SpelledByte
<1>8. o = b
  <2>1. b \in Seq(Nat)
    <3>1. Byte \in SUBSET Nat
      BY DEF Byte
    <3> QED BY <3>1, SeqWidens
  <2>2. Len(o) = Len(b) /\ \A k \in 1 .. Len(o) : o[k] = b[k]
    BY <1>4, <1>6, <1>7
  <2>3. o \in Seq(Nat)
    BY <1>3
  <2> QED BY <2>1, <2>2, <2>3, SameSequence
<1> QED BY <1>1, <1>2, <1>8

\* How many groups there are.
LEMMA ChunkCount ==
  ASSUME NEW b \in Seq(Byte)
  PROVE  \E N \in Nat : /\ DOMAIN Chunks(b) = 1 .. N
                        /\ Len(b) <= 3 * N /\ (0 < N => 3 * N < Len(b) + 3)
<1>1. PICK n \in Nat : n = Len(b)
  OBVIOUS
<1>2. PICK N \in Nat : N = (n + 2) \div 3 /\ n <= 3 * N /\ 3 * N < n + 3
  <2>1. (n + 2) \div 3 \in Nat /\ n <= 3 * ((n + 2) \div 3) /\ 3 * ((n + 2) \div 3) < n + 3
    OBVIOUS
  <2> QED BY <2>1
<1>3. DOMAIN Chunks(b) = 1 .. N
  BY <1>1, <1>2, Zenon DEF Chunks
<1> QED BY <1>1, <1>2, <1>3

\* A text of l characters has room for the n bytes, and for no more.
Room(l, n) == l \in Nat /\ 3 * l <= 4 * n + 2 /\ 4 * n + 2 < 3 * l + 3

\* Place i of group q + 1 is within that room when the group fills it.
LEMMA PlaceIn ==
  ASSUME NEW b \in Seq(Byte), NEW l, Room(l, Len(b)), NEW q \in Nat, NEW i \in Nat, 1 <= i, i <= 4
  PROVE  /\ 4 * q + i <= l => 3 * q < Len(b) /\ i <= Len(Chunks(b)[q + 1]) + 1
         /\ 3 * q < Len(b) /\ l < 4 * q + i => Len(Chunks(b)[q + 1]) + 1 < i
<1>1. PICK n \in Nat : n = Len(b)
  OBVIOUS
<1>2. l \in Nat /\ 3 * l <= 4 * n + 2 /\ 4 * n + 2 < 3 * l + 3
  BY <1>1 DEF Room
<1>3. 4 * q + i <= l => 3 * q < n
  BY <1>2
<1>4. ASSUME 3 * q < n
      PROVE  \E m \in Nat : /\ m = Len(Chunks(b)[q + 1])
                            /\ (3 * q + 3 <= n => m = 3) /\ (~(3 * q + 3 <= n) => m = n - 3 * q)
  <2>1. Chunks(b)[q + 1] \in Seq(Byte)
        /\ Len(Chunks(b)[q + 1]) = IF 3 * q + 3 <= n THEN 3 ELSE n - 3 * q
    BY <1>1, <1>4, ChunkIs
  <2>2. PICK c \in Seq(Byte) : c = Chunks(b)[q + 1]
    BY <2>1
  <2>3. Len(c) \in Nat
    OBVIOUS
  <2> QED BY <2>1, <2>2, <2>3
<1>5. ASSUME 4 * q + i <= l PROVE i <= Len(Chunks(b)[q + 1]) + 1
  <2>1. PICK m \in Nat : /\ m = Len(Chunks(b)[q + 1])
                         /\ (3 * q + 3 <= n => m = 3) /\ (~(3 * q + 3 <= n) => m = n - 3 * q)
    BY <1>3, <1>4, <1>5
  <2>2. i <= m + 1
    <3>1. CASE 3 * q + 3 <= n
      <4>1. m = 3
        BY <2>1, <3>1
      <4> QED BY <4>1
    <3>2. CASE ~(3 * q + 3 <= n)
      <4>1. 3 * i <= 4 * (n - 3 * q) + 2 /\ n - 3 * q < 3 /\ n - 3 * q \in Int
        BY <1>2, <1>5, <3>2
      <4>2. n = m + 3 * q
        <5>1. m = n - 3 * q
          BY <2>1, <3>2
        <5> QED BY <5>1
      <4>3. 3 * i <= 4 * m + 2 /\ m < 3
        BY <4>1, <4>2
      <4> QED BY <4>3
    <3> QED BY <3>1, <3>2
  <2> QED BY <2>1, <2>2
<1>6. ASSUME 3 * q < n, l < 4 * q + i PROVE Len(Chunks(b)[q + 1]) + 1 < i
  <2>1. PICK m \in Nat : /\ m = Len(Chunks(b)[q + 1])
                         /\ (3 * q + 3 <= n => m = 3) /\ (~(3 * q + 3 <= n) => m = n - 3 * q)
    BY <1>4, <1>6
  <2>2. m + 1 < i
    <3>1. 4 * (n - 3 * q) + 2 < 3 * i
      BY <1>2, <1>6
    <3>2. ~(3 * q + 3 <= n)
      BY <3>1
    <3>3. n = m + 3 * q
      <4>1. m = n - 3 * q
        BY <2>1, <3>2
      <4> QED BY <4>1
    <3>4. 4 * m + 2 < 3 * i /\ 1 <= m
      BY <1>6, <3>1, <3>3
    <3> QED BY <3>4
  <2> QED BY <2>1, <2>2
<1> QED BY <1>1, <1>3, <1>5, <1>6

\* The characters of a group, and those that carry it.
LEMMA CarriedIs ==
  ASSUME NEW c \in Seq(Byte), NEW m \in Nat, m = Len(c), m <= 3
  PROVE  /\ Sextets(c) \in Seq(Sextet) /\ Len(Sextets(c)) = 4
         /\ Carried(c) \in Seq(Sextet) /\ IsSlice(Carried(c), Sextets(c), 1, m + 1)
<1>1. PICK p1 \in Sextet, p2 \in Sextet, p3 \in Sextet, p4 \in Sextet : Sextets(c) = <<p1, p2, p3, p4>>
  BY GroupSpelled, Zenon DEF Spells
<1>2. PICK x : x = Sextets(c)
  OBVIOUS
<1>3. x \in Seq(Sextet) /\ Len(x) = 4
  BY <1>1, <1>2
<1>4. PICK l \in Nat, k \in Nat : l = m + 1 /\ k = m + 1 /\ l + 1 = 1 + k /\ l <= Len(x) /\ 1 <= 1
  <2>1. m + 1 \in Nat /\ m + 1 <= 4
    OBVIOUS
  <2> QED BY <1>3, <2>1
<1>5. Slice(x, 1, l) \in Seq(Sextet) /\ IsSlice(Slice(x, 1, l), x, 1, k)
  <2>1. PICK f \in Nat : f = 1
    OBVIOUS
  <2> QED BY <1>3, <1>4, <2>1, SliceOf
<1>6. Carried(c) = Slice(x, 1, l)
  BY <1>2, <1>4 DEF Carried, Slice
<1> QED BY <1>2, <1>3, <1>4, <1>5, <1>6

\* A group of the bytes: one to three of them, three unless it is the last.
LEMMA GroupIs ==
  ASSUME NEW b \in Seq(Byte), NEW n \in Nat, n = Len(b), NEW h \in Nat, 3 * h < n
  PROVE  \E c \in Seq(Byte), m \in Nat :
           /\ c = Chunks(b)[h + 1] /\ m = Len(c) /\ 1 <= m /\ m <= 3
           /\ (3 * h + 3 <= n => m = 3) /\ (~(3 * h + 3 <= n) => m = n - 3 * h)
<1>1. PICK c \in Seq(Byte) : c = Chunks(b)[h + 1] /\ Len(c) = IF 3 * h + 3 <= n THEN 3 ELSE n - 3 * h
  BY ChunkIs
<1>2. PICK m \in Nat : m = Len(c)
  OBVIOUS
<1>3. (3 * h + 3 <= n => m = 3) /\ (~(3 * h + 3 <= n) => m = n - 3 * h)
  BY <1>1, <1>2
<1>4. 1 <= m /\ m <= 3
  BY <1>3
<1> QED BY <1>1, <1>2, <1>3, <1>4

\* t has the characters of b's groups in its places up to l.
Placed(t, b, l) ==
  \A q \in Nat, i \in Nat :
    1 <= i /\ i <= 4 /\ 4 * q + i <= l => t[4 * q + i] = Sextets(Chunks(b)[q + 1])[i]

LEMMA CarriedText ==
  ASSUME NEW b \in Seq(Byte), NEW g, g = [k \in DOMAIN Chunks(b) |-> Carried(Chunks(b)[k])]
  PROVE  \E t \in Seq(Sextet) : t = Pushed(g) /\ Room(Len(t), Len(b)) /\ Placed(t, b, Len(t))
<1>1. PICK n \in Nat : n = Len(b)
  OBVIOUS
<1>2. PICK N \in Nat : DOMAIN Chunks(b) = 1 .. N /\ n <= 3 * N /\ (0 < N => 3 * N < n + 3)
  BY <1>1, ChunkCount
<1>3. ASSUME NEW h \in Nat, h < N
      PROVE  \E m \in Nat : /\ g[h + 1] \in Seq(Sextet) /\ Len(g[h + 1]) = m + 1
                            /\ 1 <= m /\ m <= 3
                            /\ (3 * h + 3 <= n => m = 3) /\ (~(3 * h + 3 <= n) => m = n - 3 * h)
  <2>1. 3 * h < n
    BY <1>2, <1>3
  <2>2. PICK c \in Seq(Byte), m \in Nat :
          /\ c = Chunks(b)[h + 1] /\ m = Len(c) /\ 1 <= m /\ m <= 3
          /\ (3 * h + 3 <= n => m = 3) /\ (~(3 * h + 3 <= n) => m = n - 3 * h)
    BY <1>1, <2>1, GroupIs
  <2>3. Carried(c) \in Seq(Sextet) /\ IsSlice(Carried(c), Sextets(c), 1, m + 1)
    BY <2>2, CarriedIs
  <2>4. h + 1 \in 1 .. N
    BY <1>3
  <2>5. g[h + 1] = Carried(c)
    BY <1>2, <2>2, <2>4, Zenon
  <2> QED BY <2>2, <2>3, <2>5 DEF IsSlice
<1>4. g \in Seq(Seq(Sextet)) /\ Len(g) = N
  <2>1. ASSUME NEW k \in 1 .. N PROVE g[k] \in Seq(Sextet)
    <3>1. PICK h \in Nat : h + 1 = k /\ h < N
      <4>1. k - 1 \in Nat /\ (k - 1) + 1 = k /\ k - 1 < N
        OBVIOUS
      <4> QED BY <4>1
    <3> QED BY <1>3, <3>1
  <2>2. g = [k \in 1 .. N |-> g[k]]
    BY <1>2, Zenon
  <2> QED BY <2>1, <2>2
<1>5. Fours(g, N - 1)
  <2> SUFFICES ASSUME NEW h \in Nat, h < N - 1 PROVE Len(g[h + 1]) = 4
    BY DEF Fours
  <2>1. 3 * h + 3 <= n /\ h < N
    BY <1>2
  <2>2. PICK m \in Nat : m = 3 /\ Len(g[h + 1]) = m + 1
    BY <1>3, <2>1
  <2> QED BY <2>2
<1>6. PICK t \in Seq(Sextet) : t = Pushed(g) /\ Laid(t, g, N)
  BY <1>4, <1>5, PushedLaid
<1>7. PICK l \in Nat : l = Len(t)
  OBVIOUS
<1>8. Room(l, n)
  <2>1. CASE N = 0
    BY <1>2, <1>6, <1>7, <2>1 DEF Laid, Room
  <2>2. CASE N # 0
    <3>1. PICK h \in Nat : h = N - 1 /\ h + 1 = N /\ h < N
      BY <2>2
    <3>2. PICK m \in Nat : /\ Len(g[h + 1]) = m + 1 /\ 1 <= m /\ m <= 3
                           /\ (3 * h + 3 <= n => m = 3) /\ (~(3 * h + 3 <= n) => m = n - 3 * h)
      BY <1>3, <3>1
    <3>3. Len(t) = 4 * (N - 1) + Len(g[N])
      BY <1>6, <2>2, Zenon DEF Laid
    <3>4. l = 4 * h + m + 1
      <4>1. Len(g[N]) = m + 1
        BY <3>1, <3>2, Zenon
      <4>2. Len(t) = 4 * (N - 1) + (m + 1)
        BY <3>3, <4>1, Zenon
      <4> QED BY <1>7, <3>1, <4>2
    <3>5. n = 3 * h + m
      <4>1. n <= 3 * h + 3
        BY <1>2, <3>1
      <4>2. CASE 3 * h + 3 <= n
        <5>1. m = 3
          BY <3>2, <4>2
        <5> QED BY <4>1, <4>2, <5>1
      <4>3. CASE ~(3 * h + 3 <= n)
        <5>1. m = n - 3 * h
          BY <3>2, <4>3
        <5> QED BY <5>1
      <4> QED BY <4>2, <4>3
    <3> QED BY <3>2, <3>4, <3>5 DEF Room
  <2> QED BY <2>1, <2>2
<1>9. Placed(t, b, l)
  <2> SUFFICES ASSUME NEW q \in Nat, NEW i \in Nat, 1 <= i, i <= 4, 4 * q + i <= l
               PROVE  t[4 * q + i] = Sextets(Chunks(b)[q + 1])[i]
    BY DEF Placed
  <2>1. 3 * q < n /\ i <= Len(Chunks(b)[q + 1]) + 1
    BY <1>1, <1>8, PlaceIn
  <2>2. q < N
    BY <1>2, <2>1
  <2>3. PICK c \in Seq(Byte), m \in Nat : c = Chunks(b)[q + 1] /\ m = Len(c) /\ m <= 3
    BY <1>1, <2>1, GroupIs
  <2>4. IsSlice(Carried(c), Sextets(c), 1, m + 1)
    BY <2>3, CarriedIs
  <2>5. g[q + 1] = Carried(c)
    <3>1. q + 1 \in 1 .. N
      BY <2>2
    <3> QED BY <1>2, <2>3, <3>1, Zenon
  <2>6. Len(g[q + 1]) = m + 1 /\ i <= m + 1
    BY <2>1, <2>3, <2>4, <2>5 DEF IsSlice
  <2>7. t[4 * q + i] = g[q + 1][i]
    BY <1>6, <2>2, <2>6 DEF Laid
  <2>8. i \in 1 .. m + 1 /\ 1 + i - 1 = i
    BY <2>6
  <2>9. Carried(c)[i] = Sextets(c)[i]
    BY <2>4, <2>8 DEF IsSlice
  <2> QED BY <2>3, <2>5, <2>7, <2>9
<1> QED BY <1>1, <1>6, <1>7, <1>8, <1>9

LEMMA StandsForItself ==
  ASSUME NEW v \in Sextet
  PROVE  b64_val(v) = v
<1>1. v \in Nat /\ v < 64
  BY DEF Sextet
<1>2. v \in 0 .. 63 /\ v # 64 /\ v # 65
  BY <1>1
<1> QED BY <1>2, Zenon DEF b64_val, DASH, UNDERSCORE

\* b64_decode_any reads back what b64url_nopad writes.
LEMMA UrlReadsBack ==
  ASSUME NEW b \in Seq(Byte)
  PROVE  b64_decode_any(b64url_nopad(b)) = b
<1>1. PICK g : g = [k \in DOMAIN Chunks(b) |-> Carried(Chunks(b)[k])]
  OBVIOUS
<1>2. PICK t \in Seq(Sextet) : t = Pushed(g) /\ Room(Len(t), Len(b)) /\ Placed(t, b, Len(t))
  BY <1>1, CarriedText
<1>3. PICK l \in Nat : l = Len(t)
  OBVIOUS
<1>4. PICK u : u = b64url_nopad(b)
  OBVIOUS
<1>5. u = [i \in DOMAIN t |-> Url(t[i])]
  BY <1>1, <1>2, <1>4, Zenon DEF b64url_nopad
<1>6. \A v \in Sextet : Url(v) \in Symbol /\ b64_val(Url(v)) = v
  <2> TAKE v \in Sextet
  <2>1. v \in Nat /\ v < 64
    BY DEF Sextet
  <2>2. CASE v < 62
    <3>1. Url(v) = v /\ v \in 0 .. 63 /\ v <= 65
      BY <2>1, <2>2 DEF Url
    <3>2. v \in Symbol
      BY <2>1, <3>1 DEF Symbol, UNDERSCORE
    <3>3. b64_val(v) = v
      BY StandsForItself
    <3> QED BY <3>1, <3>2, <3>3
  <2>3. CASE v = 62
    BY <2>3 DEF Url, Symbol, b64_val, DASH, UNDERSCORE
  <2>4. CASE v = 63
    BY <2>4 DEF Url, Symbol, b64_val, DASH, UNDERSCORE
  <2> QED BY <2>1, <2>2, <2>3, <2>4
<1>7. DOMAIN t = 1 .. l /\ \A i \in 1 .. l : t[i] \in Sextet
  BY <1>3
<1>8. u \in Seq(Symbol) /\ Len(u) = l /\ \A i \in 1 .. l : b64_val(u[i]) = t[i]
  <2>1. u = [i \in 1 .. l |-> Url(t[i])]
    BY <1>5, <1>7, Zenon
  <2>2. \A i \in 1 .. l : Url(t[i]) \in Symbol /\ b64_val(Url(t[i])) = t[i]
    BY <1>6, <1>7
  <2> QED BY <2>1, <2>2
<1>9. Spelled(u, b)
  <2>1. 3 * Len(u) <= 4 * Len(b) + 2 /\ 4 * Len(b) + 2 < 3 * Len(u) + 3
    BY <1>2, <1>3, <1>8 DEF Room
  <2>2. ASSUME NEW q \in Nat, NEW i \in Nat, 1 <= i, i <= 4, 4 * q + i <= Len(u)
        PROVE  b64_val(u[4 * q + i]) = Sextets(Chunks(b)[q + 1])[i]
    <3>1. 4 * q + i <= Len(t) /\ 4 * q + i \in 1 .. l
      BY <1>3, <1>8, <2>2
    <3>2. t[4 * q + i] = Sextets(Chunks(b)[q + 1])[i]
      BY <1>2, <2>2, <3>1 DEF Placed
    <3> QED BY <1>8, <3>1, <3>2
  <2> QED BY <1>8, <2>1, <2>2 DEF Spelled
<1>10. u \in Seq(Nat) /\ Readable(u) /\ Without(u, Skipped) = u
  <2>1. Symbol \in SUBSET Nat /\ Symbol \cap Skipped = {}
    BY DEF Symbol, Skipped, UNDERSCORE, PAD, BREAK
  <2>2. u \in Seq(Nat)
    BY <1>8, <2>1, SeqWidens
  <2>3. Readable(u)
    BY <1>8 DEF Readable
  <2>4. Without(u, Skipped) = u
    BY <1>8, <2>1, WithoutNone
  <2> QED BY <2>2, <2>3, <2>4
<1> QED BY <1>4, <1>9, <1>10, SpelledReads

\* The group of a chunk, filled up with =.
PaddedGroup(c) == [i \in 1 .. 4 |-> IF i \in DOMAIN Carried(c) THEN Sextets(c)[i] ELSE PAD]

LEMMA PaddedGroupIs ==
  ASSUME NEW c \in Seq(Byte), NEW m \in Nat, m = Len(c), m <= 3
  PROVE  /\ PaddedGroup(c) \in Seq(Nat) /\ Len(PaddedGroup(c)) = 4
         /\ \A i \in Nat : /\ 1 <= i /\ i <= m + 1 => PaddedGroup(c)[i] = Sextets(c)[i] /\ Sextets(c)[i] \in Sextet
                           /\ m + 1 < i /\ i <= 4 => PaddedGroup(c)[i] = PAD
<1>1. PICK x \in Seq(Sextet) : x = Sextets(c) /\ Len(x) = 4
  BY CarriedIs
<1>2. PICK y \in Seq(Sextet) : y = Carried(c) /\ Len(y) = m + 1
  BY CarriedIs DEF IsSlice
<1>3. DOMAIN y = 1 .. m + 1
  BY <1>2
<1>4. PaddedGroup(c) = [i \in 1 .. 4 |-> IF i \in 1 .. m + 1 THEN x[i] ELSE PAD]
  BY <1>1, <1>2, <1>3, Zenon DEF PaddedGroup
<1>5. PICK z : z = [i \in 1 .. 4 |-> IF i \in 1 .. m + 1 THEN x[i] ELSE PAD]
  OBVIOUS
<1>6. \A i \in 1 .. 4 : x[i] \in Sextet /\ x[i] \in Nat /\ PAD \in Nat
  <2>1. \A i \in 1 .. 4 : x[i] \in Sextet
    <3>1. \A i \in 1 .. Len(x) : x[i] \in Sextet
      OBVIOUS
    <3> QED BY <1>1, <3>1
  <2>2. (\A v \in Sextet : v \in Nat) /\ PAD \in Nat
    BY DEF Sextet, PAD
  <2> QED BY <2>1, <2>2
<1>7. z \in Seq(Nat) /\ Len(z) = 4
  BY <1>5, <1>6
<1>8. ASSUME NEW i \in Nat
      PROVE  /\ 1 <= i /\ i <= m + 1 => z[i] = x[i] /\ x[i] \in Sextet
             /\ m + 1 < i /\ i <= 4 => z[i] = PAD
  BY <1>5, <1>6
<1> QED BY <1>1, <1>4, <1>5, <1>7, <1>8

\* What b64_encode writes: the characters of the groups, then =.
LEMMA PaddedText ==
  ASSUME NEW b \in Seq(Byte), NEW l, Room(l, Len(b))
  PROVE  \E t \in Seq(Nat) :
           /\ t = b64_encode(b) /\ l <= Len(t) /\ Placed(t, b, l)
           /\ \A p \in Nat : /\ 1 <= p /\ p <= l => t[p] \in Sextet
                             /\ l < p /\ p <= Len(t) => t[p] = PAD
<1>1. PICK n \in Nat : n = Len(b)
  OBVIOUS
<1>2. PICK N \in Nat : DOMAIN Chunks(b) = 1 .. N /\ n <= 3 * N /\ (0 < N => 3 * N < n + 3)
  BY <1>1, ChunkCount
<1>3. PICK g : g = [k \in DOMAIN Chunks(b) |-> PaddedGroup(Chunks(b)[k])]
  OBVIOUS
<1>4. b64_encode(b) = Pushed(g)
  BY <1>3, Zenon DEF b64_encode, PaddedGroup
<1>5. ASSUME NEW h \in Nat, h < N
      PROVE  /\ g[h + 1] = PaddedGroup(Chunks(b)[h + 1]) /\ 3 * h < n
             /\ g[h + 1] \in Seq(Nat) /\ Len(g[h + 1]) = 4
  <2>1. 3 * h < n
    BY <1>2, <1>5
  <2>2. PICK c \in Seq(Byte), m \in Nat : c = Chunks(b)[h + 1] /\ m = Len(c) /\ m <= 3
    BY <1>1, <2>1, GroupIs
  <2>3. PaddedGroup(c) \in Seq(Nat) /\ Len(PaddedGroup(c)) = 4
    BY <2>2, PaddedGroupIs
  <2>4. h + 1 \in 1 .. N
    BY <1>5
  <2>5. g[h + 1] = PaddedGroup(c)
    BY <1>2, <1>3, <2>2, <2>4, Zenon
  <2> QED BY <2>1, <2>2, <2>3, <2>5
<1>6. g \in Seq(Seq(Nat)) /\ Len(g) = N
  <2>1. ASSUME NEW k \in 1 .. N PROVE g[k] \in Seq(Nat)
    <3>1. PICK h \in Nat : h + 1 = k /\ h < N
      <4>1. k - 1 \in Nat /\ (k - 1) + 1 = k /\ k - 1 < N
        OBVIOUS
      <4> QED BY <4>1
    <3> QED BY <1>5, <3>1
  <2>2. g = [k \in 1 .. N |-> g[k]]
    BY <1>2, <1>3, Zenon
  <2>3. g \in [1 .. N -> Seq(Nat)]
    BY <2>1, <2>2, Zenon
  <2> QED BY <2>3
<1>7. Fours(g, N - 1)
  <2> SUFFICES ASSUME NEW h \in Nat, h < N - 1 PROVE Len(g[h + 1]) = 4
    BY DEF Fours
  <2>1. h < N
    OBVIOUS
  <2> QED BY <1>5, <2>1
<1>8. PICK t \in Seq(Nat) : t = Pushed(g) /\ Laid(t, g, N)
  BY <1>6, <1>7, PushedLaid
<1>9. Len(t) = 4 * N
  <2>1. CASE N = 0
    BY <1>8, <2>1 DEF Laid
  <2>2. CASE N # 0
    <3>1. PICK h \in Nat : h + 1 = N /\ h < N
      <4>1. N - 1 \in Nat /\ (N - 1) + 1 = N /\ N - 1 < N
        BY <2>2
      <4> QED BY <4>1
    <3>2. Len(g[N]) = 4
      BY <1>5, <3>1
    <3>3. Len(t) = 4 * (N - 1) + Len(g[N])
      BY <1>8, <2>2, Zenon DEF Laid
    <3> QED BY <3>2, <3>3
  <2> QED BY <2>1, <2>2
<1>10. ASSUME NEW q \in Nat, NEW i \in Nat, 1 <= i, i <= 4, q < N
       PROVE  /\ 4 * q + i <= l => /\ t[4 * q + i] = Sextets(Chunks(b)[q + 1])[i]
                                   /\ t[4 * q + i] \in Sextet
              /\ l < 4 * q + i => t[4 * q + i] = PAD
  <2>1. 3 * q < n /\ g[q + 1] = PaddedGroup(Chunks(b)[q + 1]) /\ Len(g[q + 1]) = 4
    BY <1>5, <1>10
  <2>2. PICK c \in Seq(Byte), m \in Nat : c = Chunks(b)[q + 1] /\ m = Len(c) /\ m <= 3
    BY <1>1, <2>1, GroupIs
  <2>3. t[4 * q + i] = PaddedGroup(c)[i]
    <3>1. i <= Len(g[q + 1])
      BY <1>10, <2>1
    <3>2. t[4 * q + i] = g[q + 1][i]
      BY <1>8, <1>10, <3>1 DEF Laid
    <3> QED BY <2>1, <2>2, <3>2
  <2>4. (4 * q + i <= l => i <= m + 1) /\ (l < 4 * q + i => m + 1 < i)
    BY <1>1, <1>10, <2>1, <2>2, PlaceIn
  <2>5. /\ i <= m + 1 => PaddedGroup(c)[i] = Sextets(c)[i] /\ Sextets(c)[i] \in Sextet
        /\ m + 1 < i => PaddedGroup(c)[i] = PAD
    BY <1>10, <2>2, PaddedGroupIs
  <2> QED BY <2>2, <2>3, <2>4, <2>5
<1>11. l \in Nat /\ l <= 4 * N
  BY <1>1, <1>2 DEF Room
<1>12. Placed(t, b, l)
  <2> SUFFICES ASSUME NEW q \in Nat, NEW i \in Nat, 1 <= i, i <= 4, 4 * q + i <= l
               PROVE  t[4 * q + i] = Sextets(Chunks(b)[q + 1])[i]
    BY DEF Placed
  <2>1. q < N
    BY <1>11
  <2> QED BY <1>10, <2>1
<1>13. ASSUME NEW p \in Nat, 1 <= p, p <= 4 * N
       PROVE  (p <= l => t[p] \in Sextet) /\ (l < p => t[p] = PAD)
  <2>1. PICK q \in Nat, i \in Nat : p = 4 * q + i /\ 1 <= i /\ i <= 4 /\ q < N
    <3>1. PICK q \in Nat : q = (p - 1) \div 4 /\ 4 * q + 1 <= p /\ p <= 4 * q + 4
      <4>1. (p - 1) \div 4 \in Nat /\ 4 * ((p - 1) \div 4) + 1 <= p /\ p <= 4 * ((p - 1) \div 4) + 4
        BY <1>13
      <4> QED BY <4>1
    <3>2. p - 4 * q \in Nat /\ p = 4 * q + (p - 4 * q) /\ 1 <= p - 4 * q /\ p - 4 * q <= 4 /\ q < N
      BY <1>13, <3>1
    <3> QED BY <3>2
  <2> QED BY <1>10, <2>1
<1>14. ASSUME NEW p \in Nat
       PROVE  (1 <= p /\ p <= l => t[p] \in Sextet) /\ (l < p /\ p <= Len(t) => t[p] = PAD)
  <2>1. (p <= l => p <= 4 * N) /\ (l < p => 1 <= p) /\ (p <= Len(t) => p <= 4 * N)
    BY <1>9, <1>11
  <2> QED BY <1>13, <2>1
<1> QED BY <1>4, <1>8, <1>9, <1>11, <1>12, <1>14

\* b64_decode_any reads back what b64_encode writes.
LEMMA EncodeReadsBack ==
  ASSUME NEW b \in Seq(Byte)
  PROVE  b64_decode_any(b64_encode(b)) = b
<1>1. PICK l \in Nat : Room(l, Len(b))
  <2>1. PICK n \in Nat : n = Len(b)
    OBVIOUS
  <2>2. (4 * n + 2) \div 3 \in Nat /\ 3 * ((4 * n + 2) \div 3) <= 4 * n + 2
        /\ 4 * n + 2 < 3 * ((4 * n + 2) \div 3) + 3
    OBVIOUS
  <2> QED BY <2>1, <2>2 DEF Room
<1>2. PICK t \in Seq(Nat) :
        /\ t = b64_encode(b) /\ l <= Len(t) /\ Placed(t, b, l)
        /\ \A p \in Nat : /\ 1 <= p /\ p <= l => t[p] \in Sextet
                          /\ l < p /\ p <= Len(t) => t[p] = PAD
  BY <1>1, PaddedText
<1>3. PICK m \in Nat : m = Len(t)
  OBVIOUS
<1>4. PICK r \in Nat : r = m - l
  <2>1. m - l \in Nat
    BY <1>2, <1>3
  <2> QED BY <2>1
<1>5. PICK u \in Seq(Nat) : u = First(t, l) /\ Len(u) = l /\ \A i \in 1 .. l : u[i] = t[i]
  BY <1>2, FirstOf DEF Long
<1>6. PICK w \in Seq(Nat) : w = Slice(t, l + 1, m) /\ IsSlice(w, t, l + 1, r)
  <2>1. PICK f \in Nat : f = l + 1 /\ 1 <= f /\ m + 1 = f + r /\ m <= Len(t)
    BY <1>3, <1>4
  <2> QED BY <2>1, SliceOf
<1>7. Len(w) = r /\ \A i \in 1 .. r : w[i] = t[l + i]
  <2>1. Len(w) = r /\ \A i \in 1 .. r : w[i] = t[l + 1 + i - 1]
    BY <1>6 DEF IsSlice
  <2>2. \A i \in 1 .. r : l + 1 + i - 1 = l + i
    OBVIOUS
  <2> QED BY <2>1, <2>2
<1>8. t = Join(u, w)
  <2>1. PICK z : z = Join(u, w)
    OBVIOUS
  <2>2. /\ z \in Seq(Nat) /\ Len(z) = l + r
        /\ \A i \in 1 .. l : z[i] = u[i]
        /\ \A i \in 1 .. r : z[l + i] = w[i]
    <3>1. /\ z \in Seq(Nat) /\ Len(z) = Len(u) + Len(w)
          /\ \A i \in 1 .. Len(u) : z[i] = u[i]
          /\ \A i \in 1 .. Len(w) : z[Len(u) + i] = w[i]
      BY <2>1 DEF Join
    <3>2. Len(u) = l /\ Len(w) = r
      BY <1>5, <1>7
    <3> QED BY <3>1, <3>2
  <2>3. Len(z) = Len(t)
    BY <1>3, <1>4, <2>2
  <2>4. ASSUME NEW i \in 1 .. Len(t) PROVE t[i] = z[i]
    <3>1. CASE i <= l
      BY <1>5, <2>2, <3>1
    <3>2. CASE ~(i <= l)
      <4>1. PICK j \in Nat : i = l + j /\ j \in 1 .. r
        <5>1. i - l \in Nat /\ i = l + (i - l) /\ i - l \in 1 .. r
          BY <1>3, <1>4, <3>2
        <5> QED BY <5>1
      <4> QED BY <1>7, <2>2, <4>1
    <3> QED BY <3>1, <3>2
  <2>5. t = z
    BY <2>2, <2>3, <2>4, SameSequence
  <2> QED BY <2>1, <2>5
<1>9. Sextet \subseteq Symbol /\ PAD \in Skipped /\ Symbol \cap Skipped = {}
  BY DEF Symbol, Sextet, Skipped, UNDERSCORE, PAD, BREAK
<1>10. \A v \in Sextet : b64_val(v) = v
  BY StandsForItself
<1>11. u \in Seq(Symbol) /\ \A i \in 1 .. l : u[i] \in Sextet
  <2>1. \A i \in 1 .. l : u[i] \in Sextet
    <3> TAKE i \in 1 .. l
    <3>1. i \in Nat /\ 1 <= i /\ i <= l
      OBVIOUS
    <3>2. t[i] \in Sextet
      BY <1>2, <3>1
    <3> QED BY <1>5, <3>2
  <2>2. \A i \in 1 .. Len(u) : u[i] \in Symbol
    BY <1>5, <1>9, <2>1
  <2>3. u \in Seq(Symbol)
    BY <2>2, SeqNarrows
  <2> QED BY <2>1, <2>3
<1>12. \A i \in 1 .. r : w[i] = PAD
  <2> TAKE i \in 1 .. r
  <2>1. PICK p \in Nat : p = l + i /\ l < p /\ p <= Len(t)
    BY <1>3, <1>4
  <2> QED BY <1>2, <1>7, <2>1
<1>13. Without(t, Skipped) = u
  <2>1. Without(u, Skipped) = u
    BY <1>9, <1>11, WithoutNone
  <2>2. Without(w, Skipped) = <<>>
    <3>1. \A i \in 1 .. Len(w) : w[i] \in Skipped
      BY <1>7, <1>9, <1>12
    <3>2. w \in Seq(Skipped)
      BY <3>1, SeqNarrows
    <3> QED BY <3>2, WithoutAll
  <2>3. Without(Join(u, w), Skipped) = Join(u, <<>>)
    BY <2>1, <2>2, WithoutJoin
  <2>4. Join(u, <<>>) = u
    BY DEF Join
  <2> QED BY <1>8, <2>3, <2>4
<1>14. Readable(t)
  <2> SUFFICES ASSUME NEW i \in DOMAIN t PROVE t[i] \in Skipped \/ t[i] \in Symbol
    BY DEF Readable
  <2>1. i \in Nat /\ 1 <= i /\ i <= Len(t)
    OBVIOUS
  <2>2. i <= l \/ l < i
    BY <2>1
  <2> QED BY <1>2, <1>9, <2>1, <2>2
<1>15. Spelled(u, b)
  <2>1. 3 * Len(u) <= 4 * Len(b) + 2 /\ 4 * Len(b) + 2 < 3 * Len(u) + 3
    BY <1>1, <1>5 DEF Room
  <2>2. ASSUME NEW q \in Nat, NEW i \in Nat, 1 <= i, i <= 4, 4 * q + i <= Len(u)
        PROVE  b64_val(u[4 * q + i]) = Sextets(Chunks(b)[q + 1])[i]
    <3>1. 4 * q + i <= l /\ 4 * q + i \in 1 .. l
      BY <1>5, <2>2
    <3>2. t[4 * q + i] = Sextets(Chunks(b)[q + 1])[i]
      BY <1>2, <2>2, <3>1 DEF Placed
    <3>3. b64_val(u[4 * q + i]) = u[4 * q + i]
      BY <1>10, <1>11, <3>1
    <3> QED BY <1>5, <3>1, <3>2, <3>3
  <2> QED BY <1>11, <2>1, <2>2 DEF Spelled
<1> QED BY <1>2, <1>13, <1>14, <1>15, SpelledReads

-----------------------------------------------------------------------------
(* PEM *)

\* Induction from the end of an interval.
LEMMA FromTop ==
  ASSUME NEW n \in Nat, NEW S, \A r \in 1 .. n : (\A s \in r + 1 .. n : s \in S) => r \in S
  PROVE  \A r \in 1 .. n : r \in S
<1> SUFFICES ASSUME NEW r \in 1 .. n, r \notin S PROVE FALSE
  OBVIOUS
<1> DEFINE B == {k \in Nat : k < n /\ n - k \notin S}
<1>1. n - r \in B
  <2>1. n - r \in Nat /\ n - r < n /\ n - (n - r) = r
    OBVIOUS
  <2> QED BY <2>1
<1>2. PICK m \in B : \A k \in B : m <= k
  <2>1. B \in SUBSET Nat /\ B # {}
    BY <1>1
  <2> HIDE DEF B
  <2> QED BY <2>1, LeastNat
<1>3. PICK t \in 1 .. n : t = n - m /\ t \notin S
  <2>1. n - m \in 1 .. n /\ n - m \notin S
    BY <1>2
  <2> QED BY <2>1
<1>4. ASSUME NEW s \in t + 1 .. n PROVE s \in S
  <2>1. n - s \in Nat /\ n - s < m /\ n - s < n /\ n - (n - s) = s
    BY <1>2, <1>3
  <2>2. n - s \notin B
    <3>1. m \in Nat /\ ~(m <= n - s)
      BY <1>2, <2>1
    <3> HIDE DEF B
    <3> QED BY <1>2, <3>1
  <2> QED BY <2>1, <2>2
<1> QED BY <1>3, <1>4

\* The run of a loop that goes on further right, and stops in X.
GoesRight(f, n, X, head, nxt) ==
  f = [r \in 1 .. n |-> IF r \in X THEN <<>> ELSE Join(head[r], f[nxt[r]])]

LEMMA Backward ==
  ASSUME NEW n \in Nat, NEW X, NEW head, NEW nxt, \A r \in 1 .. n : r \notin X => nxt[r] \in r + 1 .. n
  PROVE  \E f : GoesRight(f, n, X, head, nxt)
<1> DEFINE Val(f, r) == IF r \in X THEN <<>> ELSE Join(head[r], f[nxt[r]])
           Run(k) == \E f : /\ f = [r \in 1 .. n |-> f[r]]
                            /\ \A r \in 1 .. n : n < r + k => f[r] = Val(f, r)
           S == {k \in 0 .. n : Run(k)}
<1>1. Run(0)
  <2> DEFINE f == [r \in 1 .. n |-> <<>>]
  <2>1. f = [r \in 1 .. n |-> f[r]]
    BY Zenon
  <2>2. \A r \in 1 .. n : ~(n < r + 0)
    OBVIOUS
  <2> HIDE DEF f, Val
  <2> QED BY <2>1, <2>2, Zenon
<1>2. ASSUME NEW k \in 1 .. n, Run(k - 1) PROVE Run(k)
  <2>1. PICK f : /\ f = [r \in 1 .. n |-> f[r]]
                 /\ \A r \in 1 .. n : n < r + (k - 1) => f[r] = Val(f, r)
    BY <1>2
  <2>2. PICK q \in 1 .. n : q = n + 1 - k
    <3>1. n + 1 - k \in 1 .. n
      OBVIOUS
    <3> QED BY <3>1
  <2> DEFINE g == [r \in 1 .. n |-> IF r = q THEN Val(f, q) ELSE f[r]]
  <2>3. g = [r \in 1 .. n |-> g[r]]
    BY Zenon
  <2>4. g[q] = Val(f, q) /\ \A r \in 1 .. n : r # q => g[r] = f[r]
    BY Zenon
  <2> HIDE DEF g
  <2>5. ASSUME NEW r \in 1 .. n, n < r + k PROVE g[r] = Val(g, r)
    <3>1. q <= r
      BY <2>2, <2>5
    <3>2. Val(g, r) = Val(f, r)
      <4>1. r \notin X => nxt[r] \in 1 .. n /\ nxt[r] # q
        <5>1. ASSUME r \notin X PROVE nxt[r] \in 1 .. n /\ nxt[r] # q
          <6>1. PICK m \in r + 1 .. n : m = nxt[r]
            BY <5>1
          <6>2. m \in 1 .. n /\ m # q
            BY <3>1
          <6> QED BY <6>1, <6>2
        <5> QED BY <5>1
      <4>2. r \notin X => g[nxt[r]] = f[nxt[r]]
        BY <2>4, <4>1
      <4> QED BY <4>2
    <3>3. CASE r = q
      BY <2>4, <3>2, <3>3
    <3>4. CASE r # q
      <4>1. n < r + (k - 1)
        BY <2>2, <3>1, <3>4
      <4> HIDE DEF Val
      <4> QED BY <2>1, <2>4, <3>2, <3>4, <4>1
    <3> QED BY <3>3, <3>4
  <2> HIDE DEF Val
  <2> QED BY <2>3, <2>5
<1> HIDE DEF Run
<1>3. \A k \in 0 .. n : k \in S
  <2>1. 0 \in S
    BY <1>1
  <2>2. \A k \in 1 .. n : k - 1 \in S => k \in S
    BY <1>2
  <2> HIDE DEF S
  <2> QED BY <2>1, <2>2, UpTo
<1>4. Run(n)
  BY <1>3
<1>5. PICK f : f = [r \in 1 .. n |-> f[r]] /\ \A r \in 1 .. n : n < r + n => f[r] = Val(f, r)
  BY <1>4, Zenon DEF Run
<1>6. \A r \in 1 .. n : n < r + n
  OBVIOUS
<1>7. f = [r \in 1 .. n |-> Val(f, r)]
  <2> HIDE DEF Val
  <2>1. \A r \in 1 .. n : f[r] = Val(f, r)
    BY <1>5, <1>6, Zenon
  <2> QED BY <1>5, <2>1, Zenon
<1> QED BY <1>7, Zenon DEF GoesRight

\* s is the first BEGIN from r on, and e the first END after it.
Marked(text, r, s, e) ==
  /\ s \in Nat /\ e \in Nat /\ r <= s /\ s < e /\ e <= Len(text)
  /\ text[s] = "BEGIN" /\ text[e] = "END"
  /\ \A i \in Nat : r <= i /\ i < s => text[i] # "BEGIN"
  /\ \A i \in Nat : s < i /\ i < e => text[i] # "END"

\* No BEGIN from r on has an END.
Ends(text, r) ==
  \A i \in Nat, j \in Nat : r <= i /\ i < j /\ j <= Len(text) /\ text[i] = "BEGIN" => text[j] # "END"

\* What a block whose body decodes to der adds to the chain.
Lifted(der) == IF der \in {None, <<>>} THEN <<>> ELSE <<der>>

DerAt(text, s, e) == BodyDer(SubSeq(text, s + 1, e - 1))

\* f is what the loop of pck_chain_from_quote lifts from each place on.
Lifts(f, text) ==
  /\ pck_chain_from_quote(text) = f[1]
  /\ \A r \in 1 .. Len(text) + 1 :
       \/ Ends(text, r) /\ f[r] = <<>>
       \/ \E s, e : Marked(text, r, s, e) /\ f[r] = Join(Lifted(DerAt(text, s, e)), f[e + 1])

LEMMA FirstMark ==
  ASSUME NEW T, NEW text \in Seq(T), NEW mark, NEW r \in Nat, 1 <= r, Marks(text, mark, r) # {}
  PROVE  \E m \in Nat : /\ m = Min(Marks(text, mark, r)) /\ r <= m /\ m <= Len(text) /\ text[m] = mark
                        /\ \A i \in Nat : r <= i /\ i < m => text[i] # mark
<1>1. Marks(text, mark, r) \in SUBSET Nat
  BY DEF Marks
<1>2. PICK m : m = Min(Marks(text, mark, r))
  OBVIOUS
<1>3. m \in Marks(text, mark, r) /\ \A k \in Marks(text, mark, r) : m <= k
  BY <1>1, <1>2, MinProps
<1>4. m \in Nat /\ r <= m /\ m <= Len(text) /\ text[m] = mark
  BY <1>3 DEF Marks
<1>5. ASSUME NEW i \in Nat, r <= i, i < m PROVE text[i] # mark
  <2>1. i \in r .. Len(text) /\ ~(m <= i)
    BY <1>4, <1>5
  <2>2. i \notin Marks(text, mark, r)
    BY <1>3, <2>1
  <2> QED BY <2>1, <2>2 DEF Marks
<1> QED BY <1>2, <1>4, <1>5

LEMMA NoMark ==
  ASSUME NEW T, NEW text \in Seq(T), NEW mark, NEW r \in Nat, Marks(text, mark, r) = {}
  PROVE  \A i \in Nat : r <= i /\ i <= Len(text) => text[i] # mark
<1> SUFFICES ASSUME NEW i \in Nat, r <= i, i <= Len(text), text[i] = mark PROVE FALSE
  OBVIOUS
<1>1. i \in r .. Len(text)
  OBVIOUS
<1> QED BY <1>1 DEF Marks

\* The loop has a run.
LEMMA LiftRun ==
  ASSUME NEW T, NEW text \in Seq(T)
  PROVE  \E f : Lifts(f, text)
<1>1. PICK n \in Nat : n = Len(text) + 1
  OBVIOUS
<1> DEFINE start(r) == Min(Marks(text, "BEGIN", r))
           end(r) == Min(Marks(text, "END", start(r) + 1))
           stop(r) == Marks(text, "BEGIN", r) = {} \/ Marks(text, "END", start(r) + 1) = {}
           Turn(r) == Lifted(DerAt(text, start(r), end(r)))
           Loop(f) == [r \in 1 .. Len(text) + 1 |->
                         IF stop(r) THEN <<>> ELSE Turn(r) \o f[end(r) + 1]]
           X == {r \in 1 .. n : stop(r)}
           head == [r \in 1 .. n |-> Turn(r)]
           nxt == [r \in 1 .. n |-> end(r) + 1]
<1>2. ASSUME NEW r \in 1 .. n, ~stop(r) PROVE Marked(text, r, start(r), end(r))
  <2>1. PICK s \in Nat : /\ s = start(r) /\ r <= s /\ s <= Len(text) /\ text[s] = "BEGIN"
                         /\ \A i \in Nat : r <= i /\ i < s => text[i] # "BEGIN"
    <3>1. r \in Nat /\ 1 <= r /\ Marks(text, "BEGIN", r) # {}
      BY <1>2
    <3> QED BY <3>1, FirstMark
  <2>2. PICK t \in Nat : t = s + 1 /\ 1 <= t
    OBVIOUS
  <2>3. PICK e \in Nat : /\ e = end(r) /\ t <= e /\ e <= Len(text) /\ text[e] = "END"
                         /\ \A i \in Nat : t <= i /\ i < e => text[i] # "END"
    <3>1. Marks(text, "END", t) # {} /\ end(r) = Min(Marks(text, "END", t))
      BY <1>2, <2>1, <2>2
    <3> HIDE DEF end
    <3> QED BY <2>2, <3>1, FirstMark
  <2>4. \A i \in Nat : s < i /\ i < e => text[i] # "END"
    BY <2>2, <2>3
  <2>5. s < e
    BY <2>2, <2>3
  <2> HIDE DEF start, end
  <2> QED BY <2>1, <2>3, <2>4, <2>5 DEF Marked
<1>3. ASSUME NEW r \in 1 .. n, stop(r) PROVE Ends(text, r)
  <2> SUFFICES ASSUME NEW i \in Nat, NEW j \in Nat, r <= i, i < j, j <= Len(text),
                      text[i] = "BEGIN", text[j] = "END"
               PROVE  FALSE
    BY DEF Ends
  <2>1. r \in Nat /\ 1 <= r /\ i <= Len(text)
    OBVIOUS
  <2>2. Marks(text, "BEGIN", r) # {}
    BY <2>1, NoMark
  <2>3. PICK s \in Nat : s = start(r) /\ \A k \in Nat : r <= k /\ k < s => text[k] # "BEGIN"
    BY <2>1, <2>2, FirstMark
  <2>4. s <= i
    BY <2>3
  <2>5. PICK t \in Nat : t = s + 1 /\ t <= j
    BY <2>4
  <2>6. Marks(text, "END", t) = {}
    BY <1>3, <2>2, <2>3, <2>5
  <2> QED BY <2>5, <2>6, NoMark
<1>4. \A r \in 1 .. n : r \notin X => nxt[r] \in r + 1 .. n
  <2> SUFFICES ASSUME NEW r \in 1 .. n, r \notin X PROVE nxt[r] \in r + 1 .. n
    OBVIOUS
  <2>1. Marked(text, r, start(r), end(r))
    BY <1>2
  <2>2. nxt[r] = end(r) + 1
    BY Zenon
  <2> HIDE DEF start, end, nxt
  <2>3. end(r) \in Nat /\ r < end(r) /\ end(r) <= Len(text)
    BY <2>1 DEF Marked
  <2> QED BY <1>1, <2>2, <2>3
<1>5. PICK f : GoesRight(f, n, X, head, nxt)
  <2> HIDE DEF X, head, nxt
  <2> QED BY <1>4, Backward
<1>6. f = Loop(f)
  <2>1. f = [r \in 1 .. n |-> IF r \in X THEN <<>> ELSE Join(head[r], f[nxt[r]])]
    BY <1>5, Zenon DEF GoesRight
  <2>2. \A r \in 1 .. n : (r \in X <=> stop(r)) /\ head[r] = Turn(r) /\ nxt[r] = end(r) + 1
    <3> HIDE DEF stop, Turn, end
    <3> QED BY Zenon
  <2> HIDE DEF stop, Turn, end, X, head, nxt
  <2>3. \A r \in 1 .. n : f[r] = IF stop(r) THEN <<>> ELSE Turn(r) \o f[end(r) + 1]
    BY <2>1, <2>2, Zenon DEF Join
  <2>4. f = [r \in 1 .. n |-> f[r]]
    BY <2>1, Zenon
  <2> QED BY <1>1, <2>3, <2>4, Zenon
<1>7. PICK k : k = Loop(k) /\ pck_chain_from_quote(text) = k[1]
  <2> DEFINE K == CHOOSE k : k = Loop(k)
  <2>1. K = Loop(K)
    BY <1>6, Zenon
  <2>2. pck_chain_from_quote(text) = K[1]
    BY DEF pck_chain_from_quote, Lifted, DerAt
  <2> HIDE DEF K, Loop
  <2> QED BY <2>1, <2>2
<1>8. ASSUME NEW r \in 1 .. n PROVE k[r] = IF stop(r) THEN <<>> ELSE Turn(r) \o k[end(r) + 1]
  <2> HIDE DEF stop, Turn, end
  <2> QED BY <1>1, <1>7, Zenon
<1>9. ASSUME NEW r \in 1 .. n
      PROVE  \/ Ends(text, r) /\ k[r] = <<>>
             \/ \E s, e : Marked(text, r, s, e) /\ k[r] = Join(Lifted(DerAt(text, s, e)), k[e + 1])
  <2>1. CASE stop(r)
    <3> HIDE DEF stop
    <3> QED BY <1>3, <1>8, <2>1, Zenon
  <2>2. CASE ~stop(r)
    <3>1. Marked(text, r, start(r), end(r))
      BY <1>2, <2>2
    <3> HIDE DEF stop, start, end
    <3>2. k[r] = Join(Lifted(DerAt(text, start(r), end(r))), k[end(r) + 1])
      BY <1>8, <2>2, Zenon DEF Join
    <3> QED BY <3>1, <3>2, Zenon
  <2> QED BY <2>1, <2>2
<1> QED BY <1>1, <1>7, <1>9, Zenon DEF Lifts
=============================================================================
