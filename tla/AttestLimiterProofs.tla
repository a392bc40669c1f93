------------------------ MODULE AttestLimiterProofs ------------------------
(***************************************************************************)
(* Proofs about AttestLimiter, for every burst, period, cohort and number  *)
(* of concurrent callers.                                                  *)
(***************************************************************************)
EXTENDS AttestLimiter, SequenceTheorems, TLAPS

\* A full bucket is a whole number of units, at least one token.
LEMMA FullNat == Full \in Nat /\ Full >= PERIOD
<1>1. BURST * PERIOD \in Nat /\ BURST * PERIOD >= PERIOD
  BY BurstAssumption
<1> QED BY <1>1 DEF Full

\* Clock readings are never ahead of the clock, and what a call or a bucket
\* holds is such a reading.
Readings ==
  /\ \A c \in Callers : call[c] # None => call[c].now <= clock
  /\ \A pk \in Pubkeys : attest_buckets[pk] # None => attest_buckets[pk].last <= clock

\* The account of one bucket: what has been granted and what is left is
\* covered by the burst, the time up to the last refill and the time the
\* last refill was moved back.
Account ==
  \A pk \in Pubkeys :
    IF attest_buckets[pk] = None THEN Len(grants[pk]) = 0
    ELSE Len(grants[pk]) * PERIOD + attest_buckets[pk].tokens
           <= Full + attest_buckets[pk].last + set_back[pk]

\* The refill of one call is a bucket level between what was there and a
\* full bucket, and adds no more than the time since the last refill.
LEMMA RefilledProps ==
  ASSUME TypeOK, NEW pk \in Pubkeys, NEW now \in 0 .. MaxClock
  PROVE  /\ Bucket(pk, now) \in Buckets
         /\ Refilled(pk, now) \in 0 .. Full
         /\ Refilled(pk, now) <= Bucket(pk, now).tokens + Elapsed(now, Bucket(pk, now).last)
         /\ Refilled(pk, now) = Full
              \/ Refilled(pk, now) = Bucket(pk, now).tokens + Elapsed(now, Bucket(pk, now).last)
<1>1. Bucket(pk, now) \in Buckets
  <2>1. Full \in 0 .. Full
    BY FullNat
  <2> QED BY <2>1 DEF Bucket, Buckets, TypeOK
<1>2. Bucket(pk, now).tokens \in 0 .. Full /\ Bucket(pk, now).last \in 0 .. MaxClock
  BY <1>1 DEF Buckets
<1> QED BY <1>1, <1>2, FullNat, BoundAssumption DEF Refilled, Capped, Elapsed

\* What every call does in its critical section, granted or refused.
LEMMA CallProps ==
  ASSUME TypeOK, NEW c \in Callers, call[c] # None,
         NEW left \in 0 .. Full,
         StoreBucket(call[c].pk, call[c].now, left), Return(c)
  PROVE  /\ call[c].pk \in Pubkeys /\ call[c].now \in 0 .. MaxClock
         /\ attest_buckets' \in [Pubkeys -> Buckets \cup {None}]
         /\ attest_buckets'[call[c].pk] # None
         /\ attest_buckets'[call[c].pk].tokens = left
         /\ attest_buckets'[call[c].pk].last = call[c].now
         /\ \A q \in Pubkeys \ {call[c].pk} : attest_buckets'[q] = attest_buckets[q]
         /\ call' \in [Callers -> Calls \cup {None}]
         /\ call'[c] = None /\ \A d \in Callers \ {c} : call'[d] = call[d]
         /\ clock' = clock
         /\ set_back' \in [Pubkeys -> Nat]
         /\ set_back'[call[c].pk] = set_back[call[c].pk]
              + Elapsed(Bucket(call[c].pk, call[c].now).last, call[c].now)
         /\ \A q \in Pubkeys \ {call[c].pk} : set_back'[q] = set_back[q]
<1> DEFINE pk == call[c].pk
           now == call[c].now
           b == [tokens |-> left, last |-> now]
<1>1. pk \in Pubkeys /\ now \in 0 .. MaxClock
  BY DEF TypeOK, Calls
<1>2. b \in Buckets
  BY <1>1 DEF Buckets
<1>3. /\ attest_buckets' \in [Pubkeys -> Buckets \cup {None}]
      /\ attest_buckets'[pk] = b
      /\ \A q \in Pubkeys \ {pk} : attest_buckets'[q] = attest_buckets[q]
  BY <1>1, <1>2 DEF StoreBucket, TypeOK
<1>4. attest_buckets'[pk] # None /\ attest_buckets'[pk].tokens = left /\ attest_buckets'[pk].last = now
  BY <1>2, <1>3, NoneAssumption
<1>5. /\ call' \in [Callers -> Calls \cup {None}]
      /\ call'[c] = None /\ \A d \in Callers \ {c} : call'[d] = call[d]
      /\ clock' = clock
  BY DEF Return, TypeOK
<1>6. Elapsed(Bucket(pk, now).last, now) \in Nat
  <2>1. Bucket(pk, now).last \in 0 .. MaxClock
    BY <1>1, RefilledProps DEF Buckets
  <2> QED BY <1>1, <2>1, BoundAssumption DEF Elapsed
<1>7. /\ set_back' \in [Pubkeys -> Nat]
      /\ set_back'[pk] = set_back[pk] + Elapsed(Bucket(pk, now).last, now)
      /\ \A q \in Pubkeys \ {pk} : set_back'[q] = set_back[q]
  BY <1>1, <1>6 DEF Return, TypeOK
<1> QED BY <1>1, <1>3, <1>4, <1>5, <1>7

\* Types and clock readings are preserved.
LEMMA TypeStep ==
  ASSUME TypeOK, Readings, [Next]_vars
  PROVE  TypeOK' /\ Readings'
<1>1. CASE Tick
  BY <1>1, BoundAssumption DEF Tick, TypeOK, Readings, Calls, Buckets
<1>2. ASSUME NEW c \in Callers, NEW pk \in Pubkeys, ReadClock(c, pk)
      PROVE  TypeOK' /\ Readings'
  <2>1. [pk |-> pk, now |-> clock] \in Calls
    BY DEF TypeOK, Calls
  <2>2. call' \in [Callers -> Calls \cup {None}]
    BY <1>2, <2>1 DEF ReadClock, TypeOK
  <2>3. \A d \in Callers : call'[d] # None => call'[d].now <= clock
    BY <1>2 DEF ReadClock, TypeOK, Readings
  <2> QED BY <1>2, <2>2, <2>3 DEF ReadClock, TypeOK, Readings
<1>3. ASSUME NEW c \in Callers, Grant(c)
      PROVE  TypeOK' /\ Readings'
  <2> DEFINE pk == call[c].pk
             now == call[c].now
             left == Refilled(pk, now) - PERIOD
  <2>1. call[c] # None /\ StoreBucket(pk, now, left) /\ Return(c)
    BY <1>3 DEF Grant
  <2>2. pk \in Pubkeys /\ now \in 0 .. MaxClock
    BY <2>1 DEF TypeOK, Calls
  <2>3. left \in 0 .. Full
    BY <1>3, <2>2, RefilledProps, BurstAssumption, FullNat DEF Grant
  <2>4. grants' \in [Pubkeys -> Seq(0 .. MaxClock)]
    BY <1>3, <2>2 DEF Grant, TypeOK
  <2> HIDE DEF left
  <2>5. TypeOK'
    BY <2>1, <2>3, <2>4, CallProps DEF TypeOK
  <2>6. Readings'
    BY <2>1, <2>2, <2>3, CallProps DEF Readings
  <2> QED BY <2>5, <2>6
<1>4. ASSUME NEW c \in Callers, Refuse(c)
      PROVE  TypeOK' /\ Readings'
  <2> DEFINE pk == call[c].pk
             now == call[c].now
             left == Refilled(pk, now)
  <2>1. call[c] # None /\ StoreBucket(pk, now, left) /\ Return(c) /\ grants' = grants
    BY <1>4 DEF Refuse
  <2>2. pk \in Pubkeys /\ now \in 0 .. MaxClock
    BY <2>1 DEF TypeOK, Calls
  <2>3. left \in 0 .. Full
    BY <2>2, RefilledProps
  <2> HIDE DEF left
  <2>5. TypeOK'
    BY <2>1, <2>3, CallProps DEF TypeOK
  <2>6. Readings'
    BY <2>1, <2>2, <2>3, CallProps DEF Readings
  <2> QED BY <2>5, <2>6
<1>5. CASE UNCHANGED vars
  BY <1>5 DEF vars, TypeOK, Readings
<1> QED BY <1>1, <1>2, <1>3, <1>4, <1>5 DEF Next

\* The limiter's state is well typed, and no reading is ahead of the clock.
THEOREM LimiterTypes == Spec => [](TypeOK /\ Readings)
<1>1. Init => TypeOK /\ Readings
  BY BoundAssumption DEF Init, TypeOK, Readings
<1>2. TypeOK /\ Readings /\ [Next]_vars => (TypeOK /\ Readings)'
  BY TypeStep
<1> QED BY <1>1, <1>2, PTL DEF Spec

-----------------------------------------------------------------------------
(* Calls that overtake each other *)

\* One critical section balances the account of its bucket: n is what has
\* been granted before it, in units.
LEMMA Balance ==
  ASSUME TypeOK, NEW pk \in Pubkeys, NEW now \in 0 .. MaxClock, NEW n \in Nat,
         IF attest_buckets[pk] = None THEN n = 0
         ELSE n + attest_buckets[pk].tokens <= Full + attest_buckets[pk].last + set_back[pk]
  PROVE  n + Refilled(pk, now)
           <= Full + now + set_back[pk] + Elapsed(Bucket(pk, now).last, now)
<1>1. set_back[pk] \in Nat
  BY DEF TypeOK
<1>2. CASE attest_buckets[pk] = None
  <2>1. Bucket(pk, now).last = now
    BY <1>2 DEF Bucket
  <2>2. Refilled(pk, now) \in 0 .. Full
    BY RefilledProps
  <2> QED BY <1>1, <1>2, <2>1, <2>2, FullNat, BoundAssumption DEF Elapsed
<1>3. CASE attest_buckets[pk] # None
  <2>1. Bucket(pk, now) = attest_buckets[pk]
    BY <1>3 DEF Bucket
  <2>2. attest_buckets[pk].tokens \in 0 .. Full /\ attest_buckets[pk].last \in 0 .. MaxClock
    BY <1>3 DEF TypeOK, Buckets
  <2>3. /\ Refilled(pk, now) \in 0 .. Full
        /\ Refilled(pk, now) <= attest_buckets[pk].tokens + Elapsed(now, attest_buckets[pk].last)
    BY <2>1, RefilledProps
  <2> QED BY <1>1, <1>3, <2>1, <2>2, <2>3, FullNat, BoundAssumption DEF Elapsed
<1> QED BY <1>2, <1>3

\* Every step keeps the accounts.
LEMMA AccountStep ==
  ASSUME TypeOK, Readings, Account, [Next]_vars
  PROVE  Account'
<1>1. CASE Tick
  BY <1>1 DEF Tick, Account
<1>2. ASSUME NEW c \in Callers, NEW pk \in Pubkeys, ReadClock(c, pk)
      PROVE  Account'
  BY <1>2 DEF ReadClock, Account
<1>3. ASSUME NEW c \in Callers, Grant(c)
      PROVE  Account'
  <2> DEFINE pk == call[c].pk
             now == call[c].now
             left == Refilled(pk, now) - PERIOD
             n == Len(grants[pk]) * PERIOD
  <2>1. call[c] # None /\ StoreBucket(pk, now, left) /\ Return(c)
    BY <1>3 DEF Grant
  <2>2. pk \in Pubkeys /\ now \in 0 .. MaxClock
    BY <2>1 DEF TypeOK, Calls
  <2>3. left \in 0 .. Full /\ Refilled(pk, now) \in 0 .. Full
    BY <1>3, <2>2, RefilledProps, BurstAssumption, FullNat DEF Grant
  <2>4. /\ grants'[pk] = Append(grants[pk], now)
        /\ \A q \in Pubkeys \ {pk} : grants'[q] = grants[q]
    BY <1>3, <2>2 DEF Grant, TypeOK
  <2>5. /\ Len(grants[pk]) \in Nat /\ Len(grants'[pk]) = Len(grants[pk]) + 1
        /\ Len(grants'[pk]) * PERIOD = n + PERIOD /\ n \in Nat
    <3>1. Len(grants[pk]) \in Nat /\ Len(grants'[pk]) = Len(grants[pk]) + 1
      BY <2>2, <2>4 DEF TypeOK
    <3>2. \A x \in Nat : (x + 1) * PERIOD = x * PERIOD + PERIOD /\ x * PERIOD \in Nat
      BY BurstAssumption
    <3> QED BY <3>1, <3>2
  <2>6. IF attest_buckets[pk] = None THEN n = 0
        ELSE n + attest_buckets[pk].tokens <= Full + attest_buckets[pk].last + set_back[pk]
    BY <2>2, BurstAssumption DEF Account
  <2>7. n + Refilled(pk, now)
          <= Full + now + set_back[pk] + Elapsed(Bucket(pk, now).last, now)
    <3> HIDE DEF n
    <3> QED BY <2>2, <2>5, <2>6, Balance
  <2>8. /\ attest_buckets'[pk] # None
        /\ attest_buckets'[pk].tokens = left /\ attest_buckets'[pk].last = now
        /\ set_back'[pk] = set_back[pk] + Elapsed(Bucket(pk, now).last, now)
        /\ \A q \in Pubkeys \ {pk} : /\ attest_buckets'[q] = attest_buckets[q]
                                     /\ set_back'[q] = set_back[q]
    <3> HIDE DEF left
    <3> QED BY <2>1, <2>3, CallProps
  <2>9. Len(grants'[pk]) * PERIOD + left <= Full + now + set_back'[pk]
    <3>1. Elapsed(Bucket(pk, now).last, now) \in Int /\ set_back[pk] \in Int /\ now \in Int
      <4>1. Bucket(pk, now).last \in 0 .. MaxClock
        BY <2>2, RefilledProps DEF Buckets
      <4> QED BY <2>2, <4>1, BoundAssumption DEF Elapsed, TypeOK
    <3> HIDE DEF n, pk, now
    <3>2. Len(grants'[pk]) * PERIOD = n + PERIOD
      BY <2>5
    <3>3. n + PERIOD + left <= Full + now + set_back'[pk]
      <4>1. n \in Int /\ Refilled(pk, now) \in Int /\ Full \in Int
        BY <2>3, <2>5, FullNat
      <4>2. set_back'[pk] = set_back[pk] + Elapsed(Bucket(pk, now).last, now)
        BY <2>8
      <4>3. \A m, a, f, w, b, d \in Int :
              m + a <= f + w + b + d => m + PERIOD + (a - PERIOD) <= f + w + (b + d)
        BY BurstAssumption
      <4> QED BY <2>7, <3>1, <4>1, <4>2, <4>3, Zenon
    <3> QED BY <3>2, <3>3, Zenon
  <2> HIDE DEF left, n
  <2> QED BY <2>2, <2>4, <2>8, <2>9 DEF Account
<1>4. ASSUME NEW c \in Callers, Refuse(c)
      PROVE  Account'
  <2> DEFINE pk == call[c].pk
             now == call[c].now
             left == Refilled(pk, now)
             n == Len(grants[pk]) * PERIOD
  <2>1. call[c] # None /\ StoreBucket(pk, now, left) /\ Return(c) /\ grants' = grants
    BY <1>4 DEF Refuse
  <2>2. pk \in Pubkeys /\ now \in 0 .. MaxClock
    BY <2>1 DEF TypeOK, Calls
  <2>3. left \in 0 .. Full
    BY <2>2, RefilledProps
  <2>5. n \in Nat
    <3>1. Len(grants[pk]) \in Nat
      BY <2>2 DEF TypeOK
    <3> QED BY <3>1, BurstAssumption
  <2>6. IF attest_buckets[pk] = None THEN n = 0
        ELSE n + attest_buckets[pk].tokens <= Full + attest_buckets[pk].last + set_back[pk]
    BY <2>2, BurstAssumption DEF Account
  <2>7. n + left <= Full + now + set_back[pk] + Elapsed(Bucket(pk, now).last, now)
    <3> HIDE DEF n
    <3> QED BY <2>2, <2>5, <2>6, Balance
  <2>8. /\ attest_buckets'[pk] # None
        /\ attest_buckets'[pk].tokens = left /\ attest_buckets'[pk].last = now
        /\ set_back'[pk] = set_back[pk] + Elapsed(Bucket(pk, now).last, now)
        /\ \A q \in Pubkeys \ {pk} : /\ attest_buckets'[q] = attest_buckets[q]
                                     /\ set_back'[q] = set_back[q]
    <3> HIDE DEF left
    <3> QED BY <2>1, <2>3, CallProps
  <2>9. n + left <= Full + now + set_back'[pk]
    <3>1. Elapsed(Bucket(pk, now).last, now) \in Int /\ set_back[pk] \in Int /\ now \in Int
      <4>1. Bucket(pk, now).last \in 0 .. MaxClock
        BY <2>2, RefilledProps DEF Buckets
      <4> QED BY <2>2, <4>1, BoundAssumption DEF Elapsed, TypeOK
    <3> HIDE DEF n, pk, now, left
    <3> QED BY <2>3, <2>5, <2>7, <2>8, <3>1, FullNat
  <2> HIDE DEF left
  <2> QED BY <2>1, <2>2, <2>8, <2>9 DEF Account
<1>5. CASE UNCHANGED vars
  BY <1>5 DEF vars, Account
<1> QED BY <1>1, <1>2, <1>3, <1>4, <1>5 DEF Next

\* However many calls overtake each other between reading the clock and
\* taking the lock, a member is granted at most a burst, the refill of the
\* time elapsed, and the time the bucket's last refill was moved back.
THEOREM ExcessAlwaysBounded == Spec => []ExcessBound
<1>1. Init => Account
  <2> SUFFICES ASSUME Init, NEW pk \in Pubkeys
               PROVE  attest_buckets[pk] = None /\ Len(grants[pk]) = 0
    BY DEF Account
  <2> QED BY DEF Init
<1>2. TypeOK /\ Readings /\ Account /\ [Next]_vars => Account'
  BY AccountStep
<1>3. TypeOK /\ Readings /\ Account => ExcessBound
  <2> SUFFICES ASSUME TypeOK, Readings, Account, NEW pk \in Pubkeys
               PROVE  Len(grants[pk]) * PERIOD <= Full + clock + set_back[pk]
    BY DEF ExcessBound
  <2>0. Len(grants[pk]) \in Nat /\ clock \in Nat /\ set_back[pk] \in Nat
    BY BoundAssumption DEF TypeOK
  <2>1. Len(grants[pk]) * PERIOD \in Nat
    BY <2>0, BurstAssumption
  <2>2. CASE attest_buckets[pk] = None
    <3>1. Len(grants[pk]) = 0
      BY <2>2 DEF Account
    <3>2. Len(grants[pk]) * PERIOD = 0
      BY <3>1, BurstAssumption
    <3> QED BY <2>0, <3>2, FullNat
  <2>3. CASE attest_buckets[pk] # None
    <3>1. attest_buckets[pk].tokens \in 0 .. Full /\ attest_buckets[pk].last \in 0 .. MaxClock
      BY <2>3 DEF TypeOK, Buckets
    <3>2. attest_buckets[pk].last <= clock
      BY <2>3 DEF Readings
    <3>3. Len(grants[pk]) * PERIOD + attest_buckets[pk].tokens
            <= Full + attest_buckets[pk].last + set_back[pk]
      BY <2>3 DEF Account
    <3> DEFINE n == Len(grants[pk]) * PERIOD
    <3>4. n \in Nat /\ n + attest_buckets[pk].tokens
                        <= Full + attest_buckets[pk].last + set_back[pk]
      BY <2>1, <3>3
    <3> HIDE DEF n
    <3>5. n <= Full + clock + set_back[pk]
      <4>1. \A m, t, f, l, k, b \in Nat : m + t <= f + l + b /\ l <= k => m <= f + k + b
        OBVIOUS
      <4>2. attest_buckets[pk].tokens \in Nat /\ attest_buckets[pk].last \in Nat /\ Full \in Nat
        BY <3>1, FullNat, BoundAssumption
      <4> QED BY <2>0, <3>2, <3>4, <4>1, <4>2
    <3> QED BY <3>5 DEF n
  <2> QED BY <2>2, <2>3
<1> QED BY <1>1, <1>2, <1>3, LimiterTypes, PTL DEF Spec

-----------------------------------------------------------------------------
(* Calls that pass the lock in the order they read the clock *)

\* What k granted calls cost, in units.
Cost(k) == k * PERIOD

LEMMA CostProps == \A k \in Nat : Cost(k) \in Nat /\ Cost(k + 1) = Cost(k) + PERIOD
BY BurstAssumption DEF Cost

\* Every run of grants is within the burst and the refill of the time it
\* spans; a run up to the present leaves room for the tokens in the bucket.
Paced(g, tokens, last) ==
  /\ \A i \in 1 .. Len(g) : Cost(Len(g) - i + 1) + tokens <= Full + (last - g[i])
  /\ \A i, j \in 1 .. Len(g) : i <= j => Cost(j - i + 1) <= Full + (g[j] - g[i])

PacedInOrder ==
  \A pk \in Pubkeys : set_back[pk] = 0 =>
    IF attest_buckets[pk] = None THEN Len(grants[pk]) = 0
    ELSE Paced(grants[pk], attest_buckets[pk].tokens, attest_buckets[pk].last)

\* A refill up to now, and a grant out of it, keep every run paced.
LEMMA Pacing ==
  ASSUME NEW g \in Seq(0 .. MaxClock), NEW tokens \in Nat, NEW last \in Nat, NEW now \in 0 .. MaxClock,
         NEW r \in 0 .. Full, r <= tokens + (now - last), Paced(g, tokens, last)
  PROVE  /\ Paced(g, r, now)
         /\ r >= PERIOD => Paced(Append(g, now), r - PERIOD, now)
<1>1. \A i \in 1 .. Len(g) : Len(g) - i + 1 \in Nat /\ g[i] \in Nat
  BY BoundAssumption
<1>2. Full \in Nat /\ PERIOD \in Nat /\ r \in Nat /\ now \in Nat
  BY FullNat, BurstAssumption, BoundAssumption
<1>3. ASSUME NEW i \in 1 .. Len(g)
      PROVE  Cost(Len(g) - i + 1) + r <= Full + (now - g[i])
  <2>1. Cost(Len(g) - i + 1) + tokens <= Full + (last - g[i])
    BY DEF Paced
  <2>2. PICK k \in Nat : k = Cost(Len(g) - i + 1)
    BY <1>1, CostProps
  <2>3. \A c, x \in Nat : c + tokens <= Full + (last - x) => c + r <= Full + (now - x)
    BY <1>2
  <2> QED BY <1>1, <2>1, <2>2, <2>3
<1>4. Paced(g, r, now)
  BY <1>3 DEF Paced
<1>5. ASSUME r >= PERIOD
      PROVE  Paced(Append(g, now), r - PERIOD, now)
  <2> DEFINE h == Append(g, now)
             n == Len(g) + 1
  <2>1. /\ Len(h) = n /\ h[n] = now /\ n \in Nat
        /\ \A i \in 1 .. Len(g) : h[i] = g[i]
    OBVIOUS
  <2> HIDE DEF h
  <2>2. ASSUME NEW i \in 1 .. n
        PROVE  Cost(n - i + 1) + (r - PERIOD) <= Full + (now - h[i])
    <3>1. CASE i = n
      <4>1. n - i + 1 = 1
        BY <3>1, <2>1
      <4>2. Cost(1) = PERIOD
        BY BurstAssumption DEF Cost
      <4> QED BY <1>2, <2>1, <3>1, <4>1, <4>2
    <3>2. CASE i # n
      <4>1. i \in 1 .. Len(g) /\ n - i + 1 = (Len(g) - i + 1) + 1
        BY <3>2, <2>1
      <4>2. PICK k \in Nat : k = Cost(Len(g) - i + 1)
        BY <1>1, <4>1, CostProps
      <4>3. Cost(n - i + 1) = k + PERIOD
        BY <1>1, <4>1, <4>2, CostProps
      <4>4. k + r <= Full + (now - h[i]) /\ h[i] \in Nat
        BY <1>1, <1>3, <2>1, <4>1, <4>2
      <4> QED BY <1>2, <4>3, <4>4
    <3> QED BY <3>1, <3>2
  <2>3. ASSUME NEW i \in 1 .. n, NEW j \in 1 .. n, i <= j
        PROVE  Cost(j - i + 1) <= Full + (h[j] - h[i])
    <3>1. CASE j = n
      <4>1. h[i] \in Nat /\ n - i + 1 \in Nat
        BY <1>1, <1>2, <2>1
      <4>2. PICK k \in Nat : k = Cost(n - i + 1)
        BY <4>1, CostProps
      <4>3. k + (r - PERIOD) <= Full + (now - h[i])
        BY <2>2, <4>2
      <4>4. k <= Full + (now - h[i])
        BY <1>2, <1>5, <4>1, <4>3
      <4> QED BY <2>1, <3>1, <4>2, <4>4
    <3>2. CASE j # n
      <4>1. i \in 1 .. Len(g) /\ j \in 1 .. Len(g)
        BY <3>2, <2>3, <2>1
      <4> QED BY <2>1, <2>3, <4>1 DEF Paced
    <3> QED BY <3>1, <3>2
  <2>4. Paced(h, r - PERIOD, now)
    BY <2>1, <2>2, <2>3 DEF Paced
  <2> QED BY <2>4 DEF h
<1> QED BY <1>4, <1>5

\* One critical section of a member never set back.
LEMMA PacedCall ==
  ASSUME TypeOK, PacedInOrder, NEW pk \in Pubkeys, NEW now \in 0 .. MaxClock, set_back[pk] = 0,
         Elapsed(Bucket(pk, now).last, now) = 0
  PROVE  /\ Paced(grants[pk], Refilled(pk, now), now)
         /\ Refilled(pk, now) >= PERIOD =>
              Paced(Append(grants[pk], now), Refilled(pk, now) - PERIOD, now)
<1> DEFINE b == Bucket(pk, now)
           r == Refilled(pk, now)
<1>1. grants[pk] \in Seq(0 .. MaxClock)
  BY DEF TypeOK
<1>2. b.tokens \in 0 .. Full /\ b.last \in 0 .. MaxClock /\ r \in 0 .. Full
      /\ r <= b.tokens + Elapsed(now, b.last)
  BY RefilledProps DEF Buckets
<1>3. Paced(grants[pk], b.tokens, b.last)
  <2>1. CASE attest_buckets[pk] = None
    <3>1. Len(grants[pk]) = 0
      BY <2>1 DEF PacedInOrder
    <3> QED BY <3>1 DEF Paced
  <2>2. CASE attest_buckets[pk] # None
    BY <2>2 DEF PacedInOrder, Bucket
  <2> QED BY <2>1, <2>2
<1> HIDE DEF b, r
<1>4. r <= b.tokens + (now - b.last) /\ b.tokens \in Nat /\ b.last \in Nat
  <2>1. Elapsed(b.last, now) = 0
    BY DEF b
  <2> QED BY <1>2, <2>1, FullNat, BoundAssumption DEF Elapsed
<1>5. Paced(grants[pk], r, now) /\ (r >= PERIOD => Paced(Append(grants[pk], now), r - PERIOD, now))
  BY <1>1, <1>2, <1>3, <1>4, Pacing
<1> QED BY <1>5 DEF r

\* Every step keeps the runs of members never set back paced.
LEMMA PacedStep ==
  ASSUME TypeOK, PacedInOrder, [Next]_vars
  PROVE  PacedInOrder'
<1>1. CASE Tick
  BY <1>1 DEF Tick, PacedInOrder
<1>2. ASSUME NEW c \in Callers, NEW pk \in Pubkeys, ReadClock(c, pk)
      PROVE  PacedInOrder'
  BY <1>2 DEF ReadClock, PacedInOrder
<1>3. ASSUME NEW c \in Callers, NEW left \in 0 .. Full, call[c] # None,
             StoreBucket(call[c].pk, call[c].now, left), Return(c),
             \A q \in Pubkeys \ {call[c].pk} : grants'[q] = grants[q],
             /\ set_back[call[c].pk] = 0
             /\ Elapsed(Bucket(call[c].pk, call[c].now).last, call[c].now) = 0
             => Paced(grants'[call[c].pk], left, call[c].now)
      PROVE  PacedInOrder'
  <2> DEFINE pk == call[c].pk
             now == call[c].now
             e == Elapsed(Bucket(pk, now).last, now)
  <2>1. /\ pk \in Pubkeys /\ now \in 0 .. MaxClock
        /\ attest_buckets'[pk] # None
        /\ attest_buckets'[pk].tokens = left /\ attest_buckets'[pk].last = now
        /\ set_back'[pk] = set_back[pk] + e
        /\ \A q \in Pubkeys \ {pk} : /\ attest_buckets'[q] = attest_buckets[q]
                                     /\ set_back'[q] = set_back[q]
    BY <1>3, CallProps
  <2>2. e \in Nat /\ set_back[pk] \in Nat
    <3>1. Bucket(pk, now).last \in 0 .. MaxClock
      BY <2>1, RefilledProps DEF Buckets
    <3> QED BY <2>1, <3>1, BoundAssumption DEF Elapsed, TypeOK
  <2>3. set_back'[pk] = 0 => set_back[pk] = 0 /\ e = 0
    <3> HIDE DEF e
    <3> QED BY <2>1, <2>2
  <2>4. set_back'[pk] = 0 => Paced(grants'[pk], left, now)
    BY <1>3, <2>3
  <2> SUFFICES ASSUME NEW q \in Pubkeys, set_back'[q] = 0
               PROVE  IF attest_buckets'[q] = None THEN Len(grants'[q]) = 0
                      ELSE Paced(grants'[q], attest_buckets'[q].tokens, attest_buckets'[q].last)
    BY DEF PacedInOrder, Paced, Cost, Full
  <2>5. CASE q = pk
    BY <2>1, <2>4, <2>5
  <2>6. CASE q # pk
    BY <1>3, <2>1, <2>6 DEF PacedInOrder
  <2> QED BY <2>5, <2>6
<1>4. ASSUME NEW c \in Callers, Grant(c)
      PROVE  PacedInOrder'
  <2> DEFINE pk == call[c].pk
             now == call[c].now
             left == Refilled(pk, now) - PERIOD
  <2>1. /\ call[c] # None /\ StoreBucket(pk, now, left) /\ Return(c)
        /\ Refilled(pk, now) >= PERIOD
    BY <1>4 DEF Grant
  <2>2. pk \in Pubkeys /\ now \in 0 .. MaxClock
    BY <2>1 DEF TypeOK, Calls
  <2>3. left \in 0 .. Full
    BY <2>1, <2>2, RefilledProps, BurstAssumption, FullNat
  <2>4. /\ grants'[pk] = Append(grants[pk], now)
        /\ \A q \in Pubkeys \ {pk} : grants'[q] = grants[q]
    BY <1>4, <2>2 DEF Grant, TypeOK
  <2>5. set_back[pk] = 0 /\ Elapsed(Bucket(pk, now).last, now) = 0
          => Paced(grants'[pk], left, now)
    BY <2>1, <2>2, <2>4, PacedCall
  <2> HIDE DEF left
  <2> QED BY <1>3, <2>1, <2>3, <2>4, <2>5
<1>5. ASSUME NEW c \in Callers, Refuse(c)
      PROVE  PacedInOrder'
  <2> DEFINE pk == call[c].pk
             now == call[c].now
             left == Refilled(pk, now)
  <2>1. call[c] # None /\ StoreBucket(pk, now, left) /\ Return(c) /\ grants' = grants
    BY <1>5 DEF Refuse
  <2>2. pk \in Pubkeys /\ now \in 0 .. MaxClock
    BY <2>1 DEF TypeOK, Calls
  <2>3. left \in 0 .. Full
    BY <2>2, RefilledProps
  <2>4. set_back[pk] = 0 /\ Elapsed(Bucket(pk, now).last, now) = 0
          => Paced(grants'[pk], left, now)
    BY <2>1, <2>2, PacedCall
  <2> HIDE DEF left
  <2> QED BY <1>3, <2>1, <2>3, <2>4
<1>6. CASE UNCHANGED vars
  BY <1>6 DEF vars, PacedInOrder
<1> QED BY <1>1, <1>2, <1>4, <1>5, <1>6 DEF Next

\* "sustained 1 per 10s after the burst" (state.rs): the documented rate holds
\* of every member whose calls took the lock in the order of their readings.
THEOREM RateAlwaysBoundInOrder == Spec => []RateBoundInOrder
<1>1. Init => PacedInOrder
  <2> SUFFICES ASSUME Init, NEW pk \in Pubkeys
               PROVE  attest_buckets[pk] = None /\ Len(grants[pk]) = 0
    BY DEF PacedInOrder
  <2> QED BY DEF Init
<1>2. TypeOK /\ PacedInOrder /\ [Next]_vars => PacedInOrder'
  BY PacedStep
<1>3. TypeOK /\ PacedInOrder => RateBoundInOrder
  <2> SUFFICES ASSUME TypeOK, PacedInOrder, NEW pk \in Pubkeys, set_back[pk] = 0,
                      NEW i \in DOMAIN grants[pk], NEW j \in DOMAIN grants[pk], i <= j
               PROVE  (j - i + 1) * PERIOD <= Full + (grants[pk][j] - grants[pk][i])
    BY DEF RateBoundInOrder, Sustained
  <2>1. DOMAIN grants[pk] = 1 .. Len(grants[pk]) /\ Len(grants[pk]) \in Nat
    BY DEF TypeOK
  <2>2. attest_buckets[pk] # None
    BY <2>1 DEF PacedInOrder
  <2>3. Cost(j - i + 1) <= Full + (grants[pk][j] - grants[pk][i])
    BY <2>1, <2>2 DEF PacedInOrder, Paced
  <2> QED BY <2>3 DEF Cost
<1> QED BY <1>1, <1>2, <1>3, LimiterTypes, PTL DEF Spec

\* A refused call had read the clock less than PERIOD seconds after the
\* member's last refill, so a patient member is always served.
THEOREM PatientAlwaysServed == Spec => PatientIsServed
<1>1. ASSUME TypeOK, Next, NEW c \in Callers, call[c] # None, call'[c] = None, grants' = grants
      PROVE  /\ attest_buckets[call[c].pk] # None
             /\ call[c].now < attest_buckets[call[c].pk].last + PERIOD
  <2> DEFINE pk == call[c].pk
             now == call[c].now
  <2>0. pk \in Pubkeys /\ now \in 0 .. MaxClock
    BY <1>1 DEF TypeOK, Calls
  <2>1. ~Tick
    BY <1>1 DEF Tick
  <2>2. \A d \in Callers, q \in Pubkeys : ~ReadClock(d, q)
    BY <1>1 DEF ReadClock, TypeOK
  <2>3. ASSUME NEW d \in Callers, Grant(d) PROVE FALSE
    <3>1. call[d].pk \in Pubkeys /\ call[d].now \in 0 .. MaxClock
      BY <1>1, <2>3 DEF Grant, TypeOK, Calls
    <3>2. grants[call[d].pk] = Append(grants[call[d].pk], call[d].now)
      BY <1>1, <2>3, <3>1 DEF Grant, TypeOK
    <3>3. grants[call[d].pk] \in Seq(0 .. MaxClock)
      BY <1>1, <3>1 DEF TypeOK
    <3> QED BY <3>1, <3>2, <3>3
  <2>4. PICK d \in Callers : Refuse(d)
    BY <1>1, <2>1, <2>2, <2>3 DEF Next
  <2>5. d = c
    BY <1>1, <2>4 DEF Refuse, Return, TypeOK
  <2>6. Refilled(pk, now) < PERIOD
    BY <2>4, <2>5 DEF Refuse
  <2>7. /\ Refilled(pk, now) = Bucket(pk, now).tokens + Elapsed(now, Bucket(pk, now).last)
        /\ Bucket(pk, now).tokens \in 0 .. Full /\ Bucket(pk, now).last \in 0 .. MaxClock
    BY <1>1, <2>0, <2>6, RefilledProps, FullNat, BurstAssumption DEF Buckets
  <2>8. Bucket(pk, now).tokens < PERIOD /\ now < Bucket(pk, now).last + PERIOD
    BY <2>0, <2>6, <2>7, FullNat, BurstAssumption, BoundAssumption DEF Elapsed
  <2>9. attest_buckets[pk] # None
    BY <2>8, FullNat, BurstAssumption DEF Bucket
  <2> QED BY <2>8, <2>9 DEF Bucket
<1>2. TypeOK /\ [Next]_vars =>
        [\A c \in Callers :
           call[c] # None /\ call'[c] = None /\ grants' = grants =>
             /\ attest_buckets[call[c].pk] # None
             /\ call[c].now < attest_buckets[call[c].pk].last + PERIOD]_vars
  BY <1>1
<1> QED BY <1>2, LimiterTypes, PTL DEF Spec, PatientIsServed
=============================================================================
