--------------------------- MODULE AttestLimiter ---------------------------
(***************************************************************************)
(* MemberStore::allow_attestation of src/src/state.rs: the token bucket    *)
(* that limits /attestation per member.  The method reads the clock first  *)
(* and takes the write lock second, so a call is two steps and calls may   *)
(* pass the lock in another order than they read the clock.                *)
(*                                                                         *)
(* Time is in seconds.  A bucket counts in refills per second: one token   *)
(* is PERIOD units (1 / ATTEST_REFILL_PER_SEC), a full bucket is BURST     *)
(* tokens.  The f64 arithmetic is taken to be exact.                       *)
(***************************************************************************)
EXTENDS Integers, Sequences

CONSTANTS
  Pubkeys,
  Callers,   \* handlers that may be inside allow_attestation at a time
  BURST,     \* ATTEST_BURST, in tokens
  PERIOD,    \* seconds in which one token refills
  MaxClock,  \* bound: the clock stops here
  MaxCalls,  \* bound: grants recorded per pubkey
  None

ASSUME BurstAssumption == BURST \in Nat \ {0} /\ PERIOD \in Nat \ {0}
ASSUME BoundAssumption == MaxClock \in Nat /\ MaxCalls \in Nat

Full == BURST * PERIOD
Calls == [pk : Pubkeys, now : 0 .. MaxClock]
Buckets == [tokens : 0 .. Full, last : 0 .. MaxClock]

ASSUME NoneAssumption == None \notin Calls /\ None \notin Buckets

VARIABLES
  clock,           \* Instant::now()
  attest_buckets,  \* pubkey -> (tokens, last refill)
  call,            \* caller -> the call it is in, with the time it has read
  grants,          \* history: pubkey -> the times its granted calls had read
  set_back         \* history: pubkey -> seconds its last refill was moved back

vars == <<clock, attest_buckets, call, grants, set_back>>

Init ==
  /\ clock = 0
  /\ attest_buckets = [pk \in Pubkeys |-> None]
  /\ call = [c \in Callers |-> None]
  /\ grants = [pk \in Pubkeys |-> <<>>]
  /\ set_back = [pk \in Pubkeys |-> 0]

Tick ==
  /\ clock < MaxClock
  /\ clock' = clock + 1
  /\ UNCHANGED <<attest_buckets, call, grants, set_back>>

ReadClock(c, pk) ==
  /\ call[c] = None
  /\ Len(grants[pk]) < MaxCalls
  /\ call' = [call EXCEPT ![c] = [pk |-> pk, now |-> clock]]
  /\ UNCHANGED <<clock, attest_buckets, grants, set_back>>

\* Faulty variant: no min with the burst.
Uncapped(n) == n

Capped(n) == IF n > Full THEN Full ELSE n

\* Instant::duration_since saturates at zero.
Elapsed(now, last) == IF now > last THEN now - last ELSE 0

\* The bucket as the entry() call finds or makes it.
Bucket(pk, now) ==
  IF attest_buckets[pk] = None THEN [tokens |-> Full, last |-> now] ELSE attest_buckets[pk]

\* Faulty variant: twice the refill rate.
RefilledTwice(pk, now) ==
  Capped(Bucket(pk, now).tokens + 2 * Elapsed(now, Bucket(pk, now).last))

\* Faulty variant: no refill.
NotRefilled(pk, now) == Bucket(pk, now).tokens

Refilled(pk, now) ==
  Capped(Bucket(pk, now).tokens + Elapsed(now, Bucket(pk, now).last))

\* last moves to now, forwards or back.
StoreBucket(pk, now, tokens) ==
  attest_buckets' = [attest_buckets EXCEPT ![pk] = [tokens |-> tokens, last |-> now]]

Return(c) ==
  LET pk == call[c].pk
      now == call[c].now
  IN  /\ call' = [call EXCEPT ![c] = None]
      /\ set_back' = [set_back EXCEPT ![pk] = @ + Elapsed(Bucket(pk, now).last, now)]
      /\ UNCHANGED clock

\* The critical section and its two outcomes.
Grant(c) ==
  LET pk == call[c].pk
      now == call[c].now
  IN  /\ call[c] # None
      /\ Refilled(pk, now) >= PERIOD
      /\ StoreBucket(pk, now, Refilled(pk, now) - PERIOD)
      /\ grants' = [grants EXCEPT ![pk] = Append(@, now)]
      /\ Return(c)

Refuse(c) ==
  LET pk == call[c].pk
      now == call[c].now
  IN  /\ call[c] # None
      /\ Refilled(pk, now) < PERIOD
      /\ StoreBucket(pk, now, Refilled(pk, now))
      /\ Return(c)
      /\ UNCHANGED grants

Next ==
  \/ Tick
  \/ \E c \in Callers, pk \in Pubkeys : ReadClock(c, pk)
  \/ \E c \in Callers : Grant(c) \/ Refuse(c)

Spec == Init /\ [][Next]_vars

-----------------------------------------------------------------------------
(* Properties *)

TypeOK ==
  /\ clock \in 0 .. MaxClock
  /\ attest_buckets \in [Pubkeys -> Buckets \cup {None}]
  /\ call \in [Callers -> Calls \cup {None}]
  /\ grants \in [Pubkeys -> Seq(0 .. MaxClock)]
  /\ set_back \in [Pubkeys -> Nat]

\* A run of granted calls whose times lie between the first and the last of
\* them is at most a burst and one call per PERIOD elapsed.
Sustained(pk) ==
  \A i, j \in DOMAIN grants[pk] :
    LET g == grants[pk]
    IN  i <= j /\ (\A k \in i .. j : g[k] \in g[i] .. g[j])
          => (j - i + 1) * PERIOD <= Full + (g[j] - g[i])

\* "sustained 1 per 10s after the burst" (state.rs), for every member.
RateBound == \A pk \in Pubkeys : Sustained(pk)

\* The documented rate holds of every member whose calls have entered the
\* critical section in the order in which they read the clock.
RateBoundInOrder == \A pk \in Pubkeys : set_back[pk] = 0 => Sustained(pk)

\* What the bucket guarantees when calls overtake each other between the
\* clock and the lock: the calls granted so far exceed the burst and the
\* refill of the time elapsed by no more than the time overtaken calls
\* moved the last refill back.
ExcessBound ==
  \A pk \in Pubkeys : Len(grants[pk]) * PERIOD <= Full + clock + set_back[pk]

\* A call that is refused read the clock less than PERIOD seconds after the
\* member's previous call: a patient member is always served, whatever the
\* others do.
PatientIsServed ==
  [][\A c \in Callers :
       call[c] # None /\ call'[c] = None /\ grants' = grants =>
         /\ attest_buckets[call[c].pk] # None
         /\ call[c].now < attest_buckets[call[c].pk].last + PERIOD]_vars
=============================================================================
