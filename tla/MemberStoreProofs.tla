------------------------- MODULE MemberStoreProofs -------------------------
(***************************************************************************)
(* Proofs about MemberStore, for every cohort, every cap and any number of *)
(* bearers.                                                                *)
(***************************************************************************)
EXTENDS MemberStore, SequenceTheorems, TLAPS

\* No session list holds a bearer twice.
Injective(s) == \A i, j \in 1 .. Len(s) : s[i] = s[j] => i = j

\* Every listed bearer has been minted, so the next one drawn is new.
ListedAreMinted ==
  \A pk \in Pubkeys : \A t \in Range(Sessions(pk)) : ~Fresh(t)

\* The inductive invariant of the two maps.
StoreInv == TypeOK /\ IndexCoherent /\ SlotsBounded /\ ListedAreMinted

-----------------------------------------------------------------------------
(* Session lists *)

\* The elements of a list are its values at 1..Len.
LEMMA RangeLen ==
  ASSUME NEW S, NEW s \in Seq(S)
  PROVE  /\ Range(s) = {s[i] : i \in 1 .. Len(s)}
         /\ DOMAIN s = 1 .. Len(s)
         /\ Range(s) \subseteq S
BY DEF Range

\* The pop_front loop of insert: what is left is the suffix of at most
\* DEVICE_CAP elements, and every element is either left or popped.
LEMMA NewestProps ==
  ASSUME NEW s \in Seq(Tokens)
  PROVE  /\ Newest(s) \in Seq(Tokens)
         /\ Len(Newest(s)) <= DEVICE_CAP
         /\ Len(s) > 0 => Len(Newest(s)) > 0
         /\ Injective(s) => Injective(Newest(s))
         /\ Range(Newest(s)) \cup Evicted(s) = Range(s)
         /\ Injective(s) => Range(Newest(s)) \cap Evicted(s) = {}
<1>1. CASE Len(s) > DEVICE_CAP
  <2> DEFINE off == Len(s) - DEVICE_CAP
             n == Newest(s)
  <2>1. n = SubSeq(s, off + 1, Len(s))
    BY <1>1 DEF Newest
  <2>2. /\ n \in Seq(Tokens)
        /\ Len(n) = DEVICE_CAP
        /\ \A i \in 1 .. DEVICE_CAP : n[i] = s[off + i]
    BY <2>1, <1>1, CapAssumption, SubSeqProperties
  <2>3. Range(n) = {s[i] : i \in (off + 1) .. Len(s)}
    <3>1. Range(n) = {n[i] : i \in 1 .. DEVICE_CAP}
      BY <2>2, RangeLen
    <3>2. ASSUME NEW i \in (off + 1) .. Len(s)
          PROVE  i - off \in 1 .. DEVICE_CAP /\ n[i - off] = s[i]
      BY <2>2, <1>1, CapAssumption
    <3>3. ASSUME NEW i \in 1 .. DEVICE_CAP
          PROVE  off + i \in (off + 1) .. Len(s)
      BY <1>1, CapAssumption
    <3>4. \A i \in 1 .. DEVICE_CAP : n[i] \in {s[j] : j \in (off + 1) .. Len(s)}
      BY <3>3, <2>2
    <3>5. \A j \in (off + 1) .. Len(s) : s[j] \in {n[i] : i \in 1 .. DEVICE_CAP}
      BY <3>2
    <3> HIDE DEF n, off
    <3> QED BY <3>1, <3>4, <3>5
  <2>4. Range(s) = {s[i] : i \in 1 .. Len(s)}
    BY RangeLen
  <2>5. Evicted(s) = {s[i] : i \in 1 .. off}
    BY DEF Evicted
  <2>6. off \in Nat /\ off < Len(s) /\ Len(s) \in Nat /\ Len(s) = off + DEVICE_CAP
    BY <1>1, CapAssumption
  <2> HIDE DEF n, off
  <2>7. Range(n) \cup Evicted(s) = Range(s)
    BY <2>3, <2>4, <2>5, <2>6
  <2>8. Injective(s) => Range(n) \cap Evicted(s) = {}
    BY <2>3, <2>5, <2>6 DEF Injective
  <2>9. Injective(s) => Injective(n)
    BY <2>2, <2>6, CapAssumption DEF Injective
  <2> QED
    BY <2>2, <2>7, <2>8, <2>9, <2>6, CapAssumption DEF n
<1>2. CASE ~(Len(s) > DEVICE_CAP)
  BY <1>2, CapAssumption DEF Newest, Evicted
<1> QED BY <1>1, <1>2

\* Appending a bearer that is not listed keeps a list free of repetitions.
LEMMA AppendProps ==
  ASSUME NEW s \in Seq(Tokens), NEW t \in Tokens
  PROVE  /\ Append(s, t) \in Seq(Tokens)
         /\ Len(Append(s, t)) = Len(s) + 1
         /\ Range(Append(s, t)) = Range(s) \cup {t}
         /\ Injective(s) /\ t \notin Range(s) => Injective(Append(s, t))
<1> DEFINE a == Append(s, t)
<1>1. /\ a \in Seq(Tokens) /\ Len(a) = Len(s) + 1 /\ Len(s) \in Nat
      /\ \A i \in 1 .. Len(s) : a[i] = s[i]
      /\ a[Len(s) + 1] = t
  BY AppendProperties
<1>2. Range(a) = {a[i] : i \in 1 .. Len(a)} /\ Range(s) = {s[i] : i \in 1 .. Len(s)}
  BY <1>1, RangeLen
<1> HIDE DEF a
<1>3. Range(a) = Range(s) \cup {t}
  BY <1>1, <1>2
<1>4. Injective(s) /\ t \notin Range(s) => Injective(a)
  BY <1>1, <1>2 DEF Injective
<1> QED BY <1>1, <1>3, <1>4 DEF a

\* The sessions of a pubkey are always a list of bearers.
LEMMA SessionsType ==
  ASSUME TypeOK, NEW pk \in Pubkeys
  PROVE  Sessions(pk) \in Seq(Tokens)
BY NoMemberAssumption DEF TypeOK, Sessions, IsMember, Member

-----------------------------------------------------------------------------
(* The store's steps *)

\* What insert does to the sessions it pushes on, and to all others.
LEMMA EnrollSessions ==
  ASSUME StoreInv, NEW pk \in Pubkeys, NEW h \in Hashes, NEW t \in Tokens,
         Enroll(pk, h, t)
  PROVE  /\ Push(pk, t) \in Seq(Tokens)
         /\ Injective(Push(pk, t))
         /\ Range(Push(pk, t)) = Range(Sessions(pk)) \cup {t}
         /\ t \notin Range(Sessions(pk))
         /\ Len(Push(pk, t)) > 0
         /\ by_pubkey'[pk] \in Member /\ by_pubkey'[pk].member_hash = h
         /\ IsMember(pk)' /\ Sessions(pk)' = Newest(Push(pk, t))
         /\ \A q \in Pubkeys \ {pk} : by_pubkey'[q] = by_pubkey[q] /\ Sessions(q)' = Sessions(q)
<1>1. Sessions(pk) \in Seq(Tokens)
  BY SessionsType DEF StoreInv
<1>2. t \notin Range(Sessions(pk))
  BY DEF StoreInv, ListedAreMinted, Enroll
<1>3. Injective(Sessions(pk))
  <2>1. CASE IsMember(pk)
    BY <2>1, <1>1 DEF StoreInv, SlotsBounded, Injective
  <2>2. CASE ~IsMember(pk)
    BY <2>2 DEF Sessions, Injective
  <2> QED BY <2>1, <2>2
<1>4. /\ Push(pk, t) \in Seq(Tokens)
      /\ Injective(Push(pk, t))
      /\ Range(Push(pk, t)) = Range(Sessions(pk)) \cup {t}
      /\ Len(Push(pk, t)) > 0
  <2>1. Len(Sessions(pk)) \in Nat
    BY <1>1
  <2> QED BY <1>1, <1>2, <1>3, <2>1, AppendProps DEF Push
<1>5. by_pubkey'[pk] = [member_hash |-> h, original_tx_id |-> h[2],
                        sessions |-> Newest(Push(pk, t))]
  BY DEF Enroll, insert, InsertMember, StoreInv, TypeOK
<1>6. by_pubkey'[pk] \in Member
  <2>1. Newest(Push(pk, t)) \in Seq(Tokens)
    BY <1>4, NewestProps
  <2>2. h[2] \in TxIds
    BY DEF Hashes
  <2> QED BY <1>5, <2>1, <2>2 DEF Member
<1>7. IsMember(pk)' /\ Sessions(pk)' = Newest(Push(pk, t))
  BY <1>5, <1>6, NoMemberAssumption DEF IsMember, Sessions
<1>8. ASSUME NEW q \in Pubkeys \ {pk}
      PROVE  by_pubkey'[q] = by_pubkey[q] /\ Sessions(q)' = Sessions(q)
  <2>1. by_pubkey'[q] = by_pubkey[q]
    BY DEF Enroll, insert, InsertMember, StoreInv, TypeOK
  <2> QED BY <2>1 DEF Sessions, IsMember
<1>9. by_pubkey'[pk].member_hash = h
  BY <1>5
<1> QED BY <1>2, <1>4, <1>6, <1>7, <1>8, <1>9

\* Minting a bearer keeps the two maps in agreement.
LEMMA EnrollPreserves ==
  ASSUME StoreInv, NEW pk \in Pubkeys, NEW h \in Hashes, NEW t \in Tokens,
         Enroll(pk, h, t)
  PROVE  StoreInv'
<1> DEFINE s == Sessions(pk)
           a == Push(pk, t)
           n == Newest(a)
<1>a. /\ a \in Seq(Tokens) /\ Injective(a) /\ Len(a) > 0
      /\ Range(a) = Range(s) \cup {t} /\ t \notin Range(s)
      /\ by_pubkey'[pk] \in Member /\ IsMember(pk)' /\ Sessions(pk)' = n
      /\ \A q \in Pubkeys \ {pk} : by_pubkey'[q] = by_pubkey[q] /\ Sessions(q)' = Sessions(q)
  BY EnrollSessions
<1>b. /\ n \in Seq(Tokens) /\ Len(n) <= DEVICE_CAP /\ Len(n) > 0 /\ Injective(n)
      /\ Range(n) \cup Evicted(a) = Range(a)
      /\ Range(n) \cap Evicted(a) = {}
  BY <1>a, NewestProps
<1>c. by_token' = [u \in Tokens |->
        IF u = t THEN pk ELSE IF u \in Evicted(a) THEN None ELSE by_token[u]]
  BY DEF Enroll, insert, InsertIndex
<1>d. /\ minted_as' = [minted_as EXCEPT ![t] = h]
      /\ enrolled' = [enrolled EXCEPT ![pk] = Append(@, t)]
      /\ seen_nonces' = seen_nonces /\ revoked' = revoked
  BY DEF Enroll
<1>e. t \in Range(n)
  \* the pushed bearer is the last one, and at least one is kept
  <2>1. a[Len(a)] = t /\ Len(a) \in Nat
    BY SessionsType DEF StoreInv, Push
  <2>2. \A i \in 1 .. (Len(a) - DEVICE_CAP) : a[i] # t
    BY <2>1, <1>a, CapAssumption DEF Injective
  <2>3. t \notin Evicted(a)
    BY <2>2 DEF Evicted
  <2> QED BY <2>3, <1>a, <1>b
<1> HIDE DEF s, a, n
<1>1. TypeOK'
  <2>1. by_pubkey' \in [Pubkeys -> Member \cup {None}]
    BY <1>a DEF StoreInv, TypeOK, Enroll, insert, InsertMember
  <2>2. by_token' \in [Tokens -> Pubkeys \cup {None}]
    BY <1>c DEF StoreInv, TypeOK
  <2>3. enrolled' \in [Pubkeys -> Seq(Tokens)]
    BY <1>d DEF StoreInv, TypeOK
  <2> QED BY <2>1, <2>2, <2>3, <1>d DEF StoreInv, TypeOK
<1>2. IndexCoherent'
  <2> SUFFICES ASSUME NEW u \in Tokens, NEW q \in Pubkeys
               PROVE  by_token'[u] = q <=> u \in Range(Sessions(q)')
    BY DEF IndexCoherent
  <2>1. /\ by_token[u] = q <=> u \in Range(Sessions(q))
        /\ by_token[u] = pk <=> u \in Range(s)
    BY DEF StoreInv, IndexCoherent, s
  <2>2. t \notin Range(Sessions(q))
    BY DEF StoreInv, ListedAreMinted, Enroll
  <2>3. u \in Evicted(a) => u \in Range(s) \/ u = t
    BY <1>a, <1>b
  <2>4. CASE q = pk
    BY <2>1, <2>3, <2>4, <1>a, <1>b, <1>c, <1>e, NoneAssumption
  <2>5. CASE q # pk
    BY <2>1, <2>2, <2>3, <2>5, <1>a, <1>c, NoneAssumption
  <2> QED BY <2>4, <2>5
<1>3. SlotsBounded'
  <2> SUFFICES ASSUME NEW q \in Pubkeys, IsMember(q)'
               PROVE  /\ Len(Sessions(q)') \in 1 .. DEVICE_CAP
                      /\ \A i, j \in DOMAIN Sessions(q)' :
                            Sessions(q)'[i] = Sessions(q)'[j] => i = j
    BY DEF SlotsBounded
  <2>1. CASE q = pk
    BY <2>1, <1>a, <1>b, CapAssumption DEF Injective
  <2>2. CASE q # pk
    BY <2>2, <1>a DEF StoreInv, SlotsBounded, IsMember
  <2> QED BY <2>1, <2>2
<1>4. ListedAreMinted'
  <2> SUFFICES ASSUME NEW q \in Pubkeys, NEW u \in Range(Sessions(q)')
               PROVE  minted_as'[u] # None
    BY DEF ListedAreMinted, Fresh
  <2>1. u \in Range(Sessions(q)) \/ u = t
    BY <1>a, <1>b DEF s
  <2>2. u \in Tokens
    BY <2>1, SessionsType, RangeLen DEF StoreInv
  <2>3. u \in Range(Sessions(q)) => minted_as[u] # None
    BY DEF StoreInv, ListedAreMinted, Fresh
  <2> QED BY <2>1, <2>2, <2>3, <1>d, NoneAssumption DEF StoreInv, TypeOK
<1> QED BY <1>1, <1>2, <1>3, <1>4 DEF StoreInv

\* What removing a member does to the sessions of everybody.
LEMMA RemoveSessions ==
  ASSUME StoreInv, NEW pk \in Pubkeys, IsMember(pk), Remove(pk)
  PROVE  /\ ~IsMember(pk)' /\ Sessions(pk)' = <<>>
         /\ Sessions(pk) = by_pubkey[pk].sessions
         /\ \A q \in Pubkeys \ {pk} : by_pubkey'[q] = by_pubkey[q] /\ Sessions(q)' = Sessions(q)
<1>1. by_pubkey'[pk] = None /\ \A q \in Pubkeys \ {pk} : by_pubkey'[q] = by_pubkey[q]
  BY DEF Remove, StoreInv, TypeOK
<1> QED BY <1>1 DEF Sessions, IsMember

\* Revoking a hash keeps the two maps in agreement.
LEMMA RevokePreserves ==
  ASSUME StoreInv, NEW h \in Hashes, Revoke(h)
  PROVE  StoreInv'
<1>1. ASSUME NEW pk \in Holders(h), Remove(pk), enrolled' = [enrolled EXCEPT ![pk] = <<>>]
      PROVE  StoreInv'
  <2>a. pk \in Pubkeys /\ IsMember(pk)
    BY <1>1 DEF Holders
  <2>b. /\ ~IsMember(pk)' /\ Sessions(pk)' = <<>>
        /\ Sessions(pk) = by_pubkey[pk].sessions
        /\ \A q \in Pubkeys \ {pk} : by_pubkey'[q] = by_pubkey[q] /\ Sessions(q)' = Sessions(q)
    BY <1>1, <2>a, RemoveSessions
  <2>c. Range(Sessions(pk)') = {}
    BY <2>b DEF Range
  <2>1. TypeOK'
    BY <1>1, <2>a DEF StoreInv, TypeOK, Remove, Revoke, IssuedUnder
  <2>2. IndexCoherent'
    <3> SUFFICES ASSUME NEW u \in Tokens, NEW q \in Pubkeys
                 PROVE  by_token'[u] = q <=> u \in Range(Sessions(q)')
      BY DEF IndexCoherent
    <3>1. by_token'[u] = IF u \in Range(Sessions(pk)) THEN None ELSE by_token[u]
      BY <1>1, <2>b DEF Remove
    <3>2. /\ by_token[u] = q <=> u \in Range(Sessions(q))
          /\ by_token[u] = pk <=> u \in Range(Sessions(pk))
      BY <2>a DEF StoreInv, IndexCoherent
    <3>3. CASE q = pk
      BY <3>1, <3>2, <3>3, <2>c, NoneAssumption
    <3>4. CASE q # pk
      BY <3>1, <3>2, <3>4, <2>b, NoneAssumption
    <3> QED BY <3>3, <3>4
  <2>3. SlotsBounded'
    BY <2>a, <2>b DEF StoreInv, SlotsBounded, IsMember
  <2>4. ListedAreMinted'
    BY <2>b, <2>c DEF StoreInv, ListedAreMinted, Fresh, Revoke
  <2> QED BY <2>1, <2>2, <2>3, <2>4 DEF StoreInv
<1>2. CASE UNCHANGED <<by_pubkey, by_token, enrolled>>
  BY <1>2 DEF StoreInv, TypeOK, IndexCoherent, SlotsBounded, ListedAreMinted,
              Sessions, IsMember, Fresh, Revoke, IssuedUnder
<1> QED BY <1>1, <1>2 DEF Revoke

\* The empty store satisfies the invariant: at boot and after a restart.
LEMMA EmptyStore ==
  ASSUME by_pubkey = [pk \in Pubkeys |-> None], by_token = [t \in Tokens |-> None]
  PROVE  IndexCoherent /\ SlotsBounded /\ ListedAreMinted
<1>1. \A pk \in Pubkeys : ~IsMember(pk) /\ Sessions(pk) = <<>> /\ Range(Sessions(pk)) = {}
  BY DEF IsMember, Sessions, Range
<1> QED BY <1>1, NoneAssumption DEF IndexCoherent, SlotsBounded, ListedAreMinted

\* One step of the store, or a stutter, preserves the invariant.
LEMMA StoreStep ==
  ASSUME StoreInv, [Next]_vars
  PROVE  StoreInv'
<1>1. ASSUME NEW pk \in Pubkeys, NEW h \in Hashes, NEW t \in Tokens, Enroll(pk, h, t)
      PROVE  StoreInv'
  BY <1>1, EnrollPreserves
<1>2. ASSUME NEW h \in Hashes, Revoke(h)
      PROVE  StoreInv'
  BY <1>2, RevokePreserves
<1>3. ASSUME NEW n \in Nonces, note_nonce(n)
      PROVE  StoreInv'
  BY <1>3 DEF note_nonce, history, StoreInv, TypeOK, IndexCoherent, SlotsBounded,
              ListedAreMinted, Sessions, IsMember, Fresh
<1>4. CASE Restart
  <2>1. TypeOK'
    BY <1>4 DEF Restart, StoreInv, TypeOK
  <2>2. (IndexCoherent /\ SlotsBounded /\ ListedAreMinted)'
    <3>1. /\ \A pk \in Pubkeys : by_pubkey'[pk] = None
          /\ \A t \in Tokens : by_token'[t] = None
      BY <1>4 DEF Restart
    <3>2. \A pk \in Pubkeys : ~IsMember(pk)' /\ Sessions(pk)' = <<>> /\ Range(Sessions(pk)') = {}
      BY <3>1 DEF IsMember, Sessions, Range
    <3> QED BY <3>1, <3>2, NoneAssumption DEF IndexCoherent, SlotsBounded, ListedAreMinted
  <2> QED BY <2>1, <2>2 DEF StoreInv
<1>5. CASE UNCHANGED vars
  BY <1>5 DEF vars, StoreInv, TypeOK, IndexCoherent, SlotsBounded,
              ListedAreMinted, Sessions, IsMember, Fresh
<1> QED BY <1>1, <1>2, <1>3, <1>4, <1>5 DEF Next

\* In every reachable state the variables have their types and the member
\* table and the bearer index agree, whatever the cohort and the cap.
THEOREM StoreInvariant == Spec => []StoreInv
<1>1. Init => StoreInv
  BY EmptyStore DEF Init, StoreInv, TypeOK
<1>2. StoreInv /\ [Next]_vars => StoreInv'
  BY StoreStep
<1> QED BY <1>1, <1>2, PTL DEF Spec

\* The bearer index of state.rs lists exactly the bearers the members hold.
THEOREM IndexAlwaysCoherent == Spec => []IndexCoherent
BY StoreInvariant, PTL DEF StoreInv

\* The store's maps are well typed: a stored member is a whole record.
THEOREM StoreTypes == Spec => []TypeOK
BY StoreInvariant, PTL DEF StoreInv

\* No member ever holds more than DEVICE_CAP bearers, or one of them twice.
THEOREM SlotsAlwaysBounded == Spec => []SlotsBounded
BY StoreInvariant, PTL DEF StoreInv

-----------------------------------------------------------------------------
(* Revocation *)

\* A stored member is a pair of the manifest.
MembersInManifest ==
  \A pk \in Pubkeys : IsMember(pk) => <<pk, by_pubkey[pk].member_hash>> \in Manifest

\* Every bearer a member holds was enrolled under the hash it has now.
HeldUnderCurrentHash ==
  \A pk \in Pubkeys : \A t \in Range(Sessions(pk)) :
    minted_as[t] = by_pubkey[pk].member_hash

\* A revoke only names bearers that were minted before it.
RevokedAreMinted == \A t \in revoked : ~Fresh(t)

\* Stored members stay within the manifest: /enroll only inserts pairs it
\* has found there.
LEMMA MembersInManifestStep ==
  ASSUME StoreInv, MembersInManifest, [Next]_vars
  PROVE  MembersInManifest'
<1> SUFFICES ASSUME NEW q \in Pubkeys, by_pubkey'[q] # None
             PROVE  <<q, by_pubkey'[q].member_hash>> \in Manifest
  BY DEF MembersInManifest, IsMember
<1>1. ASSUME NEW pk \in Pubkeys, NEW h \in Hashes, NEW t \in Tokens, Enroll(pk, h, t)
      PROVE  <<q, by_pubkey'[q].member_hash>> \in Manifest
  <2>1. CASE q = pk
    <3>1. by_pubkey'[q].member_hash = h
      BY <1>1, <2>1, EnrollSessions
    <3> QED BY <3>1, <1>1, <2>1 DEF Enroll, InManifest
  <2>2. CASE q # pk
    <3>1. by_pubkey'[q] = by_pubkey[q]
      BY <1>1, <2>2, EnrollSessions
    <3> QED BY <3>1 DEF MembersInManifest, IsMember
  <2> QED BY <2>1, <2>2
<1>2. ASSUME NEW h \in Hashes, Revoke(h)
      PROVE  <<q, by_pubkey'[q].member_hash>> \in Manifest
  BY <1>2 DEF Revoke, Holders, Remove, MembersInManifest, IsMember, StoreInv, TypeOK
<1>3. ASSUME NEW n \in Nonces, note_nonce(n)
      PROVE  <<q, by_pubkey'[q].member_hash>> \in Manifest
  BY <1>3 DEF note_nonce, MembersInManifest, IsMember
<1>4. CASE Restart
  BY <1>4 DEF Restart
<1>5. CASE UNCHANGED vars
  BY <1>5 DEF vars, MembersInManifest, IsMember
<1> QED BY <1>1, <1>2, <1>3, <1>4, <1>5 DEF Next

\* Every bearer /chat accepts belongs to a (pubkey, hash) pair of the
\* manifest, for every manifest.
THEOREM AcceptedAlwaysInManifest == Spec => []AcceptedInManifest
<1>1. Init => MembersInManifest
  BY DEF Init, MembersInManifest, IsMember
<1>2. StoreInv /\ MembersInManifest /\ [Next]_vars => MembersInManifest'
  BY MembersInManifestStep
<1>3. StoreInv /\ MembersInManifest => AcceptedInManifest
  <2> SUFFICES ASSUME StoreInv, MembersInManifest, NEW t \in Tokens, by_token[t] # None
               PROVE  /\ IsMember(by_token[t])
                      /\ <<by_token[t], by_pubkey[by_token[t]].member_hash>> \in Manifest
    BY DEF AcceptedInManifest, contains_token
  <2>1. by_token[t] \in Pubkeys
    BY DEF StoreInv, TypeOK
  <2>2. t \in Range(Sessions(by_token[t]))
    BY <2>1 DEF StoreInv, IndexCoherent
  <2>3. IsMember(by_token[t])
    BY <2>2 DEF Sessions, Range
  <2> QED BY <2>1, <2>3 DEF MembersInManifest
<1> QED BY <1>1, <1>2, <1>3, StoreInvariant, PTL DEF Spec

\* The invariant behind complete revocation.
RevokeInv == MembersInManifest /\ HeldUnderCurrentHash /\ RevokedAreMinted /\ RevokeComplete

\* Minting a bearer keeps the revocation invariant: with one hash per pubkey
\* a re-enroll cannot move older bearers to another hash.
LEMMA EnrollKeepsRevokeInv ==
  ASSUME ManifestOneToOne, StoreInv, StoreInv', RevokeInv,
         NEW pk \in Pubkeys, NEW h \in Hashes, NEW t \in Tokens, Enroll(pk, h, t)
  PROVE  HeldUnderCurrentHash' /\ RevokedAreMinted' /\ RevokeComplete'
<1>a. /\ minted_as' = [minted_as EXCEPT ![t] = h]
      /\ revoked' = revoked /\ minted_as[t] = None
      /\ <<pk, h>> \in Manifest
      /\ by_token' = [u \in Tokens |->
            IF u = t THEN pk ELSE IF u \in Evicted(Push(pk, t)) THEN None ELSE by_token[u]]
  BY DEF Enroll, Fresh, InManifest, insert, InsertIndex
<1>b. /\ by_pubkey'[pk].member_hash = h
      /\ Push(pk, t) \in Seq(Tokens)
      /\ Range(Push(pk, t)) = Range(Sessions(pk)) \cup {t}
      /\ Sessions(pk)' = Newest(Push(pk, t))
      /\ \A q \in Pubkeys \ {pk} : by_pubkey'[q] = by_pubkey[q] /\ Sessions(q)' = Sessions(q)
  BY EnrollSessions
<1>c. Range(Sessions(pk)') \subseteq Range(Sessions(pk)) \cup {t}
  BY <1>b, NewestProps
<1>1. HeldUnderCurrentHash'
  <2> SUFFICES ASSUME NEW q \in Pubkeys, NEW u \in Range(Sessions(q)')
               PROVE  minted_as'[u] = by_pubkey'[q].member_hash
    BY DEF HeldUnderCurrentHash
  <2>1. CASE q = pk
    <3>1. CASE u = t
      BY <2>1, <3>1, <1>a, <1>b DEF StoreInv, TypeOK
    <3>2. CASE u # t
      <4>1. u \in Range(Sessions(pk))
        BY <2>1, <3>2, <1>c
      <4>2. IsMember(pk)
        BY <4>1 DEF Sessions, Range
      <4>3. u \in Tokens
        BY <4>1, SessionsType, RangeLen DEF StoreInv
      <4>4. minted_as[u] = by_pubkey[pk].member_hash
        BY <4>1 DEF RevokeInv, HeldUnderCurrentHash
      <4>5. by_pubkey[pk].member_hash = h
        <5>1. <<pk, by_pubkey[pk].member_hash>> \in Manifest
          BY <4>2 DEF RevokeInv, MembersInManifest
        <5> QED BY <5>1, <1>a DEF ManifestOneToOne
      <4> QED BY <2>1, <3>2, <4>3, <4>4, <4>5, <1>a, <1>b DEF StoreInv, TypeOK
    <3> QED BY <3>1, <3>2
  <2>2. CASE q # pk
    <3>1. u \in Range(Sessions(q)) /\ by_pubkey'[q] = by_pubkey[q]
      BY <2>2, <1>b
    <3>2. u \in Tokens /\ u # t
      BY <3>1, <1>a, SessionsType, RangeLen DEF StoreInv, ListedAreMinted, Fresh
    <3> QED BY <3>1, <3>2, <1>a DEF RevokeInv, HeldUnderCurrentHash, StoreInv, TypeOK
  <2> QED BY <2>1, <2>2
<1>2. RevokedAreMinted'
  BY <1>a, NoneAssumption DEF RevokeInv, RevokedAreMinted, Fresh, StoreInv, TypeOK
<1>3. RevokeComplete'
  <2> SUFFICES ASSUME NEW u \in revoked
               PROVE  by_token'[u] = None
    BY <1>a DEF RevokeComplete, contains_token
  <2>1. u \in Tokens /\ u # t /\ by_token[u] = None
    BY <1>a DEF StoreInv, TypeOK, RevokeInv, RevokedAreMinted, Fresh, RevokeComplete, contains_token
  <2> QED BY <2>1, <1>a
<1> QED BY <1>1, <1>2, <1>3

\* A revoke keeps the revocation invariant: with one pubkey per hash the
\* member it finds holds every live bearer enrolled under the hash.
LEMMA RevokeKeepsRevokeInv ==
  ASSUME ManifestOneToOne, StoreInv, StoreInv', RevokeInv, NEW h \in Hashes, Revoke(h)
  PROVE  HeldUnderCurrentHash' /\ RevokedAreMinted' /\ RevokeComplete'
<1>a. revoked' = revoked \cup IssuedUnder(h) /\ minted_as' = minted_as
  BY DEF Revoke
<1>b. ASSUME NEW q \in Pubkeys, IsMember(q)'
      PROVE  by_pubkey'[q] = by_pubkey[q] /\ Sessions(q)' = Sessions(q) /\ IsMember(q)
  <2>1. by_pubkey'[q] = by_pubkey[q]
    BY <1>b DEF Revoke, Holders, Remove, IsMember, StoreInv, TypeOK
  <2> QED BY <2>1, <1>b DEF IsMember, Sessions
<1>c. ASSUME NEW q \in Pubkeys, NEW u \in Range(Sessions(q)')
      PROVE  IsMember(q)' /\ u \in Range(Sessions(q)) /\ u \in Tokens
  <2>1. IsMember(q)'
    BY <1>c DEF Sessions, Range
  <2> QED BY <2>1, <1>b, <1>c, SessionsType, RangeLen DEF StoreInv
<1>d. ASSUME NEW q \in Pubkeys, IsMember(q)'
      PROVE  by_pubkey[q].member_hash # h
  <2>1. SUFFICES ASSUME by_pubkey[q].member_hash = h
                 PROVE  FALSE
    OBVIOUS
  <2>2. q \in Holders(h)
    BY <1>b, <1>d, <2>1 DEF Holders
  <2>3. PICK pk \in Holders(h) : Remove(pk)
    BY <2>2 DEF Revoke
  <2>4. pk \in Pubkeys /\ <<pk, h>> \in Manifest /\ <<q, h>> \in Manifest
    BY <2>2 DEF Holders, RevokeInv, MembersInManifest
  <2>5. pk = q
    BY <2>4 DEF ManifestOneToOne
  <2> QED BY <2>3, <2>5, <1>d DEF Remove, IsMember, StoreInv, TypeOK
<1>1. HeldUnderCurrentHash'
  BY <1>a, <1>b, <1>c DEF HeldUnderCurrentHash, RevokeInv
<1>2. RevokedAreMinted'
  BY <1>a, NoneAssumption DEF RevokeInv, RevokedAreMinted, Fresh, IssuedUnder
<1>3. RevokeComplete'
  <2> SUFFICES ASSUME NEW u \in revoked', by_token'[u] # None
               PROVE  FALSE
    BY DEF RevokeComplete, contains_token
  <2>0. u \in Tokens
    BY DEF StoreInv, TypeOK
  <2>1. PICK q \in Pubkeys : q = by_token'[u]
    BY <2>0 DEF StoreInv, TypeOK
  <2>2. u \in Range(Sessions(q)')
    BY <2>0, <2>1 DEF StoreInv, IndexCoherent
  <2>3. by_token[u] = q
    BY <2>0, <2>1, <2>2, <1>c DEF StoreInv, IndexCoherent
  <2>4. CASE u \in revoked
    BY <2>1, <2>3, <2>4, NoneAssumption DEF RevokeInv, RevokeComplete, contains_token
  <2>5. CASE minted_as[u] = h
    BY <2>1, <2>2, <2>5, <1>c, <1>d DEF RevokeInv, HeldUnderCurrentHash
  <2> QED BY <2>4, <2>5, <1>a DEF IssuedUnder
<1> QED BY <1>1, <1>2, <1>3

\* With the one-to-one manifest freeze_manifest emits, a /manage revoke ends
\* every bearer enrolled under the hash, for good.
THEOREM RevokeAlwaysComplete ==
  ASSUME ManifestOneToOne
  PROVE  Spec => []RevokeComplete
<1>1. Init => RevokeInv
  BY DEF Init, RevokeInv, MembersInManifest, IsMember, HeldUnderCurrentHash, Sessions,
         Range, RevokedAreMinted, RevokeComplete
<1>2. StoreInv /\ StoreInv' /\ RevokeInv /\ [Next]_vars => RevokeInv'
  <2> SUFFICES ASSUME StoreInv, StoreInv', RevokeInv, [Next]_vars
               PROVE  RevokeInv'
    OBVIOUS
  <2>0. MembersInManifest'
    BY MembersInManifestStep DEF RevokeInv
  <2>1. ASSUME NEW pk \in Pubkeys, NEW h \in Hashes, NEW t \in Tokens, Enroll(pk, h, t)
        PROVE  RevokeInv'
    BY <2>0, <2>1, ManifestOneToOne, EnrollKeepsRevokeInv DEF RevokeInv
  <2>2. ASSUME NEW h \in Hashes, Revoke(h)
        PROVE  RevokeInv'
    BY <2>0, <2>2, ManifestOneToOne, RevokeKeepsRevokeInv DEF RevokeInv
  <2>3. ASSUME NEW n \in Nonces, note_nonce(n)
        PROVE  RevokeInv'
    BY <2>0, <2>3 DEF note_nonce, history, RevokeInv, HeldUnderCurrentHash, Sessions,
         IsMember, RevokedAreMinted, Fresh, RevokeComplete, contains_token
  <2>4. CASE Restart
    <3>1. \A pk \in Pubkeys : Range(Sessions(pk)') = {}
      BY <2>4 DEF Restart, Sessions, IsMember, Range
    <3>2. \A t \in Tokens : by_token'[t] = None
      BY <2>4 DEF Restart
    <3> QED BY <2>0, <2>4, <3>1, <3>2 DEF Restart, RevokeInv, HeldUnderCurrentHash,
              RevokedAreMinted, Fresh, RevokeComplete, contains_token, StoreInv, TypeOK
  <2>5. CASE UNCHANGED vars
    BY <2>0, <2>5 DEF vars, RevokeInv, HeldUnderCurrentHash, Sessions, IsMember,
         RevokedAreMinted, Fresh, RevokeComplete, contains_token
  <2> QED BY <2>1, <2>2, <2>3, <2>4, <2>5 DEF Next
<1>3. RevokeInv => RevokeComplete
  BY DEF RevokeInv
<1> QED BY <1>1, <1>2, <1>3, StoreInvariant, PTL DEF Spec

-----------------------------------------------------------------------------
(* The abstract allowlist *)

\* What the pop_front loop leaves, place by place.
LEMMA NewestPlaces ==
  ASSUME NEW s \in Seq(Tokens)
  PROVE  /\ Newest(s) \in Seq(Tokens) /\ Len(s) \in Nat
         /\ Len(Newest(s)) = IF Len(s) > DEVICE_CAP THEN DEVICE_CAP ELSE Len(s)
         /\ \A i \in 1 .. Len(Newest(s)) : Newest(s)[i] = s[Len(s) - Len(Newest(s)) + i]
<1>1. CASE Len(s) > DEVICE_CAP
  <2> DEFINE off == Len(s) - DEVICE_CAP
             n == SubSeq(s, off + 1, Len(s))
  <2>1. /\ n \in Seq(Tokens) /\ Len(n) = DEVICE_CAP
        /\ \A i \in 1 .. DEVICE_CAP : n[i] = s[off + i]
    BY <1>1, CapAssumption, SubSeqProperties
  <2>2. Newest(s) = n
    BY <1>1 DEF Newest
  <2> QED BY <1>1, <2>1, <2>2
<1>2. CASE ~(Len(s) > DEVICE_CAP)
  BY <1>2, CapAssumption DEF Newest
<1> QED BY <1>1, <1>2

\* The bearers it leaves are those fewer than DEVICE_CAP newer ones follow.
LEMMA NewestAreLatest ==
  ASSUME NEW s \in Seq(Tokens)
  PROVE  Abstract!Latest(s) = Range(Newest(s))
<1> DEFINE n == Newest(s)
<1>1. /\ n \in Seq(Tokens) /\ Len(s) \in Nat
      /\ Len(n) = IF Len(s) > DEVICE_CAP THEN DEVICE_CAP ELSE Len(s)
      /\ \A i \in 1 .. Len(n) : n[i] = s[Len(s) - Len(n) + i]
  BY NewestPlaces
<1>2. Range(n) = {n[i] : i \in 1 .. Len(n)} /\ DOMAIN s = 1 .. Len(s)
  BY <1>1, RangeLen
<1> HIDE DEF n
<1>3. ASSUME NEW i \in 1 .. Len(s), i > Len(s) - DEVICE_CAP
      PROVE  s[i] \in {n[j] : j \in 1 .. Len(n)}
  <2>1. /\ i - (Len(s) - Len(n)) \in 1 .. Len(n)
        /\ Len(s) - Len(n) + (i - (Len(s) - Len(n))) = i
    <3>1. \A l, m \in Nat :
            m = (IF l > DEVICE_CAP THEN DEVICE_CAP ELSE l) /\ i \in 1 .. l /\ i > l - DEVICE_CAP
              => i - (l - m) \in 1 .. m /\ l - m + (i - (l - m)) = i
      BY CapAssumption
    <3>2. Len(n) \in Nat
      BY <1>1
    <3> QED BY <1>1, <1>3, <3>1, <3>2
  <2>2. n[i - (Len(s) - Len(n))] = s[i]
    BY <1>1, <2>1
  <2> QED BY <2>1, <2>2
<1>4. ASSUME NEW j \in 1 .. Len(n)
      PROVE  n[j] \in {s[i] : i \in {k \in 1 .. Len(s) : k > Len(s) - DEVICE_CAP}}
  <2>1. Len(s) - Len(n) + j \in 1 .. Len(s) /\ Len(s) - Len(n) + j > Len(s) - DEVICE_CAP
    BY <1>1, CapAssumption
  <2> QED BY <1>1, <2>1
<1>5. Abstract!Latest(s) = {s[i] : i \in {k \in 1 .. Len(s) : k > Len(s) - DEVICE_CAP}}
  BY <1>2 DEF Abstract!Latest
<1>6. Abstract!Latest(s) = Range(n)
  BY <1>2, <1>3, <1>4, <1>5
<1> QED BY <1>6 DEF n

\* Trimming at every push leaves what trimming the whole list would.
LEMMA NewestAppend ==
  ASSUME NEW s \in Seq(Tokens), NEW t \in Tokens
  PROVE  Newest(Append(Newest(s), t)) = Newest(Append(s, t))
<1>1. CASE Len(s) > DEVICE_CAP
  <2> DEFINE n == Newest(s)
             a == Append(n, t)
             b == Append(s, t)
             x == Newest(a)
             y == Newest(b)
  <2>1. /\ n \in Seq(Tokens) /\ Len(s) \in Nat /\ Len(n) = DEVICE_CAP
        /\ \A i \in 1 .. DEVICE_CAP : n[i] = s[Len(s) - DEVICE_CAP + i]
    BY <1>1, NewestPlaces
  <2> HIDE DEF n
  <2>2. /\ a \in Seq(Tokens) /\ Len(a) = DEVICE_CAP + 1 /\ a[DEVICE_CAP + 1] = t
        /\ \A i \in 1 .. DEVICE_CAP : a[i] = n[i]
    BY <2>1, AppendProperties, CapAssumption
  <2>3. /\ b \in Seq(Tokens) /\ Len(b) = Len(s) + 1 /\ b[Len(s) + 1] = t
        /\ \A i \in 1 .. Len(s) : b[i] = s[i]
    BY <2>1, AppendProperties
  <2> HIDE DEF a, b
  <2>4. /\ x \in Seq(Tokens) /\ Len(x) = DEVICE_CAP
        /\ \A i \in 1 .. DEVICE_CAP : x[i] = a[1 + i]
    <3>1. Len(a) > DEVICE_CAP
      BY <2>2, CapAssumption
    <3>2. /\ x \in Seq(Tokens) /\ Len(x) = DEVICE_CAP
          /\ \A i \in 1 .. Len(x) : x[i] = a[Len(a) - Len(x) + i]
      BY <2>2, <3>1, NewestPlaces
    <3> HIDE DEF x
    <3>3. Len(a) - Len(x) = 1
      BY <2>2, <3>2, CapAssumption
    <3> QED BY <3>2, <3>3, Zenon
  <2>5. /\ y \in Seq(Tokens) /\ Len(y) = DEVICE_CAP
        /\ \A i \in 1 .. DEVICE_CAP : y[i] = b[Len(s) + 1 - DEVICE_CAP + i]
    <3>1. Len(b) > DEVICE_CAP
      BY <1>1, <2>1, <2>3, CapAssumption
    <3>2. /\ y \in Seq(Tokens) /\ Len(y) = DEVICE_CAP
          /\ \A i \in 1 .. Len(y) : y[i] = b[Len(b) - Len(y) + i]
      BY <2>3, <3>1, NewestPlaces
    <3> HIDE DEF y
    <3>3. Len(b) - Len(y) = Len(s) + 1 - DEVICE_CAP
      BY <2>3, <3>2
    <3> QED BY <3>2, <3>3, Zenon
  <2> HIDE DEF x, y
  <2>6. ASSUME NEW i \in 1 .. DEVICE_CAP PROVE x[i] = y[i]
    <3>1. CASE i = DEVICE_CAP
      <4>1. x[i] = t
        BY <2>2, <2>4, <3>1, CapAssumption
      <4>2. Len(s) + 1 - DEVICE_CAP + i = Len(s) + 1
        BY <2>1, <3>1, CapAssumption
      <4> QED BY <2>3, <2>5, <4>1, <4>2
    <3>2. CASE i # DEVICE_CAP
      <4>1. /\ 1 + i \in 1 .. DEVICE_CAP
            /\ Len(s) + 1 - DEVICE_CAP + i \in 1 .. Len(s)
            /\ Len(s) + 1 - DEVICE_CAP + i = Len(s) - DEVICE_CAP + (1 + i)
        BY <1>1, <2>1, <3>2, CapAssumption
      <4>2. x[i] = s[Len(s) - DEVICE_CAP + (1 + i)]
        BY <2>1, <2>2, <2>4, <4>1
      <4>3. y[i] = s[Len(s) - DEVICE_CAP + (1 + i)]
        BY <2>3, <2>5, <4>1
      <4> QED BY <4>2, <4>3
    <3> QED BY <3>1, <3>2
  <2>7. x = y
    BY <2>4, <2>5, <2>6, SeqEqual
  <2> QED BY <2>7 DEF x, y, a, b, n
<1>2. CASE ~(Len(s) > DEVICE_CAP)
  BY <1>2 DEF Newest
<1> QED BY <1>1, <1>2

\* A pubkey's sessions are the newest of the bearers minted for it.
SessionsAreNewest == \A pk \in Pubkeys : Sessions(pk) = Newest(enrolled[pk])

LEMMA SessionsStep ==
  ASSUME StoreInv, SessionsAreNewest, [Next]_vars
  PROVE  SessionsAreNewest'
<1>0. Newest(<<>>) = <<>>
  BY CapAssumption DEF Newest
<1>1. ASSUME NEW pk \in Pubkeys, NEW h \in Hashes, NEW t \in Tokens, Enroll(pk, h, t)
      PROVE  SessionsAreNewest'
  <2>1. /\ Sessions(pk)' = Newest(Append(Sessions(pk), t))
        /\ \A q \in Pubkeys \ {pk} : Sessions(q)' = Sessions(q)
    BY <1>1, EnrollSessions DEF Push
  <2>2. /\ enrolled[pk] \in Seq(Tokens) /\ enrolled'[pk] = Append(enrolled[pk], t)
        /\ \A q \in Pubkeys \ {pk} : enrolled'[q] = enrolled[q]
    BY <1>1 DEF Enroll, StoreInv, TypeOK
  <2>3. Sessions(pk)' = Newest(enrolled'[pk])
    BY <2>1, <2>2, NewestAppend DEF SessionsAreNewest
  <2>4. ASSUME NEW q \in Pubkeys PROVE Sessions(q)' = Newest(enrolled'[q])
    BY <2>1, <2>2, <2>3 DEF SessionsAreNewest
  <2> QED BY <2>4 DEF SessionsAreNewest, Newest
<1>2. ASSUME NEW h \in Hashes, Revoke(h) PROVE SessionsAreNewest'
  <2>1. ASSUME NEW pk \in Holders(h), Remove(pk), enrolled' = [enrolled EXCEPT ![pk] = <<>>],
               NEW q \in Pubkeys
        PROVE  Sessions(q)' = Newest(enrolled'[q])
    <3>1. CASE q = pk
      BY <1>0, <2>1, <3>1 DEF Remove, Sessions, IsMember, StoreInv, TypeOK
    <3>2. CASE q # pk
      BY <2>1, <3>2 DEF Remove, Sessions, IsMember, StoreInv, TypeOK, SessionsAreNewest
    <3> QED BY <3>1, <3>2
  <2>2. CASE UNCHANGED <<by_pubkey, enrolled>>
    BY <2>2 DEF SessionsAreNewest, Sessions, IsMember
  <2> QED BY <1>2, <2>1, <2>2 DEF Revoke, SessionsAreNewest, Newest
<1>3. CASE UNCHANGED <<by_pubkey, enrolled>>
  BY <1>3 DEF SessionsAreNewest, Sessions, IsMember
<1>4. CASE Restart
  BY <1>0, <1>4 DEF Restart, SessionsAreNewest, Sessions, IsMember
<1> QED BY <1>1, <1>2, <1>3, <1>4 DEF Next, vars, note_nonce, history

\* What /chat accepts is what the abstract allowlist lets stand.
LEMMA AcceptedStands ==
  ASSUME StoreInv, SessionsAreNewest
  PROVE  Accepted = Abstract!Standing(enrolled)
<1>1. ASSUME NEW pk \in Pubkeys PROVE Abstract!Latest(enrolled[pk]) = Range(Sessions(pk))
  <2>1. enrolled[pk] \in Seq(Tokens)
    BY DEF StoreInv, TypeOK
  <2> QED BY <2>1, NewestAreLatest DEF SessionsAreNewest
<1>2. ASSUME NEW t \in Accepted PROVE t \in Abstract!Standing(enrolled)
  <2>1. t \in Tokens /\ by_token[t] \in Pubkeys
    BY DEF Accepted, contains_token, StoreInv, TypeOK
  <2>2. t \in Range(Sessions(by_token[t]))
    BY <2>1 DEF StoreInv, IndexCoherent
  <2> QED BY <1>1, <2>1, <2>2 DEF Abstract!Standing
<1>3. ASSUME NEW t \in Abstract!Standing(enrolled) PROVE t \in Accepted
  <2>1. PICK pk \in Pubkeys : t \in Range(Sessions(pk))
    BY <1>1 DEF Abstract!Standing
  <2>2. t \in Tokens
    BY <2>1, SessionsType, RangeLen DEF StoreInv
  <2> QED BY <2>1, <2>2, NoneAssumption DEF StoreInv, IndexCoherent, Accepted, contains_token
<1> QED BY <1>2, <1>3

\* A revoke of h empties the one member of the manifest with that hash.
LEMMA RevokeEmpties ==
  ASSUME ManifestOneToOne, StoreInv, MembersInManifest, SessionsAreNewest, NEW h \in Hashes, Revoke(h)
  PROVE  enrolled' = [pk \in Pubkeys |-> IF <<pk, h>> \in Manifest THEN <<>> ELSE enrolled[pk]]
<1> DEFINE emptied == [pk \in Pubkeys |-> IF <<pk, h>> \in Manifest THEN <<>> ELSE enrolled[pk]]
<1>1. enrolled \in [Pubkeys -> Seq(Tokens)]
  BY DEF StoreInv, TypeOK
<1>2. ASSUME NEW pk \in Holders(h), enrolled' = [enrolled EXCEPT ![pk] = <<>>]
      PROVE  enrolled' = emptied
  <2>1. pk \in Pubkeys /\ <<pk, h>> \in Manifest
    BY DEF Holders, MembersInManifest
  <2>2. \A q \in Pubkeys : <<q, h>> \in Manifest <=> q = pk
    BY <2>1 DEF ManifestOneToOne
  <2> QED BY <1>1, <1>2, <2>1, <2>2
<1>3. ASSUME Holders(h) = {}, enrolled' = enrolled
      PROVE  enrolled' = emptied
  <2>1. ASSUME NEW q \in Pubkeys, <<q, h>> \in Manifest PROVE enrolled[q] = <<>>
    <3>1. ~IsMember(q)
      <4>1. IsMember(q) => <<q, by_pubkey[q].member_hash>> \in Manifest
        BY DEF MembersInManifest
      <4>2. IsMember(q) => by_pubkey[q].member_hash = h
        BY <2>1, <4>1 DEF ManifestOneToOne
      <4> QED BY <1>3, <4>2 DEF Holders
    <3>2. Newest(enrolled[q]) = <<>>
      BY <3>1 DEF SessionsAreNewest, Sessions
    <3>3. enrolled[q] \in Seq(Tokens) /\ Len(Newest(enrolled[q])) = 0
      BY <1>1, <3>2
    <3>4. Len(enrolled[q]) = 0
      BY <3>3, NewestPlaces, CapAssumption
    <3> QED BY <3>3, <3>4, EmptySeq
  <2>2. enrolled = emptied
    BY <1>1, <2>1
  <2> QED BY <1>3, <2>2
<1> QED BY <1>2, <1>3 DEF Revoke

\* With the one-to-one manifest freeze_manifest emits, the two maps implement
\* the abstract allowlist: /chat accepts exactly the DEVICE_CAP newest bearers
\* of each member, and a revoke empties that member and no other.
THEOREM AllowlistImplemented ==
  ASSUME ManifestOneToOne
  PROVE  Spec => ImplementsAllowlist
<1> DEFINE Used == {t \in Tokens : minted_as[t] # None}
           Inv == StoreInv /\ MembersInManifest /\ SessionsAreNewest
<1>1. Init => MembersInManifest /\ SessionsAreNewest
  <2>1. Newest(<<>>) = <<>>
    BY CapAssumption DEF Newest
  <2> QED BY <2>1 DEF Init, MembersInManifest, SessionsAreNewest, Sessions, IsMember
<1>2. Init => Abstract!Init
  BY DEF Init, Abstract!Init, Accepted, contains_token
<1>3. Inv /\ [Next]_vars => MembersInManifest' /\ SessionsAreNewest'
  BY MembersInManifestStep, SessionsStep
<1>4. StoreInv /\ SessionsAreNewest => Accepted = Abstract!Standing(enrolled)
  BY AcceptedStands
<1>5. (StoreInv /\ SessionsAreNewest => Accepted = Abstract!Standing(enrolled))'
  BY <1>4, PTL
<1>6. ASSUME Inv, Inv', [Next]_vars PROVE [Abstract!Next]_(Abstract!vars)
  <2>1. Accepted' = Abstract!Standing(enrolled')
    <3>1. Accepted' = Abstract!Standing(enrolled)'
      BY <1>6, <1>5
    <3> QED BY <3>1 DEF Abstract!Standing, Abstract!Latest
  <2>2. ASSUME NEW pk \in Pubkeys, NEW h \in Hashes, NEW t \in Tokens, Enroll(pk, h, t)
        PROVE  Abstract!Next
    <3>1. t \notin Used /\ Used' = Used \cup {t}
      BY <1>6, <2>2, NoneAssumption DEF Enroll, Fresh, StoreInv, TypeOK
    <3>2. Abstract!Enroll(pk, h, t)
      BY <2>1, <2>2, <3>1 DEF Enroll, InManifest, Abstract!Enroll
    <3> QED BY <3>2 DEF Abstract!Next
  <2>3. ASSUME NEW h \in Hashes, Revoke(h) PROVE Abstract!Next
    <3>1. enrolled' = [pk \in Pubkeys |-> IF <<pk, h>> \in Manifest THEN <<>> ELSE enrolled[pk]]
      BY <1>6, <2>3, RevokeEmpties
    <3>2. Used' = Used
      BY <2>3 DEF Revoke
    <3>3. Abstract!Revoke(h)
      BY <2>1, <3>1, <3>2 DEF Abstract!Revoke
    <3> QED BY <3>3 DEF Abstract!Next
  <2>4. CASE Restart
    <3>1. Accepted' = {} /\ Used' = Used
      BY <2>4 DEF Restart, Accepted, contains_token
    <3> QED BY <2>4, <3>1 DEF Restart, Abstract!Restart, Abstract!Next
  <2>5. CASE UNCHANGED <<by_token, enrolled, minted_as>>
    BY <2>5 DEF Abstract!vars, Accepted, contains_token
  <2> QED BY <1>6, <2>2, <2>3, <2>4, <2>5 DEF Next, vars, note_nonce, history
<1> QED BY <1>1, <1>2, <1>3, <1>6, StoreInvariant, PTL
      DEF Spec, ImplementsAllowlist, Abstract!Spec
-----------------------------------------------------------------------------
(* Where a bearer has gone *)

\* A bearer on a pubkey's list was enrolled under a hash the manifest pairs
\* with that pubkey.
OwnHash ==
  \A pk \in Pubkeys : \A i \in 1 .. Len(enrolled[pk]) :
    <<pk, minted_as[enrolled[pk][i]]>> \in Manifest

\* The bearer is still on the list of a pubkey, or a revoke was meant for it.
Known(t) ==
  \/ t \in revoked
  \/ \E pk \in Pubkeys : \E i \in 1 .. Len(enrolled[pk]) : enrolled[pk][i] = t

LedgerInv == MembersInManifest /\ SessionsAreNewest /\ OwnHash

LEMMA OwnHashStep ==
  ASSUME StoreInv, OwnHash, [Next]_vars
  PROVE  OwnHash'
<1>1. enrolled \in [Pubkeys -> Seq(Tokens)] /\ minted_as \in [Tokens -> Hashes \cup {None}]
  BY DEF StoreInv, TypeOK
<1>2. ASSUME NEW pk \in Pubkeys, NEW h \in Hashes, NEW t \in Tokens, Enroll(pk, h, t)
      PROVE  OwnHash'
  <2>1. /\ enrolled'[pk] = Append(enrolled[pk], t)
        /\ \A q \in Pubkeys \ {pk} : enrolled'[q] = enrolled[q]
        /\ minted_as'[t] = h /\ <<pk, h>> \in Manifest /\ Fresh(t)
        /\ \A u \in Tokens \ {t} : minted_as'[u] = minted_as[u]
    BY <1>1, <1>2 DEF Enroll, InManifest
  <2>2. ASSUME NEW q \in Pubkeys, NEW i \in 1 .. Len(enrolled[q])
        PROVE  <<q, minted_as'[enrolled[q][i]]>> \in Manifest
    <3>1. enrolled[q][i] \in Tokens /\ <<q, minted_as[enrolled[q][i]]>> \in Manifest
      BY <1>1 DEF OwnHash
    <3>2. minted_as[enrolled[q][i]] # None
      BY <3>1, ManifestAssumption, NoneAssumption
    <3> QED BY <2>1, <3>1, <3>2 DEF Fresh
  <2>3. ASSUME NEW i \in 1 .. Len(enrolled'[pk])
        PROVE  <<pk, minted_as'[enrolled'[pk][i]]>> \in Manifest
    <3>1. /\ Len(enrolled'[pk]) = Len(enrolled[pk]) + 1 /\ Len(enrolled[pk]) \in Nat
          /\ \A j \in 1 .. Len(enrolled[pk]) : enrolled'[pk][j] = enrolled[pk][j]
          /\ enrolled'[pk][Len(enrolled[pk]) + 1] = t
      BY <1>1, <2>1, AppendProperties
    <3>2. CASE i = Len(enrolled[pk]) + 1
      BY <2>1, <3>1, <3>2
    <3>3. CASE i # Len(enrolled[pk]) + 1
      <4>1. i \in 1 .. Len(enrolled[pk])
        BY <3>1, <3>3
      <4> QED BY <2>2, <3>1, <4>1
    <3> QED BY <3>2, <3>3
  <2> QED BY <2>1, <2>2, <2>3 DEF OwnHash
<1>3. ASSUME NEW h \in Hashes, Revoke(h) PROVE OwnHash'
  <2>1. minted_as' = minted_as /\ Len(<<>>) = 0
    BY <1>3 DEF Revoke
  <2>2. \A q \in Pubkeys : enrolled'[q] = enrolled[q] \/ enrolled'[q] = <<>>
    BY <1>1, <1>3 DEF Revoke, Holders
  <2> QED BY <2>1, <2>2 DEF OwnHash
<1>4. CASE Restart
  BY <1>4 DEF Restart, OwnHash
<1>5. CASE UNCHANGED <<enrolled, minted_as>>
  BY <1>5 DEF OwnHash
<1> QED BY <1>2, <1>3, <1>4, <1>5 DEF Next, vars, note_nonce, history

\* Stored members are pairs of the manifest, sessions are the newest bearers
\* of the list, and the list holds bearers of its own pubkey.
THEOREM LedgerInvariant == Spec => []LedgerInv
<1>1. Init => LedgerInv
  <2>1. Newest(<<>>) = <<>> /\ Len(<<>>) = 0
    BY CapAssumption DEF Newest
  <2> QED BY <2>1 DEF Init, LedgerInv, MembersInManifest, SessionsAreNewest, Sessions,
        IsMember, OwnHash
<1>2. StoreInv /\ LedgerInv /\ [Next]_vars => LedgerInv'
  BY MembersInManifestStep, SessionsStep, OwnHashStep DEF LedgerInv
<1> QED BY <1>1, <1>2, StoreInvariant, PTL DEF Spec

\* What a process does to the store while it lives.
Serves ==
  \/ \E pk \in Pubkeys, h \in Hashes, t \in Tokens : Enroll(pk, h, t)
  \/ \E h \in Hashes : Revoke(h)
  \/ \E n \in Nonces : note_nonce(n)
  \/ UNCHANGED vars

\* While the process lives, a bearer leaves a pubkey's list only through a
\* revoke of the hash it was enrolled under.
LEMMA KnownStays ==
  ASSUME ManifestOneToOne, StoreInv, LedgerInv, Serves, NEW t \in Tokens, Known(t)
  PROVE  Known(t)'
<1>1. enrolled \in [Pubkeys -> Seq(Tokens)]
  BY DEF StoreInv, TypeOK
<1>2. ASSUME NEW pk \in Pubkeys, NEW h \in Hashes, NEW u \in Tokens, Enroll(pk, h, u)
      PROVE  Known(t)'
  <2>1. revoked' = revoked /\ enrolled' = [enrolled EXCEPT ![pk] = Append(enrolled[pk], u)]
    BY <1>2 DEF Enroll
  <2>2. ASSUME NEW q \in Pubkeys, NEW i \in 1 .. Len(enrolled[q])
        PROVE  i \in 1 .. Len(enrolled'[q]) /\ enrolled'[q][i] = enrolled[q][i]
    BY <1>1, <2>1, AppendProperties
  <2> QED BY <2>1, <2>2 DEF Known
<1>3. ASSUME NEW h \in Hashes, Revoke(h) PROVE Known(t)'
  <2>1. revoked' = revoked \cup IssuedUnder(h)
    BY <1>3 DEF Revoke
  <2>2. CASE t \in revoked
    BY <2>1, <2>2 DEF Known
  <2>3. CASE UNCHANGED enrolled
    BY <2>1, <2>3 DEF Known
  <2>4. ASSUME NEW pk \in Holders(h), enrolled' = [enrolled EXCEPT ![pk] = <<>>],
               NEW q \in Pubkeys, NEW i \in 1 .. Len(enrolled[q]), enrolled[q][i] = t
        PROVE  Known(t)'
    <3>1. pk \in Pubkeys /\ <<pk, h>> \in Manifest
      BY DEF Holders, LedgerInv, MembersInManifest
    <3>2. CASE q = pk
      <4>1. <<pk, minted_as[t]>> \in Manifest
        BY <2>4, <3>2 DEF LedgerInv, OwnHash
      <4>2. minted_as[t] = h
        BY <3>1, <4>1 DEF ManifestOneToOne
      <4> QED BY <2>1, <4>2 DEF IssuedUnder, Known
    <3>3. CASE q # pk
      <4>1. enrolled'[q] = enrolled[q]
        BY <1>1, <2>4, <3>1, <3>3
      <4> QED BY <2>4, <4>1 DEF Known
    <3> QED BY <3>2, <3>3
  <2> QED BY <1>3, <2>2, <2>3, <2>4 DEF Revoke, Known
<1>4. CASE UNCHANGED <<enrolled, revoked>>
  BY <1>4 DEF Known
<1> QED BY <1>2, <1>3, <1>4 DEF Serves, vars, note_nonce, history

\* An accepted bearer is on a list, and the DEVICE_CAP newest of a list are
\* accepted.
LEMMA ListsAndAllowlist ==
  ASSUME StoreInv, LedgerInv
  PROVE  /\ \A t \in Accepted : Known(t)
         /\ \A pk \in Pubkeys : \A i \in 1 .. Len(enrolled[pk]) :
              i > Len(enrolled[pk]) - DEVICE_CAP => enrolled[pk][i] \in Accepted
<1>1. Accepted = UNION {Abstract!Latest(enrolled[pk]) : pk \in Pubkeys}
  BY AcceptedStands DEF LedgerInv, Abstract!Standing
<1>2. \A pk \in Pubkeys : DOMAIN enrolled[pk] = 1 .. Len(enrolled[pk])
  BY DEF StoreInv, TypeOK
<1>3. \A pk \in Pubkeys :
        Abstract!Latest(enrolled[pk]) =
          {enrolled[pk][i] : i \in {j \in 1 .. Len(enrolled[pk]) : j > Len(enrolled[pk]) - DEVICE_CAP}}
  BY <1>2 DEF Abstract!Latest
<1>4. ASSUME NEW t \in Accepted PROVE Known(t)
  BY <1>1, <1>3 DEF Known
<1>5. ASSUME NEW pk \in Pubkeys, NEW i \in 1 .. Len(enrolled[pk]), i > Len(enrolled[pk]) - DEVICE_CAP
      PROVE  enrolled[pk][i] \in Accepted
  BY <1>1, <1>3, <1>5
<1> QED BY <1>4, <1>5
=============================================================================
