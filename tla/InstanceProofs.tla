--------------------------- MODULE InstanceProofs ---------------------------
(***************************************************************************)
(* Proofs about Instance, for every cohort, every set of envelopes and any *)
(* number of tokens and streams.                                           *)
(***************************************************************************)
EXTENDS Instance, SequenceTheorems, TLAPS

\* What the two critical sections of /manage keep between them: an envelope
\* whose handler is between them is signed, its nonce is noted and not yet
\* applied, and no other envelope with its nonce is there.
ManageInv ==
  /\ pending \subseteq Envelopes
  /\ applied \in [Nonces -> Nat]
  /\ \A e \in pending : /\ e.signed /\ e.action = "revoke"
                        /\ e.nonce \in seen_nonces /\ applied[e.nonce] = 0
  /\ \A e, f \in pending : e.nonce = f.nonce => e = f
  /\ \A n \in Nonces : applied[n] <= 1 /\ (applied[n] > 0 => n \in seen_nonces)

LEMMA EnvelopeFields ==
  ASSUME NEW e \in Envelopes
  PROVE  e.nonce \in Nonces /\ e.hash \in Store!Hashes
BY EnvelopeAssumption

LEMMA InitHolds == Init => ManageInv /\ NoRevokeLost
<1> SUFFICES ASSUME Init PROVE ManageInv /\ NoRevokeLost
  OBVIOUS
<1>1. pending = {} /\ applied = [n \in Nonces |-> 0] /\ seen_nonces = {}
  BY DEF Init, Store!Init
<1> QED BY <1>1 DEF ManageInv, NoRevokeLost

LEMMA ManageBeginHolds ==
  ASSUME ManageInv, NoRevokeLost, NEW e \in Envelopes, ManageBegin(e)
  PROVE  ManageInv' /\ NoRevokeLost'
<1>1. /\ e.signed /\ e.nonce \notin seen_nonces /\ seen_nonces' = seen_nonces \cup {e.nonce}
      /\ pending' = IF e.action = "revoke" THEN pending \cup {e} ELSE pending
      /\ applied' = applied
  BY DEF ManageBegin, SignatureValid, NoteNonce, Store!note_nonce
<1>2. e.nonce \in Nonces /\ applied[e.nonce] = 0
  <2>1. e.nonce \in Nonces
    BY EnvelopeFields
  <2>2. applied[e.nonce] \in Nat /\ ~(applied[e.nonce] > 0)
    BY <1>1, <2>1 DEF ManageInv
  <2> QED BY <2>1, <2>2
<1>3. \A f \in pending : f.nonce # e.nonce
  BY <1>1 DEF ManageInv
<1>4. ManageInv'
  <2>1. pending' \subseteq Envelopes /\ applied' \in [Nonces -> Nat]
    BY <1>1 DEF ManageInv
  <2>2. \A f \in pending' : /\ f.signed /\ f.action = "revoke"
                            /\ f.nonce \in seen_nonces' /\ applied'[f.nonce] = 0
    BY <1>1, <1>2 DEF ManageInv
  <2>3. \A f, g \in pending' : f.nonce = g.nonce => f = g
    BY <1>1, <1>3 DEF ManageInv
  <2>4. \A n \in Nonces : applied'[n] <= 1 /\ (applied'[n] > 0 => n \in seen_nonces')
    BY <1>1 DEF ManageInv
  <2> QED BY <2>1, <2>2, <2>3, <2>4 DEF ManageInv
<1>5. NoRevokeLost'
  <2> SUFFICES ASSUME NEW f \in Envelopes, f.signed, f.action = "revoke", f.nonce \in seen_nonces'
               PROVE  f \in pending' \/ applied'[f.nonce] > 0
    BY DEF NoRevokeLost
  <2>1. CASE f.nonce = e.nonce
    BY <1>1, <2>1, NonceAssumption
  <2>2. CASE f.nonce # e.nonce
    BY <1>1, <2>2 DEF NoRevokeLost
  <2> QED BY <2>1, <2>2
<1> QED BY <1>4, <1>5

LEMMA ManageApplyHolds ==
  ASSUME ManageInv, NoRevokeLost, NEW e \in Envelopes, ManageApply(e)
  PROVE  ManageInv' /\ NoRevokeLost'
<1>1. /\ e \in pending /\ pending' = pending \ {e} /\ seen_nonces' = seen_nonces
      /\ applied' = [applied EXCEPT ![e.nonce] = applied[e.nonce] + 1]
  BY DEF ManageApply, Store!Revoke
<1>2. e.nonce \in Nonces /\ applied[e.nonce] = 0 /\ e.nonce \in seen_nonces
  BY <1>1, EnvelopeFields DEF ManageInv
<1>3. /\ applied' \in [Nonces -> Nat] /\ applied'[e.nonce] = 1
      /\ \A n \in Nonces \ {e.nonce} : applied'[n] = applied[n]
  BY <1>1, <1>2 DEF ManageInv
<1>4. \A f \in pending' : f \in pending /\ f.nonce \in Nonces /\ f.nonce # e.nonce
  BY <1>1, EnvelopeFields DEF ManageInv
<1>5. ManageInv'
  <2>1. pending' \subseteq Envelopes
    BY <1>1 DEF ManageInv
  <2>2. \A f \in pending' : /\ f.signed /\ f.action = "revoke"
                            /\ f.nonce \in seen_nonces' /\ applied'[f.nonce] = 0
    BY <1>1, <1>3, <1>4 DEF ManageInv
  <2>3. \A f, g \in pending' : f.nonce = g.nonce => f = g
    BY <1>4 DEF ManageInv
  <2>4. \A n \in Nonces : applied'[n] <= 1 /\ (applied'[n] > 0 => n \in seen_nonces')
    BY <1>1, <1>2, <1>3 DEF ManageInv
  <2> QED BY <1>3, <2>1, <2>2, <2>3, <2>4 DEF ManageInv
<1>6. NoRevokeLost'
  <2> SUFFICES ASSUME NEW f \in Envelopes, f.signed, f.action = "revoke", f.nonce \in seen_nonces'
               PROVE  f \in pending' \/ applied'[f.nonce] > 0
    BY DEF NoRevokeLost
  <2>1. f.nonce \in Nonces
    BY EnvelopeFields
  <2>2. CASE f.nonce = e.nonce
    BY <1>3, <2>2
  <2>3. CASE f.nonce # e.nonce
    <3>1. f \in pending \/ applied[f.nonce] > 0
      BY <1>1 DEF NoRevokeLost
    <3> QED BY <1>1, <1>3, <2>1, <2>3, <3>1
  <2> QED BY <2>2, <2>3
<1> QED BY <1>5, <1>6

\* The invariant of /manage, and with it NoRevokeLost.
THEOREM ManageInvariant == Spec => [](ManageInv /\ NoRevokeLost)
<1>1. ASSUME ManageInv, NoRevokeLost, [Next]_vars PROVE ManageInv' /\ NoRevokeLost'
  <2>1. ASSUME NEW e \in Envelopes, ManageBegin(e) PROVE ManageInv' /\ NoRevokeLost'
    BY <1>1, <2>1, ManageBeginHolds
  <2>2. ASSUME NEW e \in Envelopes, ManageApply(e) PROVE ManageInv' /\ NoRevokeLost'
    BY <1>1, <2>2, ManageApplyHolds
  <2>3. CASE Restart
    <3>1. pending' = {} /\ applied' = [n \in Nonces |-> 0] /\ seen_nonces' = {}
      BY <2>3 DEF Restart, Store!Restart
    <3> QED BY <3>1 DEF ManageInv, NoRevokeLost
  <2>4. ASSUME UNCHANGED <<pending, applied, seen_nonces>> PROVE ManageInv' /\ NoRevokeLost'
    BY <1>1, <2>4 DEF ManageInv, NoRevokeLost
  <2>5. ASSUME NEW pk \in Pubkeys, NEW c \in Credentials, NEW t \in Tokens, EnrollHandler(pk, c, t)
        PROVE  UNCHANGED <<pending, applied, seen_nonces>>
    BY <2>5 DEF EnrollHandler, Store!Enroll, manage
  <2>6. ASSUME NEW s \in Streams, ChatStep(s) PROVE UNCHANGED <<pending, applied, seen_nonces>>
    BY <2>6 DEF ChatStep, store, manage
  <2>7. CASE UNCHANGED vars
    BY <2>4, <2>7 DEF vars, store, manage
  <2> QED BY <1>1, <2>1, <2>2, <2>3, <2>4, <2>5, <2>6, <2>7 DEF Next
<1> QED BY <1>1, InitHolds, PTL DEF Spec

\* However often and concurrently an envelope is delivered, the two locks
\* /manage takes apply it at most once per process.
THEOREM NonceNeverAppliedTwice == Spec => []NonceAppliedOnce
<1>1. ManageInv => NonceAppliedOnce
  BY DEF ManageInv, NonceAppliedOnce
<1> QED BY <1>1, ManageInvariant, PTL

\* A signed revoke is refused as a replay only when it has been applied or is
\* about to be, given that the Orchestrator signs no nonce twice.
THEOREM RevokeNeverLost == Spec => []NoRevokeLost
BY ManageInvariant, PTL

-----------------------------------------------------------------------------
(* The store inside the service: what MemberStoreProofs shows of the store *)
(* alone holds between the handlers' steps.                                *)

Base == INSTANCE MemberStoreProofs

\* The constants are what MemberStore assumes of them.
LEMMA StoreConstants ==
  /\ DEVICE_CAP \in Nat \ {0} /\ None \notin Pubkeys /\ None \notin Base!Hashes
  /\ Manifest \subseteq Pubkeys \X Base!Hashes /\ None \notin Base!Member
BY StoreAssumption DEF Store!Hashes, Base!Hashes, Store!Member, Base!Member

LEMMA EnrollCall ==
  ASSUME NEW pk \in Pubkeys, NEW h \in Store!Hashes, NEW t \in Tokens, Store!Enroll(pk, h, t)
  PROVE  Base!Enroll(pk, h, t)
BY DEF Store!Enroll, Base!Enroll, Store!InManifest, Base!InManifest,
       Store!Fresh, Base!Fresh, Store!insert, Base!insert,
       Store!InsertMember, Base!InsertMember, Store!InsertIndex, Base!InsertIndex,
       Store!Push, Base!Push, Store!Newest, Base!Newest, Store!Evicted, Base!Evicted,
       Store!Sessions, Base!Sessions, Store!IsMember, Base!IsMember

LEMMA RevokeCall ==
  ASSUME NEW h \in Store!Hashes, Store!Revoke(h)
  PROVE  Base!Revoke(h)
BY DEF Store!Revoke, Base!Revoke, Store!IssuedUnder, Base!IssuedUnder,
       Store!Holders, Base!Holders, Store!IsMember, Base!IsMember,
       Store!Remove, Base!Remove, Store!Range, Base!Range

LEMMA NoteCall ==
  ASSUME NEW n \in Nonces, Store!note_nonce(n)
  PROVE  Base!note_nonce(n)
BY DEF Store!note_nonce, Base!note_nonce, Store!history, Base!history

LEMMA RestartCall == Store!Restart => Base!Restart
BY DEF Store!Restart, Base!Restart

\* What each handler's step is to the store.
LEMMA HandlerCalls ==
  /\ \A pk \in Pubkeys, c \in Credentials, t \in Tokens :
       EnrollHandler(pk, c, t) =>
         \E h \in Store!Hashes : Base!Enroll(pk, h, t) /\ stream' = stream
  /\ \A e \in Envelopes : ManageBegin(e) =>
       Base!note_nonce(e.nonce) /\ e.nonce \in Nonces /\ stream' = stream
  /\ \A e \in Envelopes : ManageApply(e) =>
       Base!Revoke(e.hash) /\ e.hash \in Store!Hashes /\ stream' = stream
  /\ \A s \in Streams : ChatStep(s) => UNCHANGED Base!vars
  /\ Restart => Base!Restart
<1>1. ASSUME NEW pk \in Pubkeys, NEW c \in Credentials, NEW t \in Tokens,
             EnrollHandler(pk, c, t)
      PROVE  \E h \in Store!Hashes : Base!Enroll(pk, h, t) /\ stream' = stream
  <2>1. MemberHash(c) \in Store!Hashes
    BY DEF MemberHash, Credentials, Store!Hashes
  <2>2. Store!Enroll(pk, MemberHash(c), t) /\ stream' = stream
    BY <1>1 DEF EnrollHandler
  <2> QED BY <2>1, <2>2, EnrollCall
<1>2. ASSUME NEW e \in Envelopes, ManageBegin(e)
      PROVE  Base!note_nonce(e.nonce) /\ e.nonce \in Nonces /\ stream' = stream
  BY <1>2, EnvelopeFields, NoteCall DEF ManageBegin, NoteNonce
<1>3. ASSUME NEW e \in Envelopes, ManageApply(e)
      PROVE  Base!Revoke(e.hash) /\ e.hash \in Store!Hashes /\ stream' = stream
  BY <1>3, EnvelopeFields, RevokeCall DEF ManageApply
<1>4. ASSUME NEW s \in Streams, ChatStep(s) PROVE UNCHANGED Base!vars
  BY <1>4 DEF ChatStep, store, Base!vars
<1>5. Restart => Base!Restart
  BY RestartCall DEF Restart
<1> QED BY <1>1, <1>2, <1>3, <1>4, <1>5

\* Whatever the handlers interleave, the store the clients meet is the one
\* MemberStoreProofs is about.
THEOREM ServiceRunsStore == Spec => Base!Spec
<1>1. Init => Base!Init
  BY DEF Init, Base!Init, Store!Init
<1>2. ASSUME [Next]_vars PROVE [Base!Next]_(Base!vars)
  <2>1. CASE Next
    <3>1. Store!Hashes = Base!Hashes
      BY DEF Store!Hashes, Base!Hashes
    <3> QED BY <2>1, <3>1, HandlerCalls DEF Next, Base!Next
  <2>2. CASE UNCHANGED vars
    BY <2>2 DEF vars, store, Base!vars
  <2> QED BY <1>2, <2>1, <2>2
<1> QED BY <1>1, <1>2, PTL DEF Spec, Base!Spec

\* The store's invariant holds between any two steps of the service.
THEOREM ServiceStoreInvariant == Spec => []Base!StoreInv
BY ServiceRunsStore, Base!StoreInvariant, StoreConstants, PTL

-----------------------------------------------------------------------------
(* The allowlist the chat streams see *)

\* The bearers that were accepted and no longer are.
Retired == {t \in Tokens : ~Base!Fresh(t)} \ Base!Accepted

\* The change of the allowlist from now on, as ChatRelay's steps state it.
Changes(now) ==
  /\ now \cap Retired = {}
  /\ Base!Accepted' = now
  /\ Retired' = Retired \cup (Base!Accepted \ now)

\* ChatRelay's steps, in terms of the store's own definitions.
LEMMA AllowlistSteps ==
  /\ \A t \in Tokens :
       t \notin Base!Accepted /\ Changes(Base!Accepted \cup {t}) /\ stream' = stream
         => Chat!Allow(t)
  /\ \A T \in SUBSET Tokens :
       T # {} /\ T \subseteq Base!Accepted /\ Changes(Base!Accepted \ T) /\ stream' = stream
         => Chat!Disallow(T)
  /\ \A t, u \in Tokens :
       t \notin Base!Accepted /\ u \in Base!Accepted /\ Changes((Base!Accepted \cup {t}) \ {u})
         /\ stream' = stream
         => Chat!Replace(t, u)
<1>1. \A t \in Tokens :
        t \notin Base!Accepted /\ Changes(Base!Accepted \cup {t}) /\ stream' = stream
          => Chat!Allow(t)
  BY DEF Chat!Allow, Chat!Change, Changes,
         Store!Accepted, Base!Accepted, Store!contains_token, Base!contains_token, Retired, Base!Fresh
<1>2. \A T \in SUBSET Tokens :
        T # {} /\ T \subseteq Base!Accepted /\ Changes(Base!Accepted \ T) /\ stream' = stream
          => Chat!Disallow(T)
  BY DEF Chat!Disallow, Chat!Change, Changes,
         Store!Accepted, Base!Accepted, Store!contains_token, Base!contains_token, Retired, Base!Fresh
<1>3. \A t, u \in Tokens :
        t \notin Base!Accepted /\ u \in Base!Accepted /\ Changes((Base!Accepted \cup {t}) \ {u})
         /\ stream' = stream
          => Chat!Replace(t, u)
  BY DEF Chat!Replace, Chat!Change, Changes,
         Store!Accepted, Base!Accepted, Store!contains_token, Base!contains_token, Retired, Base!Fresh
<1> QED BY <1>1, <1>2, <1>3, Zenon

\* Every listed bearer is accepted, and every accepted one has been minted.
LEMMA ListedAccepted ==
  ASSUME Base!StoreInv
  PROVE  /\ \A pk \in Pubkeys : Base!Range(Base!Sessions(pk)) \subseteq Base!Accepted
         /\ \A t \in Base!Accepted : ~Base!Fresh(t)
<1>1. ASSUME NEW pk \in Pubkeys, NEW t \in Base!Range(Base!Sessions(pk)) PROVE t \in Base!Accepted
  <2>1. t \in Tokens
    BY Base!SessionsType, Base!RangeLen, StoreConstants DEF Base!StoreInv
  <2>2. by_token[t] = pk
    BY <2>1 DEF Base!StoreInv, Base!IndexCoherent
  <2> QED BY <2>1, <2>2, StoreAssumption DEF Base!Accepted, Base!contains_token
<1>2. ASSUME NEW t \in Base!Accepted PROVE ~Base!Fresh(t)
  <2>1. t \in Tokens /\ by_token[t] \in Pubkeys
    BY DEF Base!Accepted, Base!contains_token, Base!StoreInv, Base!TypeOK
  <2> QED BY <2>1 DEF Base!StoreInv, Base!IndexCoherent, Base!ListedAreMinted
<1> QED BY <1>1, <1>2

\* An enroll lists its bearer and drops at most one.
LEMMA EnrollChanges ==
  ASSUME Base!StoreInv, NEW pk \in Pubkeys, NEW h \in Store!Hashes, NEW t \in Tokens,
         Base!Enroll(pk, h, t), stream' = stream
  PROVE  Chat!Next
<1> DEFINE s == Base!Sessions(pk)
           gone == Base!Evicted(Base!Push(pk, t))
<1>1. /\ t \notin Base!Accepted /\ t \notin Retired
      /\ Base!Accepted \cap Retired = {}
  BY ListedAccepted DEF Base!Enroll, Retired
<1>2. s \in Seq(Tokens) /\ Len(s) \in Nat /\ Len(s) <= DEVICE_CAP
  BY Base!SessionsType, StoreConstants DEF Base!StoreInv, Base!SlotsBounded, Base!Sessions
<1>3. gone = {} \/ \E u \in Base!Accepted : gone = {u}
  <2>1. /\ Len(Base!Push(pk, t)) = Len(s) + 1
        /\ Len(s) > 0 => Base!Push(pk, t)[1] = s[1] /\ s[1] \in Base!Range(s)
    BY <1>2 DEF Base!Push, Base!Range
  <2>2. CASE Len(s) < DEVICE_CAP
    <3>1. 1 .. (Len(Base!Push(pk, t)) - DEVICE_CAP) = {}
      BY <1>2, <2>1, <2>2, StoreAssumption
    <3> QED BY <3>1 DEF Base!Evicted
  <2>3. CASE Len(s) = DEVICE_CAP
    <3>1. 1 .. (Len(Base!Push(pk, t)) - DEVICE_CAP) = {1} /\ Len(s) > 0
      BY <1>2, <2>1, <2>3, StoreAssumption
    <3>2. gone = {s[1]}
      BY <3>1, <2>1 DEF Base!Evicted
    <3> QED BY <3>1, <3>2, <2>1, ListedAccepted
  <2> QED BY <1>2, <2>2, <2>3, StoreAssumption
<1> HIDE DEF gone
<1>4. Base!Accepted' = (Base!Accepted \cup {t}) \ (gone \ {t})
  <2>1. by_token' = [u \in Tokens |-> IF u = t THEN pk ELSE IF u \in gone THEN None ELSE by_token[u]]
    BY DEF Base!Enroll, Base!insert, Base!InsertIndex, gone
  <2> QED BY <2>1, StoreAssumption DEF Base!Accepted, Base!contains_token
<1>5. {u \in Tokens : ~Base!Fresh(u)}' = {u \in Tokens : ~Base!Fresh(u)} \cup {t}
  BY StoreAssumption DEF Base!Enroll, Base!Fresh, Base!StoreInv, Base!TypeOK
<1>6. Retired' = ({u \in Tokens : ~Base!Fresh(u)} \cup {t}) \ Base!Accepted'
  BY <1>5 DEF Retired
<1>7. Base!Accepted \subseteq {u \in Tokens : ~Base!Fresh(u)}
  BY ListedAccepted DEF Base!Accepted
<1>8. CASE gone = {}
  <2>1. Base!Accepted' = Base!Accepted \cup {t}
    BY <1>4, <1>8
  <2>2. Retired' = Retired \cup (Base!Accepted \ (Base!Accepted \cup {t}))
    BY <1>1, <1>6, <2>1 DEF Retired
  <2>3. Changes(Base!Accepted \cup {t})
    BY <1>1, <2>1, <2>2 DEF Changes
  <2>4. Chat!Allow(t)
    BY <1>1, <2>3, AllowlistSteps
  <2> QED BY <2>4 DEF Chat!Next
<1>9. ASSUME NEW u \in Base!Accepted, gone = {u} PROVE Chat!Next
  <2>1. Base!Accepted' = (Base!Accepted \cup {t}) \ {u}
    BY <1>1, <1>4, <1>9
  <2>2. Retired' = Retired \cup (Base!Accepted \ ((Base!Accepted \cup {t}) \ {u}))
    BY <1>1, <1>6, <1>7, <2>1 DEF Retired
  <2>3. Changes((Base!Accepted \cup {t}) \ {u}) /\ u \in Tokens
    BY <1>1, <2>1, <2>2 DEF Changes, Base!Accepted
  <2>4. Chat!Replace(t, u)
    BY <1>1, <2>3, AllowlistSteps
  <2> QED BY <2>3, <2>4 DEF Chat!Next
<1> QED BY <1>3, <1>8, <1>9

\* A revoke drops a member's bearers, or changes nothing.
LEMMA RevokeChanges ==
  ASSUME Base!StoreInv, NEW h \in Store!Hashes, Base!Revoke(h), stream' = stream
  PROVE  Chat!Next \/ (Base!Accepted' = Base!Accepted /\ Retired' = Retired)
<1>1. {u \in Tokens : ~Base!Fresh(u)}' = {u \in Tokens : ~Base!Fresh(u)}
  BY DEF Base!Revoke, Base!Fresh
<1>2. CASE UNCHANGED by_token
  BY <1>1, <1>2 DEF Base!Accepted, Base!contains_token, Retired
<1>3. ASSUME NEW pk \in Base!Holders(h), Base!Remove(pk) PROVE Chat!Next
  <2> DEFINE gone == Base!Range(Base!Sessions(pk))
  <2>1. pk \in Pubkeys /\ Base!IsMember(pk) /\ Base!Sessions(pk) = by_pubkey[pk].sessions
    BY DEF Base!Holders, Base!Sessions
  <2>2. gone \subseteq Base!Accepted
    BY <2>1, ListedAccepted
  <2>3. gone # {}
    <3>1. Base!Sessions(pk) \in Seq(Tokens) /\ Len(Base!Sessions(pk)) \in 1 .. DEVICE_CAP
      BY <2>1, Base!SessionsType, StoreConstants DEF Base!StoreInv, Base!SlotsBounded
    <3>2. Base!Sessions(pk)[1] \in gone
      BY <3>1, StoreAssumption DEF Base!Range
    <3> QED BY <3>2
  <2>4. by_token' = [t \in Tokens |-> IF t \in gone THEN None ELSE by_token[t]]
    BY <1>3, <2>1 DEF Base!Remove
  <2> HIDE DEF gone
  <2>a. PICK T \in SUBSET Tokens : T = gone
    BY <2>2 DEF Base!Accepted
  <2>5. Base!Accepted' = Base!Accepted \ T
    BY <2>4, <2>a DEF Base!Accepted, Base!contains_token
  <2>6. Base!Accepted \subseteq {u \in Tokens : ~Base!Fresh(u)}
    BY ListedAccepted DEF Base!Accepted
  <2>7. Retired' = Retired \cup (Base!Accepted \ (Base!Accepted \ T))
    BY <1>1, <2>2, <2>a, <2>5, <2>6 DEF Retired
  <2>8. Changes(Base!Accepted \ T)
    <3>1. (Base!Accepted \ T) \cap Retired = {}
      BY DEF Retired
    <3> QED BY <2>5, <2>7, <3>1 DEF Changes
  <2>9. Chat!Disallow(T)
    BY <2>2, <2>3, <2>a, <2>8, AllowlistSteps
  <2> QED BY <2>9 DEF Chat!Next
<1> QED BY <1>2, <1>3 DEF Base!Revoke

\* A step of the service is one of ChatRelay, or changes nothing it knows.
LEMMA RelayStep ==
  ASSUME Base!StoreInv, [Next]_vars
  PROVE  [Chat!Next]_(Chat!vars)
<1>1. ASSUME Base!Accepted' = Base!Accepted, Retired' = Retired, stream' = stream
      PROVE  UNCHANGED Chat!vars
  BY <1>1 DEF Chat!vars, Store!Accepted, Base!Accepted,
              Store!contains_token, Base!contains_token, Retired, Base!Fresh
<1>2. UNCHANGED <<by_token, minted_as>> => Base!Accepted' = Base!Accepted /\ Retired' = Retired
  BY DEF Base!Accepted, Base!contains_token, Retired, Base!Fresh
<1>3. ASSUME NEW pk \in Pubkeys, NEW c \in Credentials, NEW t \in Tokens,
             EnrollHandler(pk, c, t)
      PROVE  Chat!Next
  BY <1>3, HandlerCalls, EnrollChanges
<1>4. ASSUME NEW e \in Envelopes, ManageBegin(e) PROVE UNCHANGED Chat!vars
  BY <1>1, <1>2, <1>4, HandlerCalls DEF Base!note_nonce, Base!history
<1>5. ASSUME NEW e \in Envelopes, ManageApply(e)
      PROVE  Chat!Next \/ UNCHANGED Chat!vars
  BY <1>1, <1>5, HandlerCalls, RevokeChanges
<1>6. ASSUME NEW s \in Streams, ChatStep(s) PROVE Chat!Next
  BY <1>6 DEF ChatStep, Chat!Next
<1>7. CASE Restart
  BY <1>7 DEF Restart, Chat!Next
<1>8. CASE UNCHANGED vars
  BY <1>1, <1>2, <1>8 DEF vars, store
<1> QED BY <1>3, <1>4, <1>5, <1>6, <1>7, <1>8 DEF Next

\* A bearer that is gone never comes back: in the service, the allowlist
\* changes under the chat streams only as ChatRelay allows for.
THEOREM RelayImplemented == Spec => ImplementsRelay
<1>1. Init => Chat!Init
  BY DEF Init, Store!Init, Chat!Init, Store!Accepted,
         Store!contains_token
<1>2. Base!StoreInv /\ [Next]_vars => [Chat!Next]_(Chat!vars)
  BY RelayStep
<1> QED BY <1>1, <1>2, ServiceStoreInvariant, PTL
      DEF Spec, ImplementsRelay, Chat!Spec

-----------------------------------------------------------------------------
(* The streams inside the service *)

StreamType ==
  [pc : {"idle"} \cup Chat!Running \cup Chat!Ended, bearer : Tokens \cup {None},
   yielded : 0 .. MaxFrames, chan : Seq(0 .. MaxFrames), rx : BOOLEAN,
   body : Seq(0 .. MaxFrames), late_queued : Nat]

StreamsTyped ==
  /\ stream \in [Streams -> StreamType]
  /\ \A s \in Streams : Len(stream[s].chan) <= CHANNEL_CAP

\* A step of one stream.
LEMMA OwnStream ==
  ASSUME StreamsTyped, NEW s \in Streams, NEW rec \in StreamType,
         stream' = [stream EXCEPT ![s] = rec], Len(rec.chan) <= CHANNEL_CAP
  PROVE  StreamsTyped'
<1>1. /\ stream' \in [Streams -> StreamType] /\ stream'[s] = rec
      /\ \A q \in Streams \ {s} : stream'[q] = stream[q]
  BY DEF StreamsTyped
<1>2. \A q \in Streams : Len(stream'[q].chan) <= CHANNEL_CAP
  BY <1>1 DEF StreamsTyped
<1> QED BY <1>1, <1>2 DEF StreamsTyped, StreamType

\* The handler or the relay task moves on and queues nothing.
LEMMA MoveTyped ==
  ASSUME StreamsTyped, NEW s \in Streams, NEW pc \in Chat!Running \cup Chat!Ended,
         NEW bearer \in Tokens \cup {None}, NEW yielded \in 0 .. MaxFrames,
         stream' = [stream EXCEPT ![s].pc = pc, ![s].bearer = bearer, ![s].yielded = yielded]
  PROVE  StreamsTyped'
<1> DEFINE old == stream[s]
           rec == [old EXCEPT !.pc = pc, !.bearer = bearer, !.yielded = yielded]
<1>1. old \in StreamType /\ Len(old.chan) <= CHANNEL_CAP
  BY DEF StreamsTyped
<1>2. rec \in StreamType /\ rec.chan = old.chan
  BY <1>1 DEF StreamType
<1>3. stream' = [stream EXCEPT ![s] = rec]
  BY <1>1 DEF StreamType, StreamsTyped
<1> HIDE DEF rec
<1> QED BY <1>1, <1>2, <1>3, OwnStream

\* A frame is put into the channel.
LEMMA QueueTyped ==
  ASSUME StreamsTyped, NEW s \in Streams, NEW f \in 0 .. MaxFrames,
         NEW pc \in Chat!Running \cup Chat!Ended, Chat!Queue(s, f, pc)
  PROVE  StreamsTyped'
<1> DEFINE old == stream[s]
           late == Chat!Late(s, f)
           rec == [old EXCEPT !.chan = Append(old.chan, f), !.pc = pc,
                              !.late_queued = old.late_queued + late]
<1>1. old \in StreamType /\ stream \in [Streams -> StreamType]
  BY DEF StreamsTyped
<1>2. old.chan \in Seq(0 .. MaxFrames) /\ old.late_queued \in Nat /\ Len(old.chan) < CHANNEL_CAP
  BY <1>1 DEF StreamType, Chat!Queue, Chat!HasSlot
<1>3. late \in Nat
  BY DEF Chat!Late
<1>4. stream' = [stream EXCEPT ![s] = rec]
  BY <1>1 DEF Chat!Queue, StreamType
<1> HIDE DEF late
<1>5. /\ Append(old.chan, f) \in Seq(0 .. MaxFrames) /\ old.late_queued + late \in Nat
      /\ Len(Append(old.chan, f)) <= CHANNEL_CAP
  BY <1>2, <1>3, AppendProperties, LenProperties, RelayAssumption
<1>6. rec \in StreamType /\ rec.chan = Append(old.chan, f)
  BY <1>1, <1>5 DEF StreamType
<1> HIDE DEF rec
<1> QED BY <1>4, <1>5, <1>6, OwnStream

\* The response body yields the oldest frame.
LEMMA PollBodyTyped ==
  ASSUME StreamsTyped, NEW s \in Streams, Chat!PollBody(s)
  PROVE  StreamsTyped'
<1> DEFINE old == stream[s]
           f == Head(old.chan)
           rec == [old EXCEPT !.body = Append(old.body, f), !.chan = Tail(old.chan)]
<1>1. old \in StreamType /\ stream \in [Streams -> StreamType] /\ Len(old.chan) <= CHANNEL_CAP
  BY DEF StreamsTyped
<1>2. /\ old.chan \in Seq(0 .. MaxFrames) /\ old.body \in Seq(0 .. MaxFrames)
      /\ old.chan # <<>>
  BY <1>1 DEF StreamType, Chat!PollBody
<1>3. stream' = [stream EXCEPT ![s] = rec]
  BY <1>1 DEF Chat!PollBody, StreamType
<1>4. /\ f \in 0 .. MaxFrames /\ Tail(old.chan) \in Seq(0 .. MaxFrames)
      /\ Len(Tail(old.chan)) = Len(old.chan) - 1 /\ Len(old.chan) \in Nat
  BY <1>2, HeadTailProperties, LenProperties, EmptySeq
<1>5. Append(old.body, f) \in Seq(0 .. MaxFrames) /\ Len(Tail(old.chan)) <= CHANNEL_CAP
  <2>1. Append(old.body, f) \in Seq(0 .. MaxFrames)
    BY <1>2, <1>4, AppendProperties
  <2>2. \A k, l \in Nat : l = k - 1 /\ k <= CHANNEL_CAP => l <= CHANNEL_CAP
    BY RelayAssumption
  <2>3. Len(Tail(old.chan)) \in Nat
    BY <1>4, LenProperties
  <2> QED BY <1>1, <1>4, <2>1, <2>2, <2>3
<1>6. rec \in StreamType /\ rec.chan = Tail(old.chan)
  BY <1>1, <1>4, <1>5 DEF StreamType
<1> HIDE DEF rec
<1> QED BY <1>3, <1>5, <1>6, OwnStream

\* The client leaves, or the process dies: the receiver goes.
LEMMA DroppedTyped ==
  ASSUME NEW old \in StreamType,
         NEW pc \in {"idle"} \cup Chat!Running \cup Chat!Ended,
         NEW rec, rec = [old EXCEPT !.rx = FALSE, !.chan = <<>>, !.pc = pc]
  PROVE  rec \in StreamType /\ Len(rec.chan) <= CHANNEL_CAP
<1>1. <<>> \in Seq(0 .. MaxFrames) /\ Len(<<>>) = 0
  BY EmptySeq
<1>2. rec \in StreamType /\ rec.chan = <<>>
  BY <1>1 DEF StreamType
<1> QED BY <1>1, <1>2, RelayAssumption

LEMMA HangUpTyped ==
  ASSUME StreamsTyped, NEW s \in Streams, Chat!HangUp(s)
  PROVE  StreamsTyped'
<1> DEFINE old == stream[s]
           pc == IF old.pc = "connect" THEN "hungup" ELSE old.pc
           rec == [old EXCEPT !.rx = FALSE, !.chan = <<>>, !.pc = pc]
<1>1. old \in StreamType /\ stream \in [Streams -> StreamType]
  BY DEF StreamsTyped
<1>2. pc \in {"idle"} \cup Chat!Running \cup Chat!Ended
  BY <1>1 DEF StreamType, Chat!Ended
<1>3. stream' = [stream EXCEPT ![s] = rec]
  BY <1>1 DEF Chat!HangUp, StreamType
<1> HIDE DEF pc
<1>4. rec \in StreamType /\ Len(rec.chan) <= CHANNEL_CAP
  BY <1>1, <1>2, DroppedTyped
<1> HIDE DEF rec
<1> QED BY <1>3, <1>4, OwnStream

LEMMA KillTyped ==
  ASSUME StreamsTyped, Chat!Kill
  PROVE  StreamsTyped'
<1>1. ASSUME NEW s \in Streams
      PROVE  stream'[s] \in StreamType /\ Len(stream'[s].chan) <= CHANNEL_CAP
  <2> DEFINE old == stream[s]
             pc == IF old.pc \in Chat!Running THEN "killed" ELSE old.pc
  <2>1. old \in StreamType /\ Len(old.chan) <= CHANNEL_CAP
    BY DEF StreamsTyped
  <2>2. CASE old.pc = "idle"
    BY <2>1, <2>2 DEF Chat!Kill
  <2>3. CASE old.pc # "idle"
    <3>1. stream'[s] = [old EXCEPT !.rx = FALSE, !.chan = <<>>, !.pc = pc]
      BY <2>1, <2>3 DEF Chat!Kill, StreamType
    <3>2. pc \in {"idle"} \cup Chat!Running \cup Chat!Ended
      BY <2>1 DEF StreamType, Chat!Ended
    <3> HIDE DEF old, pc
    <3> QED BY <2>1, <3>1, <3>2, DroppedTyped
  <2> QED BY <2>2, <2>3
<1>2. stream' \in [Streams -> StreamType]
  BY <1>1 DEF Chat!Kill
<1> QED BY <1>1, <1>2 DEF StreamsTyped, StreamType

LEMMA RelayTyped ==
  ASSUME StreamsTyped, NEW s \in Streams, Chat!Relay(s)
  PROVE  StreamsTyped'
<1>1. stream \in [Streams -> StreamType] /\ stream[s] \in StreamType
  BY DEF StreamsTyped
<1>2. stream[s].yielded \in 0 .. MaxFrames /\ stream[s].bearer \in Tokens \cup {None}
  BY <1>1 DEF StreamType
<1>3. ASSUME NEW pc \in Chat!Running \cup Chat!Ended, Chat!Goto(s, pc)
      PROVE  StreamsTyped'
  <2>1. stream' = [stream EXCEPT ![s].pc = pc, ![s].bearer = stream[s].bearer,
                                 ![s].yielded = stream[s].yielded]
    BY <1>1, <1>3 DEF Chat!Goto, StreamType
  <2> QED BY <1>2, <2>1, MoveTyped
<1>4. {"failed", "read", "eof", "error", "hungup", "revoked"}
        \subseteq Chat!Running \cup Chat!Ended
  BY DEF Chat!Running, Chat!Ended
<1>5. CASE \/ Chat!UpstreamRefuses(s) \/ Chat!UpstreamAccepts(s)
           \/ Chat!UpstreamEnds(s) \/ Chat!UpstreamBreaks(s)
  BY <1>3, <1>4, <1>5 DEF Chat!UpstreamRefuses, Chat!UpstreamAccepts,
     Chat!UpstreamEnds, Chat!UpstreamBreaks
<1>6. CASE Chat!NextFrame(s)
  <2>1. stream[s].yielded + 1 \in 0 .. MaxFrames
    BY <1>2, <1>6, RelayAssumption DEF Chat!NextFrame
  <2>2. PICK pc \in {"send", "cut"} : pc = Chat!CheckBearer(s)
    BY DEF Chat!CheckBearer
  <2>3. stream' = [stream EXCEPT ![s].pc = pc, ![s].bearer = stream[s].bearer,
                                 ![s].yielded = stream[s].yielded + 1]
    BY <1>1, <1>6, <2>2 DEF Chat!NextFrame, StreamType
  <2>4. pc \in Chat!Running \cup Chat!Ended
    BY DEF Chat!Running
  <2> QED BY <1>2, <2>1, <2>3, <2>4, MoveTyped
<1>7. CASE Chat!Send(s)
  BY <1>2, <1>3, <1>4, <1>7, QueueTyped DEF Chat!Send
<1>8. CASE Chat!Cut(s)
  <2>1. 0 \in 0 .. MaxFrames
    BY RelayAssumption
  <2> QED BY <1>3, <1>4, <1>8, <2>1, QueueTyped
        DEF Chat!Cut, Chat!AfterCut, Chat!REVOKED_FRAME
<1> QED BY <1>5, <1>6, <1>7, <1>8 DEF Chat!Relay

LEMMA StreamsTypedStep ==
  ASSUME StreamsTyped, [Chat!Next]_(Chat!vars)
  PROVE  StreamsTyped'
<1>1. ASSUME NEW s \in Streams, NEW t \in Tokens \cup {None}, Chat!Request(s, t)
      PROVE  StreamsTyped'
  <2>1. PICK pc \in {"connect", "refused"} :
          stream' = [stream EXCEPT ![s].bearer = t, ![s].pc = pc]
    BY <1>1 DEF Chat!Request, Chat!Authenticate
  <2>2. stream[s] \in StreamType /\ stream[s].yielded \in 0 .. MaxFrames
    BY DEF StreamsTyped, StreamType
  <2>3. stream' = [stream EXCEPT ![s].pc = pc, ![s].bearer = t, ![s].yielded = stream[s].yielded]
    BY <2>1, <2>2 DEF StreamsTyped, StreamType
  <2>4. pc \in Chat!Running \cup Chat!Ended
    BY DEF Chat!Running, Chat!Ended
  <2> QED BY <2>2, <2>3, <2>4, MoveTyped
<1>2. CASE stream' = stream
  BY <1>2 DEF StreamsTyped, StreamType
<1>3. CASE Chat!Next
  BY <1>1, <1>2, <1>3, RelayTyped, PollBodyTyped, HangUpTyped, KillTyped
     DEF Chat!Next, Chat!Allow, Chat!Disallow, Chat!Replace
<1> QED BY <1>2, <1>3 DEF Chat!vars

LEMMA ServiceTyped == Spec => [](Base!StoreInv /\ StreamsTyped)
<1>1. Init => StreamsTyped
  <2> SUFFICES ASSUME Init PROVE StreamsTyped
    OBVIOUS
  <2>1. /\ Chat!Fresh \in StreamType /\ Chat!Fresh.chan = <<>>
        /\ Len(<<>>) <= CHANNEL_CAP
    <3>1. <<>> \in Seq(0 .. MaxFrames) /\ Len(<<>>) = 0 /\ 0 \in 0 .. MaxFrames
      BY EmptySeq, RelayAssumption
    <3> QED BY <3>1, RelayAssumption DEF Chat!Fresh, StreamType
  <2>2. stream = [s \in Streams |-> Chat!Fresh]
    BY DEF Init
  <2> QED BY <2>1, <2>2 DEF StreamsTyped
<1>2. Base!StoreInv /\ StreamsTyped /\ [Next]_vars => StreamsTyped'
  BY RelayStep, StreamsTypedStep
<1> QED BY <1>1, <1>2, ServiceStoreInvariant, PTL DEF Spec

\* The state of the whole process is well typed: the store's, the streams'
\* and that of the /manage handlers.
THEOREM ServiceTypes == Spec => []TypeOK
<1>1. Base!StoreInv /\ StreamsTyped /\ ManageInv => TypeOK
  <2> SUFFICES ASSUME Base!StoreInv, StreamsTyped, ManageInv PROVE TypeOK
    OBVIOUS
  <2>1. Store!TypeOK
    BY DEF Base!StoreInv, Base!TypeOK, Store!TypeOK, Base!Member, Store!Member, Base!Hashes,
           Store!Hashes
  <2>2. Chat!TypeOK
    BY DEF StreamsTyped, StreamType, Chat!TypeOK, Store!Accepted
  <2> QED BY <2>1, <2>2 DEF TypeOK, ManageInv
<1> QED BY <1>1, ServiceTyped, ManageInvariant, PTL

-----------------------------------------------------------------------------
(* Revocation meets the streams *)

\* Only a stream's own request, task and connection, and the end of the
\* process, change it.
LEMMA OtherStream ==
  ASSUME StreamsTyped, NEW s \in Streams, NEW q \in Streams, q # s, NEW t \in Tokens \cup {None},
         Chat!Request(q, t) \/ Chat!Relay(q) \/ Chat!PollBody(q) \/ Chat!HangUp(q)
  PROVE  stream'[s] = stream[s]
<1>1. stream \in [Streams -> StreamType]
  BY DEF StreamsTyped
<1>2. CASE \/ Chat!Request(q, t) \/ Chat!PollBody(q)
           \/ Chat!HangUp(q) \/ Chat!NextFrame(q)
  BY <1>1, <1>2 DEF Chat!Request, Chat!Authenticate, Chat!PollBody, Chat!HangUp, Chat!NextFrame
<1>3. ASSUME NEW pc, Chat!Goto(q, pc) PROVE stream'[s] = stream[s]
  BY <1>1, <1>3 DEF Chat!Goto
<1>4. ASSUME NEW f, NEW pc, Chat!Queue(q, f, pc) PROVE stream'[s] = stream[s]
  BY <1>1, <1>4 DEF Chat!Queue
<1>5. CASE Chat!Relay(q)
  BY <1>2, <1>3, <1>4, <1>5 DEF Chat!Relay, Chat!UpstreamRefuses, Chat!UpstreamAccepts,
     Chat!UpstreamEnds, Chat!UpstreamBreaks, Chat!Send, Chat!Cut
<1> QED BY <1>2, <1>5

\* What one step makes of a stream: a request starts with an accepted bearer,
\* a running one keeps its bearer, and the lookup decides between send and
\* cut.
Moves(s) ==
  /\ stream'[s].pc \in Chat!Running =>
       \/ stream[s].pc \in Chat!Running /\ stream'[s].bearer = stream[s].bearer
       \/ stream'[s].bearer \in Store!Accepted
  /\ stream[s].pc = "read" /\ stream[s].bearer \notin Store!Accepted => stream'[s].pc # "send"
  /\ stream[s].pc = "read" /\ stream[s].bearer \in Store!Accepted => stream'[s].pc # "cut"

LEMMA RelayMoves ==
  ASSUME StreamsTyped, NEW s \in Streams, Chat!Relay(s)
  PROVE  Moves(s)
<1>1. stream \in [Streams -> StreamType] /\ stream[s] \in StreamType
  BY DEF StreamsTyped
<1>2. stream[s].pc \in Chat!Running
  BY DEF Chat!Relay, Chat!UpstreamRefuses, Chat!UpstreamAccepts, Chat!NextFrame,
     Chat!UpstreamEnds, Chat!UpstreamBreaks, Chat!Send, Chat!Cut, Chat!Running
<1>3. CASE Chat!NextFrame(s)
  <2>1. /\ stream'[s].bearer = stream[s].bearer
        /\ stream'[s].pc = IF stream[s].bearer \in Store!Accepted THEN "send" ELSE "cut"
    BY <1>1, <1>3 DEF Chat!NextFrame, Chat!CheckBearer, StreamType
  <2> QED BY <1>2, <2>1 DEF Moves
<1>4. ASSUME NEW pc, Chat!Goto(s, pc)
      PROVE  stream'[s].bearer = stream[s].bearer /\ stream'[s].pc = pc
  BY <1>1, <1>4 DEF Chat!Goto, StreamType
<1>5. CASE Chat!UpstreamEnds(s) \/ Chat!UpstreamBreaks(s)
  <2>1. stream'[s].bearer = stream[s].bearer /\ stream'[s].pc \in {"eof", "error"}
    BY <1>4, <1>5 DEF Chat!UpstreamEnds, Chat!UpstreamBreaks
  <2> QED BY <1>2, <2>1 DEF Moves
<1>6. CASE Chat!UpstreamRefuses(s) \/ Chat!UpstreamAccepts(s) \/ Chat!Send(s) \/ Chat!Cut(s)
  <2>1. stream[s].pc # "read"
    BY <1>6 DEF Chat!UpstreamRefuses, Chat!UpstreamAccepts, Chat!Send, Chat!Cut
  <2>2. ASSUME NEW f, NEW pc, Chat!Queue(s, f, pc) PROVE stream'[s].bearer = stream[s].bearer
    BY <1>1, <2>2 DEF Chat!Queue, StreamType
  <2>3. stream'[s].bearer = stream[s].bearer
    BY <1>4, <1>6, <2>2 DEF Chat!UpstreamRefuses, Chat!UpstreamAccepts, Chat!Send, Chat!Cut
  <2> QED BY <1>2, <2>1, <2>3 DEF Moves
<1> QED BY <1>3, <1>5, <1>6 DEF Chat!Relay

LEMMA KillEnds ==
  ASSUME StreamsTyped, Chat!Kill, NEW s \in Streams
  PROVE  stream'[s].pc \notin Chat!Running
<1>1. stream[s] \in StreamType
  BY DEF StreamsTyped
<1> QED BY <1>1 DEF Chat!Kill, Chat!Running, StreamType

LEMMA StreamMoves ==
  ASSUME StreamsTyped, [Chat!Next]_(Chat!vars), NEW s \in Streams
  PROVE  Moves(s)
<1>1. stream \in [Streams -> StreamType] /\ stream[s] \in StreamType
  BY DEF StreamsTyped
<1>2. CASE stream'[s] = stream[s]
  BY <1>2 DEF Moves
<1>3. ASSUME NEW t \in Tokens \cup {None}, Chat!Request(s, t) PROVE Moves(s)
  <2>1. /\ stream[s].pc = "idle" /\ stream'[s].bearer = t
        /\ stream'[s].pc = IF t \in Store!Accepted THEN "connect" ELSE "refused"
    BY <1>1, <1>3 DEF Chat!Request, Chat!Authenticate, StreamType
  <2> QED BY <2>1 DEF Moves, Chat!Running
<1>4. CASE Chat!PollBody(s) \/ Chat!HangUp(s)
  <2>1. /\ stream'[s].bearer = stream[s].bearer
        /\ stream'[s].pc \in {stream[s].pc, "hungup"}
    BY <1>1, <1>4 DEF Chat!PollBody, Chat!HangUp, StreamType
  <2> QED BY <2>1 DEF Moves, Chat!Running
<1>5. CASE Chat!Kill
  BY <1>5, KillEnds DEF Moves, Chat!Running
<1>6. CASE stream' = stream
  BY <1>2, <1>6
<1>7. ASSUME NEW q \in Streams, NEW t \in Tokens \cup {None},
             Chat!Request(q, t) \/ Chat!Relay(q) \/ Chat!PollBody(q) \/ Chat!HangUp(q)
      PROVE  Moves(s)
  <2>1. CASE q = s
    BY <1>3, <1>4, <1>7, <2>1, RelayMoves
  <2>2. CASE q # s
    BY <1>2, <1>7, <2>2, OtherStream
  <2> QED BY <2>1, <2>2
<1>8. CASE Chat!Next
  <2>1. None \in Tokens \cup {None}
    OBVIOUS
  <2> QED BY <1>5, <1>6, <1>7, <1>8, <2>1
        DEF Chat!Next, Chat!Allow, Chat!Disallow, Chat!Replace
<1> QED BY <1>6, <1>8 DEF Chat!vars

\* With a one-to-one manifest, a revoke reaches every running stream of the
\* member: the next data frame is replaced by the cut.
THEOREM RevokeAlwaysReachesStreams ==
  ASSUME Store!ManifestOneToOne
  PROVE  Spec => RevokeReachesStreams
<1>1. ASSUME Base!StoreInv, StreamsTyped, Base!RevokeComplete, [Next]_vars,
             NEW s \in Streams, stream[s].bearer \in revoked, stream[s].pc = "read"
      PROVE  stream'[s].pc # "send"
  <2>1. stream[s].bearer \notin Store!Accepted
    BY <1>1 DEF Base!RevokeComplete, Base!contains_token, Store!Accepted, Store!contains_token
  <2> QED BY <1>1, <2>1, RelayStep, StreamMoves DEF Moves
<1>2. Base!StoreInv /\ StreamsTyped /\ Base!RevokeComplete /\ [Next]_vars =>
        [\A s \in Streams : stream[s].bearer \in revoked /\ stream[s].pc = "read"
           => stream'[s].pc # "send"]_vars
  BY <1>1
<1>3. Base!Spec => []Base!RevokeComplete
  <2>1. Base!ManifestOneToOne
    BY DEF Store!ManifestOneToOne, Base!ManifestOneToOne
  <2> QED BY <2>1, Base!RevokeAlwaysComplete, StoreConstants
<1> QED BY <1>2, <1>3, ServiceTyped, ServiceRunsStore, PTL DEF Spec, RevokeReachesStreams

\* The bearer of a running stream was accepted when it began, and is still on
\* its pubkey's list or has been revoked.
RunningKnown ==
  \A s \in Streams : stream[s].pc \in Chat!Running =>
    stream[s].bearer \in Tokens /\ Base!Known(stream[s].bearer)

LEMMA RunningKnownStep ==
  ASSUME Store!ManifestOneToOne, Base!StoreInv, Base!LedgerInv, StreamsTyped, RunningKnown,
         [Next]_vars
  PROVE  RunningKnown'
<1> SUFFICES ASSUME NEW s \in Streams, stream'[s].pc \in Chat!Running
             PROVE  (stream[s].bearer \in Tokens /\ Base!Known(stream[s].bearer))'
  BY DEF RunningKnown, Chat!Running
<1>1. Moves(s)
  BY RelayStep, StreamMoves
<1>2. PICK t \in Tokens : t = stream'[s].bearer /\ Base!Known(t)
  <2>1. CASE stream[s].pc \in Chat!Running /\ stream'[s].bearer = stream[s].bearer
    BY <2>1 DEF RunningKnown
  <2>2. CASE stream'[s].bearer \in Store!Accepted
    <3>1. Store!Accepted = Base!Accepted /\ Store!Accepted \subseteq Tokens
      BY DEF Store!Accepted, Base!Accepted, Store!contains_token, Base!contains_token
    <3>2. \A u \in Base!Accepted : Base!Known(u)
      BY Base!ListsAndAllowlist, StoreConstants
    <3> QED BY <2>2, <3>1, <3>2
  <2> QED BY <1>1, <2>1, <2>2 DEF Moves
<1>3. ~Restart
  BY KillEnds DEF Restart
<1>4. Base!Serves
  <2>1. Store!Hashes = Base!Hashes
    BY DEF Store!Hashes, Base!Hashes
  <2>2. CASE Next
    BY <1>3, <2>1, <2>2, HandlerCalls DEF Next, Base!Serves
  <2>3. CASE UNCHANGED vars
    BY <2>3 DEF vars, store, Base!vars, Base!Serves
  <2> QED BY <2>2, <2>3
<1>5. Base!Known(t)'
  <2>1. Base!ManifestOneToOne
    BY DEF Store!ManifestOneToOne, Base!ManifestOneToOne
  <2> QED BY <1>2, <1>4, <2>1, Base!KnownStays, StoreConstants
<1> QED BY <1>2, <1>5 DEF Base!Known

\* With a one-to-one manifest, a stream is cut only when its bearer has been
\* revoked or DEVICE_CAP newer ones have been enrolled for its pubkey.
THEOREM NeverCutEarly ==
  ASSUME Store!ManifestOneToOne
  PROVE  Spec => CutOnlyGone
<1> DEFINE Cuts ==
      \A s \in Streams :
        stream[s].pc = "read" /\ stream'[s].pc = "cut" =>
          \/ stream[s].bearer \in revoked
          \/ \E pk \in Pubkeys : \E i \in 1 .. Len(enrolled[pk]) - DEVICE_CAP :
               enrolled[pk][i] = stream[s].bearer
<1>1. ASSUME Base!StoreInv, Base!LedgerInv, StreamsTyped, RunningKnown, [Next]_vars
      PROVE  Cuts
  <2> SUFFICES ASSUME NEW s \in Streams, stream[s].pc = "read", stream'[s].pc = "cut",
                      stream[s].bearer \notin revoked
               PROVE  \E pk \in Pubkeys : \E i \in 1 .. Len(enrolled[pk]) - DEVICE_CAP :
                        enrolled[pk][i] = stream[s].bearer
    OBVIOUS
  <2>1. stream[s].bearer \notin Base!Accepted
    <3>1. Store!Accepted = Base!Accepted
      BY DEF Store!Accepted, Base!Accepted, Store!contains_token, Base!contains_token
    <3> QED BY <1>1, <3>1, RelayStep, StreamMoves DEF Moves
  <2>a. PICK pk \in Pubkeys :
          \E i \in 1 .. Len(enrolled[pk]) : enrolled[pk][i] = stream[s].bearer
    BY <1>1 DEF RunningKnown, Base!Known, Chat!Running
  <2>2. PICK i \in 1 .. Len(enrolled[pk]) : enrolled[pk][i] = stream[s].bearer
    BY <2>a
  <2>3. ~(i > Len(enrolled[pk]) - DEVICE_CAP)
    BY <1>1, <2>1, <2>2, Base!ListsAndAllowlist, StoreConstants
  <2>4. Len(enrolled[pk]) \in Nat
    BY <1>1 DEF Base!StoreInv, Base!TypeOK
  <2>5. i \in 1 .. Len(enrolled[pk]) - DEVICE_CAP
    BY <2>3, <2>4, StoreAssumption
  <2> QED BY <2>2, <2>5
<1>2. Init => RunningKnown
  BY DEF Init, RunningKnown, Chat!Fresh, Chat!Running
<1>3. Base!StoreInv /\ Base!LedgerInv /\ StreamsTyped /\ RunningKnown /\ [Next]_vars
        => RunningKnown'
  BY RunningKnownStep
<1>4. Base!StoreInv /\ Base!LedgerInv /\ StreamsTyped /\ RunningKnown /\ [Next]_vars
        => [Cuts]_vars
  BY <1>1
<1>5. Base!Spec => []Base!LedgerInv
  BY Base!LedgerInvariant, StoreConstants
<1> QED BY <1>2, <1>3, <1>4, <1>5, ServiceTyped, ServiceRunsStore, PTL DEF Spec, CutOnlyGone
=============================================================================
