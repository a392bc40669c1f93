------------------------- MODULE AttestationProofs -------------------------
(***************************************************************************)
(* Proofs about Attestation, for any number of concurrent requests, GPUs,  *)
(* restarts and process ids.                                               *)
(***************************************************************************)
EXTENDS Attestation, SequenceTheorems, TLAPS

\* What a request's record may hold.
ReqType ==
  [pc : {"idle"} \cup Working \cup Done, nonce : ClientNonces \cup {None},
   entry : Names \cup {None}, quote : ReportData \cup {None}, gpus : Seq(Reports),
   board : Boards \cup {None}, listening : BOOLEAN]

\* What an answered request has been sent, by some start of the process up
\* to the b-th.
Complete(rec, b) ==
  /\ rec.board.checked =>
       rec.board.count = EXPECTED_GPU_COUNT /\ rec.board.cc /\ rec.board.mode = "NVLE"
  /\ \E k \in 0 .. b :
       /\ rec.quote = <<rec.nonce, k>>
       /\ rec.gpus = [i \in 1 .. EXPECTED_GPU_COUNT |->
            [gpu |-> i, over |-> <<rec.nonce, k, i>>]]

\* What a request has gathered at each place of its code, with the entries
\* t and in the b-th start: a nonce once it runs, no quote before it asks
\* for one, an entry over its own report data between the write and the
\* read, a quote of its own when it turns to the GPUs, and in the end all.
Gathered(rec, t, b) ==
  /\ rec.pc # "idle" => rec.nonce \in ClientNonces
  /\ rec.pc = "idle" => rec.quote = None
  /\ rec.pc = "read" => t[rec.entry] = <<rec.nonce, b>>
  /\ rec.pc = "gpu" => rec.quote # None
  /\ rec.pc \in Working /\ rec.quote # None => rec.quote = <<rec.nonce, b>>
  /\ rec.pc = "ok" => Complete(rec, b)

\* The inductive invariant.  EntriesAccounted makes the entry of a task its
\* own, so that no other task changes what Gathered says of it.
AttestationInv ==
  TypeOK /\ EntriesAccounted /\ \A r \in Requests : Gathered(req[r], tsm, boot)

LEMMA InvImplies == AttestationInv => NoCrossBinding /\ EnvelopeComplete
<1> SUFFICES ASSUME AttestationInv PROVE NoCrossBinding /\ EnvelopeComplete
  OBVIOUS
<1>1. NoCrossBinding
  BY DEF AttestationInv, Gathered, NoCrossBinding, report_data
<1>2. \A r \in Requests : req[r].pc = "ok" => Complete(req[r], boot)
  BY DEF AttestationInv, Gathered
<1>3. EnvelopeComplete
  BY <1>2 DEF EnvelopeComplete, Complete
<1> QED BY <1>1, <1>3

\* A task holding an entry holds one the kernel has, and shares it with no
\* other task.
LEMMA EntryHeld ==
  ASSUME TypeOK, EntriesAccounted, NEW r \in Requests, req[r].pc \in HoldsEntry
  PROVE  /\ req[r].entry \in DOMAIN tsm
         /\ req[r].entry \in Names
         /\ req[r].entry \notin orphans
         /\ \A q \in Requests \ {r} : req[q].pc \in HoldsEntry => req[q].entry # req[r].entry
BY DEF TypeOK, EntriesAccounted

LEMMA InitHolds == Init => AttestationInv
<1> SUFFICES ASSUME Init PROVE AttestationInv
  OBVIOUS
<1>1. TypeOK
  <2>1. DOMAIN tsm = {} /\ tsm \in [DOMAIN tsm -> ReportData \cup {None}]
    BY DEF Init
  <2>2. Fresh.gpus \in Seq(Reports)
    BY DEF Fresh
  <2>3. req \in [Requests -> ReqType]
    BY <2>2 DEF Init, Fresh, ReqType
  <2> QED BY <2>1, <2>3, RestartsAssumption DEF Init, TypeOK, ReqType
<1>2. \A r \in Requests : req[r].pc = "idle" /\ req[r].quote = None
  BY DEF Init, Fresh
<1>3. DOMAIN tsm = {} /\ orphans = {}
  BY DEF Init
<1>4. EntriesAccounted
  BY <1>2, <1>3 DEF EntriesAccounted, HoldsEntry
<1>5. \A r \in Requests : Gathered(req[r], tsm, boot)
  BY <1>2 DEF Gathered, Working
<1> QED BY <1>1, <1>4, <1>5 DEF AttestationInv

\* A step of one request that leaves the kernel's entries and the process
\* alone keeps the invariant when it keeps the request's own record in
\* order.
LEMMA OwnRecord ==
  ASSUME AttestationInv, NEW r \in Requests, NEW rec \in ReqType,
         req' = [req EXCEPT ![r] = rec],
         UNCHANGED <<process, tsm, orphans>>,
         rec.pc \in HoldsEntry <=> req[r].pc \in HoldsEntry,
         rec.entry = req[r].entry,
         Gathered(rec, tsm, boot)
  PROVE  AttestationInv'
<1>1. req' \in [Requests -> ReqType] /\ req'[r] = rec /\ \A q \in Requests \ {r} : req'[q] = req[q]
  BY DEF AttestationInv, TypeOK, ReqType
<1>2. tsm' = tsm /\ orphans' = orphans /\ pid' = pid /\ SEQ' = SEQ /\ boot' = boot
  BY DEF process
<1>3. TypeOK'
  BY <1>1, <1>2 DEF AttestationInv, TypeOK, ReqType
<1>4. EntriesAccounted'
  <2>1. \A q \in Requests : /\ req'[q].pc \in HoldsEntry <=> req[q].pc \in HoldsEntry
                           /\ req'[q].entry = req[q].entry
    BY <1>1
  <2>2. {req'[q].entry : q \in {p \in Requests : req'[p].pc \in HoldsEntry}}
          = {req[q].entry : q \in {p \in Requests : req[p].pc \in HoldsEntry}}
    BY <2>1
  <2> QED BY <1>2, <2>1, <2>2 DEF AttestationInv, EntriesAccounted
<1>5. \A q \in Requests : Gathered(req'[q], tsm', boot')
  BY <1>1, <1>2 DEF AttestationInv
<1> QED BY <1>3, <1>4, <1>5 DEF AttestationInv

\* What the other requests have gathered does not depend on an entry they
\* do not hold.
LEMMA OthersKeep ==
  ASSUME AttestationInv, NEW r \in Requests, NEW e, NEW t,
         \A q \in Requests \ {r} : req[q].pc \in HoldsEntry => req[q].entry # e,
         \A n \in DOMAIN tsm \ {e} : t[n] = tsm[n]
  PROVE  \A q \in Requests \ {r} : Gathered(req[q], t, boot)
<1> SUFFICES ASSUME NEW q \in Requests \ {r}
             PROVE  Gathered(req[q], t, boot)
  OBVIOUS
<1>1. Gathered(req[q], tsm, boot)
  BY DEF AttestationInv
<1>2. req[q].pc = "read" => t[req[q].entry] = tsm[req[q].entry]
  BY EntryHeld DEF AttestationInv, HoldsEntry
<1> QED BY <1>1, <1>2 DEF Gathered

LEMMA CreateEntryHolds ==
  ASSUME AttestationInv, NEW r \in Requests, CreateEntry(r)
  PROVE  AttestationInv'
<1> DEFINE e == <<pid, SEQ>>
<1>1. req[r] \in ReqType /\ req[r].pc = "quote" /\ req[r].nonce \in ClientNonces
  BY DEF AttestationInv, TypeOK, ReqType, CreateEntry, Gathered
<1>2. pid' = pid /\ SEQ' = SEQ + 1 /\ SEQ' \in Nat /\ boot' = boot /\ orphans' = orphans
  BY DEF AttestationInv, TypeOK, CreateEntry
<1>3. ASSUME e \notin DOMAIN tsm, tsm' = Named(e, None),
             req' = [req EXCEPT ![r].pc = "write", ![r].entry = e]
      PROVE  AttestationInv'
  <2>1. /\ req' \in [Requests -> ReqType]
        /\ req'[r] = [req[r] EXCEPT !.pc = "write", !.entry = e]
        /\ \A q \in Requests \ {r} : req'[q] = req[q]
    BY <1>1, <1>3 DEF AttestationInv, TypeOK, ReqType, Names, Working
  <2>2. /\ req'[r].pc = "write" /\ req'[r].entry = e
        /\ req'[r].nonce = req[r].nonce /\ req'[r].quote = req[r].quote
    BY <1>1, <2>1 DEF ReqType
  <2>3. /\ DOMAIN tsm' = DOMAIN tsm \cup {e} /\ e \in Names
        /\ \A n \in DOMAIN tsm : tsm'[n] = tsm[n]
        /\ tsm' \in [DOMAIN tsm' -> ReportData \cup {None}]
    BY <1>3 DEF Named, AttestationInv, TypeOK, Names
  <2>4. TypeOK'
    BY <1>2, <2>1, <2>3 DEF AttestationInv, TypeOK, ReqType
  <2>5. EntriesAccounted'
    <3>1. e \notin orphans /\ \A q \in Requests : req[q].pc \in HoldsEntry => req[q].entry # e
      BY <1>3, EntryHeld DEF AttestationInv, EntriesAccounted
    <3> HIDE DEF e
    <3>2. \A q \in Requests : req'[q].pc \in HoldsEntry <=> (q = r \/ req[q].pc \in HoldsEntry)
      BY <1>1, <2>1, <2>2 DEF HoldsEntry
    <3>3. {req'[q].entry : q \in {p \in Requests : req'[p].pc \in HoldsEntry}}
            = {req[q].entry : q \in {p \in Requests : req[p].pc \in HoldsEntry}} \cup {e}
      <4> DEFINE Old == {req[q].entry : q \in {p \in Requests : req[p].pc \in HoldsEntry}}
                 New == {req'[q].entry : q \in {p \in Requests : req'[p].pc \in HoldsEntry}}
      <4>1. \A q \in Requests : req[q].pc \in HoldsEntry => q # r /\ req'[q].entry = req[q].entry
        BY <1>1, <2>1 DEF HoldsEntry
      <4>2. ASSUME NEW x \in Old PROVE x \in New
        BY <3>2, <4>1
      <4>3. e \in New
        BY <2>2, <3>2
      <4>4. ASSUME NEW x \in New PROVE x = e \/ x \in Old
        <5>1. PICK q \in Requests : req'[q].pc \in HoldsEntry /\ x = req'[q].entry
          OBVIOUS
        <5>2. CASE q = r
          BY <2>2, <5>1, <5>2
        <5>3. CASE q # r
          BY <2>1, <5>1, <5>3
        <5> QED BY <5>2, <5>3
      <4> QED BY <4>2, <4>3, <4>4
    <3>4. DOMAIN tsm' = orphans' \cup {req'[q].entry : q \in {p \in Requests : req'[p].pc \in HoldsEntry}}
      BY <1>2, <2>3, <3>3 DEF AttestationInv, EntriesAccounted
    <3>5. ASSUME NEW p \in Requests, NEW q \in Requests, req'[p].pc \in HoldsEntry
          PROVE  /\ req'[p].entry \notin orphans'
                 /\ (req'[q].pc \in HoldsEntry /\ req'[q].entry = req'[p].entry => q = p)
      <4>1. req[p].pc \in HoldsEntry =>
              /\ req[p].entry \notin orphans
              /\ (req[q].pc \in HoldsEntry /\ req[q].entry = req[p].entry => q = p)
        BY DEF AttestationInv, EntriesAccounted
      <4>2. CASE p = r
        BY <1>2, <2>1, <2>2, <3>1, <3>2, <4>2
      <4>3. CASE p # r
        <5>1. req[p].pc \in HoldsEntry /\ req'[p].entry = req[p].entry
          BY <2>1, <3>5, <4>3
        <5>2. CASE q = r
          BY <1>2, <2>2, <3>1, <4>1, <5>1, <5>2
        <5>3. CASE q # r
          BY <1>2, <2>1, <4>1, <5>1, <5>3
        <5> QED BY <5>2, <5>3
      <4> QED BY <4>2, <4>3
    <3> QED BY <3>4, <3>5 DEF EntriesAccounted
  <2>6. \A q \in Requests : Gathered(req'[q], tsm', boot')
    <3>1. \A q \in Requests \ {r} : req[q].pc \in HoldsEntry => req[q].entry # e
      BY <1>3, EntryHeld DEF AttestationInv
    <3>2. \A q \in Requests \ {r} : Gathered(req[q], tsm', boot)
      <4>1. \A n \in DOMAIN tsm \ {e} : tsm'[n] = tsm[n]
        BY <2>3
      <4> HIDE DEF e
      <4> QED BY <3>1, <4>1, OthersKeep
    <3>3. Gathered(req[r], tsm, boot)
      BY DEF AttestationInv
    <3>4. Gathered(req'[r], tsm', boot')
      BY <1>1, <1>2, <2>2, <3>3 DEF Gathered, Working
    <3> QED BY <1>2, <2>1, <3>2, <3>4
  <2> QED BY <2>4, <2>5, <2>6 DEF AttestationInv
<1>4. ASSUME CreateFails(r)
      PROVE  AttestationInv'
  <2>1. /\ req' \in [Requests -> ReqType] /\ tsm' = tsm
        /\ req'[r] = [req[r] EXCEPT !.pc = "unavailable"]
        /\ \A q \in Requests \ {r} : req'[q] = req[q]
    BY <1>1, <1>4 DEF CreateFails, AttestationInv, TypeOK, ReqType, Done
  <2>2. /\ req'[r].pc = "unavailable" /\ req'[r].nonce = req[r].nonce
    BY <1>1, <2>1 DEF ReqType
  <2>3. TypeOK'
    BY <1>2, <2>1 DEF AttestationInv, TypeOK, ReqType
  <2>4. EntriesAccounted'
    <3>1. \A q \in Requests : req'[q].pc \in HoldsEntry <=> req[q].pc \in HoldsEntry
      BY <1>1, <2>1, <2>2 DEF HoldsEntry
    <3>2. \A q \in Requests : req[q].pc \in HoldsEntry => req'[q].entry = req[q].entry
      BY <1>1, <2>1 DEF HoldsEntry
    <3>3. {req'[q].entry : q \in {p \in Requests : req'[p].pc \in HoldsEntry}}
            = {req[q].entry : q \in {p \in Requests : req[p].pc \in HoldsEntry}}
      BY <3>1, <3>2
    <3> QED BY <1>2, <2>1, <3>1, <3>2, <3>3 DEF AttestationInv, EntriesAccounted
  <2>5. \A q \in Requests : Gathered(req'[q], tsm', boot')
    <3>1. \A q \in Requests : Gathered(req[q], tsm, boot)
      BY DEF AttestationInv
    <3>2. Gathered(req'[r], tsm', boot')
      BY <1>1, <2>2 DEF Gathered, Working
    <3>3. ASSUME NEW q \in Requests \ {r} PROVE Gathered(req'[q], tsm', boot')
      <4>1. req'[q] = req[q] /\ tsm' = tsm /\ boot' = boot
        BY <1>2, <2>1
      <4> QED BY <3>1, <4>1, Zenon
    <3> QED BY <3>2, <3>3
  <2> QED BY <2>3, <2>4, <2>5 DEF AttestationInv
<1> QED BY <1>3, <1>4 DEF CreateEntry

LEMMA WriteInblobHolds ==
  ASSUME AttestationInv, NEW r \in Requests, WriteInblob(r)
  PROVE  AttestationInv'
<1> DEFINE e == req[r].entry
<1>1. /\ req[r] \in ReqType /\ req[r].pc = "write" /\ req[r].nonce \in ClientNonces
      /\ Gathered(req[r], tsm, boot)
  BY DEF AttestationInv, TypeOK, ReqType, WriteInblob, Gathered
<1>2. /\ e \in DOMAIN tsm
      /\ \A q \in Requests \ {r} : req[q].pc \in HoldsEntry => req[q].entry # e
  BY <1>1, EntryHeld DEF AttestationInv, HoldsEntry
<1>3. pid' = pid /\ SEQ' = SEQ /\ boot' = boot /\ orphans' = orphans
  BY DEF WriteInblob, process
<1>4. ASSUME tsm' = [tsm EXCEPT ![e] = report_data(r)],
             req' = [req EXCEPT ![r].pc = "read"]
      PROVE  AttestationInv'
  <2>1. /\ req' \in [Requests -> ReqType]
        /\ req'[r] = [req[r] EXCEPT !.pc = "read"]
        /\ \A q \in Requests \ {r} : req'[q] = req[q]
    BY <1>1, <1>4 DEF AttestationInv, TypeOK, ReqType, Working
  <2>2. /\ req'[r].pc = "read" /\ req'[r].entry = e
        /\ req'[r].nonce = req[r].nonce /\ req'[r].quote = req[r].quote
    BY <1>1, <2>1 DEF ReqType
  <2>3. report_data(r) = <<req[r].nonce, boot>> /\ report_data(r) \in ReportData
    BY <1>1 DEF report_data, ReportData, AttestationInv, TypeOK
  <2>4. /\ DOMAIN tsm' = DOMAIN tsm /\ tsm'[e] = report_data(r)
        /\ \A n \in DOMAIN tsm \ {e} : tsm'[n] = tsm[n]
        /\ tsm' \in [DOMAIN tsm' -> ReportData \cup {None}]
    <3>1. tsm \in [DOMAIN tsm -> ReportData \cup {None}]
      BY DEF AttestationInv, TypeOK
    <3> HIDE DEF e
    <3> QED BY <1>2, <1>4, <2>3, <3>1
  <2>5. TypeOK'
    BY <1>3, <2>1, <2>4 DEF AttestationInv, TypeOK, ReqType
  <2>6. EntriesAccounted'
    <3>1. \A q \in Requests : /\ req'[q].pc \in HoldsEntry <=> req[q].pc \in HoldsEntry
                             /\ req'[q].entry = req[q].entry
      BY <1>1, <2>1, <2>2 DEF HoldsEntry
    <3>2. {req'[q].entry : q \in {p \in Requests : req'[p].pc \in HoldsEntry}}
            = {req[q].entry : q \in {p \in Requests : req[p].pc \in HoldsEntry}}
      BY <3>1
    <3> QED BY <1>3, <2>4, <3>1, <3>2 DEF AttestationInv, EntriesAccounted
  <2>7. \A q \in Requests : Gathered(req'[q], tsm', boot')
    <3>1. \A q \in Requests \ {r} : Gathered(req[q], tsm', boot)
      <4> HIDE DEF e
      <4> QED BY <1>2, <2>4, OthersKeep
    <3>2. Gathered(req'[r], tsm', boot')
      BY <1>1, <1>3, <2>2, <2>3, <2>4 DEF Gathered, Working
    <3> QED BY <1>3, <2>1, <3>1, <3>2
  <2> QED BY <2>5, <2>6, <2>7 DEF AttestationInv
<1>5. ASSUME req' = [req EXCEPT ![r].pc = AfterError], UNCHANGED tsm
      PROVE  AttestationInv'
  <2> DEFINE rec == [req[r] EXCEPT !.pc = "remove"]
  <2>1. rec \in ReqType /\ req' = [req EXCEPT ![r] = rec]
    BY <1>1, <1>5 DEF AfterError, ReqType, Working, AttestationInv, TypeOK
  <2>2. /\ rec.pc = "remove" /\ rec.entry = e /\ rec.nonce = req[r].nonce
        /\ rec.quote = req[r].quote
    BY <1>1 DEF ReqType
  <2>3. rec.pc \in HoldsEntry /\ req[r].pc \in HoldsEntry
    BY <1>1, <2>2 DEF HoldsEntry
  <2>4. Gathered(rec, tsm, boot)
    BY <1>1, <2>2 DEF Gathered, Working
  <2>5. UNCHANGED <<process, tsm, orphans>>
    BY <1>5 DEF WriteInblob
  <2> HIDE DEF rec
  <2> QED BY <2>1, <2>2, <2>3, <2>4, <2>5, OwnRecord
<1> QED BY <1>4, <1>5 DEF WriteInblob

LEMMA ReadOutblobHolds ==
  ASSUME AttestationInv, NEW r \in Requests, ReadOutblob(r)
  PROVE  AttestationInv'
<1> DEFINE e == req[r].entry
<1>1. /\ req[r] \in ReqType /\ req[r].pc = "read" /\ req[r].nonce \in ClientNonces
      /\ Gathered(req[r], tsm, boot)
  BY DEF AttestationInv, TypeOK, ReqType, ReadOutblob, Gathered
<1>2. tsm[e] = <<req[r].nonce, boot>> /\ tsm[e] \in ReportData
  <2>1. tsm[e] = <<req[r].nonce, boot>>
    BY <1>1 DEF Gathered
  <2>2. boot \in 0 .. MaxRestarts
    BY DEF AttestationInv, TypeOK
  <2> QED BY <1>1, <2>1, <2>2 DEF ReportData
<1>3. PICK quote \in {tsm[e], req[r].quote} :
        req' = [req EXCEPT ![r] = [req[r] EXCEPT !.pc = "remove", !.quote = quote]]
  BY <1>1 DEF ReadOutblob, AfterError, ReqType
<1> DEFINE rec == [req[r] EXCEPT !.pc = "remove", !.quote = quote]
<1>4. rec \in ReqType
  BY <1>1, <1>2 DEF ReqType, Working
<1>5. rec.pc = "remove" /\ rec.entry = e /\ rec.nonce = req[r].nonce /\ rec.quote = quote
  BY <1>1 DEF ReqType
<1>6. rec.pc \in HoldsEntry /\ req[r].pc \in HoldsEntry
  BY <1>1, <1>5 DEF HoldsEntry
<1>7. Gathered(rec, tsm, boot)
  BY <1>1, <1>2, <1>5 DEF Gathered, Working
<1>8. UNCHANGED <<process, tsm, orphans>>
  BY DEF ReadOutblob
<1> HIDE DEF rec
<1> QED BY <1>3, <1>4, <1>5, <1>6, <1>7, <1>8, OwnRecord DEF rec

LEMMA RemoveEntryHolds ==
  ASSUME AttestationInv, NEW r \in Requests, RemoveEntry(r)
  PROVE  AttestationInv'
<1> DEFINE e == req[r].entry
           next == IF req[r].quote = None THEN "unavailable" ELSE "gpu"
<1>1. /\ req[r] \in ReqType /\ req[r].pc = "remove" /\ req[r].nonce \in ClientNonces
      /\ Gathered(req[r], tsm, boot)
  BY DEF AttestationInv, TypeOK, ReqType, RemoveEntry, Gathered
<1>2. /\ e \in DOMAIN tsm /\ e \notin orphans /\ e \in Names
      /\ \A q \in Requests \ {r} : req[q].pc \in HoldsEntry => req[q].entry # e
  BY <1>1, EntryHeld DEF AttestationInv, HoldsEntry
<1>3. /\ pid' = pid /\ SEQ' = SEQ /\ boot' = boot
      /\ req' = [req EXCEPT ![r].pc = next]
  BY DEF RemoveEntry, process
<1>4. /\ req' \in [Requests -> ReqType]
      /\ req'[r] = [req[r] EXCEPT !.pc = next]
      /\ \A q \in Requests \ {r} : req'[q] = req[q]
  BY <1>1, <1>3 DEF AttestationInv, TypeOK, ReqType, Working, Done
<1>5. req'[r].pc = next /\ req'[r].nonce = req[r].nonce /\ req'[r].quote = req[r].quote
  BY <1>1, <1>4 DEF ReqType
<1>6. /\ \/ DOMAIN tsm' = DOMAIN tsm \ {e} /\ orphans' = orphans
         \/ DOMAIN tsm' = DOMAIN tsm /\ orphans' = orphans \cup {e}
      /\ \A n \in DOMAIN tsm \ {e} : tsm'[n] = tsm[n]
      /\ tsm' \in [DOMAIN tsm' -> ReportData \cup {None}]
  <2>1. \/ tsm' = [n \in DOMAIN tsm \ {e} |-> tsm[n]] /\ orphans' = orphans
        \/ tsm' = tsm /\ orphans' = orphans \cup {e}
    BY DEF RemoveEntry, Without
  <2>2. tsm \in [DOMAIN tsm -> ReportData \cup {None}]
    BY DEF AttestationInv, TypeOK
  <2> HIDE DEF e
  <2> QED BY <2>1, <2>2
<1>7. TypeOK'
  <2>1. DOMAIN tsm' \subseteq Names /\ orphans' \subseteq Names
    BY <1>2, <1>6 DEF AttestationInv, TypeOK
  <2> QED BY <1>3, <1>4, <1>6, <2>1 DEF AttestationInv, TypeOK, ReqType
<1>8. EntriesAccounted'
  <2> DEFINE Old == {req[q].entry : q \in {p \in Requests : req[p].pc \in HoldsEntry}}
             New == {req'[q].entry : q \in {p \in Requests : req'[p].pc \in HoldsEntry}}
  <2>1. /\ req'[r].pc \notin HoldsEntry
        /\ \A q \in Requests \ {r} : req'[q].pc = req[q].pc /\ req'[q].entry = req[q].entry
    BY <1>4, <1>5 DEF HoldsEntry
  <2>2. DOMAIN tsm = orphans \cup Old
    BY DEF AttestationInv, EntriesAccounted
  <2>3. ASSUME NEW x \in Old PROVE x = e \/ x \in New
    <3>1. PICK q \in Requests : req[q].pc \in HoldsEntry /\ x = req[q].entry
      OBVIOUS
    <3>2. CASE q = r
      BY <3>1, <3>2
    <3>3. CASE q # r
      BY <2>1, <3>1, <3>3
    <3> QED BY <3>2, <3>3
  <2>4. ASSUME NEW x \in New PROVE x \in Old /\ x # e
    <3>1. PICK q \in Requests : req'[q].pc \in HoldsEntry /\ x = req'[q].entry
      OBVIOUS
    <3>2. q # r
      BY <2>1, <3>1
    <3>3. req[q].pc \in HoldsEntry /\ x = req[q].entry
      BY <2>1, <3>1, <3>2
    <3> QED BY <1>2, <3>2, <3>3
  <2>5. DOMAIN tsm' = orphans' \cup New
    <3> HIDE DEF Old, New, e
    <3> QED BY <1>2, <1>6, <2>2, <2>3, <2>4
  <2>6. \A p, q \in Requests : req[p].pc \in HoldsEntry =>
          /\ req[p].entry \notin orphans
          /\ (req[q].pc \in HoldsEntry /\ req[q].entry = req[p].entry => q = p)
    BY DEF AttestationInv, EntriesAccounted
  <2>7. \A p, q \in Requests : req'[p].pc \in HoldsEntry =>
          /\ req'[p].entry \notin orphans'
          /\ (req'[q].pc \in HoldsEntry /\ req'[q].entry = req'[p].entry => q = p)
    BY <1>2, <1>6, <2>1, <2>6
  <2> QED BY <2>5, <2>7 DEF EntriesAccounted
<1>9. \A q \in Requests : Gathered(req'[q], tsm', boot')
  <2>1. \A q \in Requests \ {r} : Gathered(req[q], tsm', boot)
    <3> HIDE DEF e
    <3> QED BY <1>2, <1>6, OthersKeep
  <2>2. Gathered(req'[r], tsm', boot')
    BY <1>1, <1>3, <1>5 DEF Gathered, Working
  <2> QED BY <1>3, <1>4, <2>1, <2>2
<1> QED BY <1>7, <1>8, <1>9 DEF AttestationInv

LEMMA RequestHolds ==
  ASSUME AttestationInv, NEW r \in Requests, NEW n \in ClientNonces, Request(r, n)
  PROVE  AttestationInv'
<1> DEFINE rec == [req[r] EXCEPT !.pc = "quote", !.nonce = n]
<1>1. req[r] \in ReqType /\ req[r].pc = "idle" /\ Gathered(req[r], tsm, boot)
  BY DEF AttestationInv, TypeOK, ReqType, Request
<1>2. rec \in ReqType /\ req' = [req EXCEPT ![r] = rec]
  BY <1>1 DEF Request, ReqType, Working, AttestationInv, TypeOK
<1>3. /\ rec.pc = "quote" /\ rec.entry = req[r].entry /\ rec.nonce = n
      /\ rec.quote = req[r].quote
  BY <1>1 DEF ReqType
<1>4. rec.pc \notin HoldsEntry /\ req[r].pc \notin HoldsEntry
  BY <1>1, <1>3 DEF HoldsEntry
<1>5. Gathered(rec, tsm, boot)
  BY <1>1, <1>3 DEF Gathered, Working
<1>6. UNCHANGED <<process, tsm, orphans>>
  BY DEF Request
<1> HIDE DEF rec
<1> QED BY <1>2, <1>3, <1>4, <1>5, <1>6, OwnRecord

LEMMA GpuReportsHolds ==
  ASSUME AttestationInv, NEW r \in Requests, NEW b \in Boards, GpuReports(r, b)
  PROVE  AttestationInv'
<1>1. /\ req[r] \in ReqType /\ req[r].pc = "gpu" /\ req[r].nonce \in ClientNonces
      /\ Gathered(req[r], tsm, boot) /\ boot \in 0 .. MaxRestarts
  BY DEF AttestationInv, TypeOK, ReqType, GpuReports, Gathered
<1>2. req[r].quote = <<req[r].nonce, boot>>
  BY <1>1 DEF Gathered, Working
<1>3. UNCHANGED <<process, tsm, orphans>>
  BY DEF GpuReports
<1>4. ASSUME Attests(b), Acceptable(HelperOutput(r, b)),
             req' = [req EXCEPT ![r].pc = "ok", ![r].gpus = HelperOutput(r, b), ![r].board = b]
      PROVE  AttestationInv'
  <2> DEFINE out == HelperOutput(r, b)
             rec == [req[r] EXCEPT !.pc = "ok", !.gpus = out, !.board = b]
  <2>1. out = [i \in 1 .. EXPECTED_GPU_COUNT |->
                [gpu |-> i, over |-> <<req[r].nonce, boot, i>>]]
    <3>1. b.count \in Nat /\ DOMAIN out = 1 .. b.count /\ Len(out) = b.count
      BY GpuAssumption DEF Boards, HelperOutput
    <3>2. b.count = EXPECTED_GPU_COUNT
      BY <1>4, <3>1 DEF Acceptable
    <3>3. ASSUME NEW i \in 1 .. EXPECTED_GPU_COUNT
          PROVE  out[i] = [gpu |-> i, over |-> <<req[r].nonce, boot, i>>]
      BY <1>4, <3>1, <3>2 DEF Acceptable, HelperOutput, derive_gpu_nonce
    <3>4. out = [i \in 1 .. EXPECTED_GPU_COUNT |-> out[i]]
      BY <3>2 DEF HelperOutput
    <3> HIDE DEF out
    <3> QED BY <3>3, <3>4
  <2>2. out \in Seq(Reports)
    <3>1. \A i \in 1 .. EXPECTED_GPU_COUNT :
            [gpu |-> i, over |-> <<req[r].nonce, boot, i>>] \in Reports
      BY <1>1, GpuAssumption DEF Reports
    <3>2. out \in [1 .. EXPECTED_GPU_COUNT -> Reports]
      BY <2>1, <3>1
    <3> HIDE DEF out
    <3> QED BY <3>2, GpuAssumption, SeqDef
  <2> HIDE DEF out
  <2>3. rec \in ReqType
    BY <1>1, <2>2 DEF ReqType, Done
  <2>4. req' = [req EXCEPT ![r] = rec]
    BY <1>1, <1>4 DEF out, ReqType, AttestationInv, TypeOK
  <2>5. /\ rec.pc = "ok" /\ rec.entry = req[r].entry /\ rec.nonce = req[r].nonce
        /\ rec.quote = req[r].quote /\ rec.gpus = out /\ rec.board = b
    BY <1>1 DEF ReqType
  <2>6. rec.pc \notin HoldsEntry /\ req[r].pc \notin HoldsEntry
    BY <1>1, <2>5 DEF HoldsEntry
  <2> HIDE DEF rec
  <2>7. Complete(rec, boot)
    <3>1. rec.board.checked =>
            rec.board.count = EXPECTED_GPU_COUNT /\ rec.board.cc /\ rec.board.mode = "NVLE"
      BY <1>4, <2>5 DEF Attests
    <3>2. /\ boot \in 0 .. boot
          /\ rec.quote = <<rec.nonce, boot>>
          /\ rec.gpus = [i \in 1 .. EXPECTED_GPU_COUNT |->
               [gpu |-> i, over |-> <<rec.nonce, boot, i>>]]
      BY <1>1, <1>2, <2>1, <2>5
    <3> QED BY <3>1, <3>2 DEF Complete
  <2>8. Gathered(rec, tsm, boot)
    BY <1>1, <2>5, <2>7 DEF Gathered, Working
  <2> QED BY <1>3, <2>3, <2>4, <2>5, <2>6, <2>8, OwnRecord
<1>5. ASSUME req' = [req EXCEPT ![r].pc = "unavailable"]
      PROVE  AttestationInv'
  <2> DEFINE rec == [req[r] EXCEPT !.pc = "unavailable"]
  <2>1. rec \in ReqType /\ req' = [req EXCEPT ![r] = rec]
    BY <1>1, <1>5 DEF ReqType, Done, AttestationInv, TypeOK
  <2>2. rec.pc = "unavailable" /\ rec.entry = req[r].entry /\ rec.nonce = req[r].nonce
    BY <1>1 DEF ReqType
  <2>3. rec.pc \notin HoldsEntry /\ req[r].pc \notin HoldsEntry
    BY <1>1, <2>2 DEF HoldsEntry
  <2>4. Gathered(rec, tsm, boot)
    BY <1>1, <2>2 DEF Gathered, Working
  <2> HIDE DEF rec
  <2> QED BY <1>3, <2>1, <2>2, <2>3, <2>4, OwnRecord
<1> QED BY <1>4, <1>5 DEF GpuReports

LEMMA HangUpHolds ==
  ASSUME AttestationInv, NEW r \in Requests, HangUp(r)
  PROVE  AttestationInv'
<1> DEFINE rec == [req[r] EXCEPT !.listening = FALSE]
<1>1. /\ req[r] \in ReqType /\ req[r].pc \in Working
      /\ Gathered(req[r], tsm, boot)
  BY DEF AttestationInv, TypeOK, ReqType, HangUp
<1>2. rec \in ReqType /\ req' = [req EXCEPT ![r] = rec]
  BY <1>1 DEF HangUp, ReqType, AttestationInv, TypeOK
<1>3. /\ rec.pc = req[r].pc /\ rec.entry = req[r].entry /\ rec.nonce = req[r].nonce
      /\ rec.quote = req[r].quote
  BY <1>1 DEF ReqType
<1>4. Gathered(rec, tsm, boot)
  BY <1>1, <1>3 DEF Gathered, Working
<1>5. UNCHANGED <<process, tsm, orphans>>
  BY DEF HangUp
<1> HIDE DEF rec
<1> QED BY <1>2, <1>3, <1>4, <1>5, OwnRecord

LEMMA RestartHolds ==
  ASSUME AttestationInv, Restart
  PROVE  AttestationInv'
<1>1. /\ boot \in 0 .. MaxRestarts /\ boot' = boot + 1 /\ boot' \in 0 .. MaxRestarts
      /\ tsm' = tsm /\ orphans' = DOMAIN tsm /\ pid' \in Pids /\ SEQ' = 0
  BY RestartsAssumption DEF AttestationInv, TypeOK, Restart
<1>2. \A r \in Requests :
        /\ req[r] \in ReqType
        /\ req'[r] = IF req[r].pc \in Working THEN [req[r] EXCEPT !.pc = "killed"] ELSE req[r]
  BY DEF AttestationInv, TypeOK, ReqType, Restart
<1>3. ASSUME NEW r \in Requests
      PROVE  /\ req'[r] \in ReqType /\ req'[r].pc \notin Working
             /\ req'[r].nonce = req[r].nonce
             /\ req[r].pc \notin Working => req'[r] = req[r]
             /\ req[r].pc \in Working => req'[r].pc = "killed"
  <2>1. CASE req[r].pc \in Working
    <3>1. req'[r] = [req[r] EXCEPT !.pc = "killed"] /\ req[r] \in ReqType
      BY <1>2, <2>1
    <3>2. req'[r] \in ReqType /\ req'[r].pc = "killed" /\ req'[r].nonce = req[r].nonce
      BY <3>1 DEF ReqType, Done
    <3> QED BY <2>1, <3>2 DEF Working
  <2>2. CASE req[r].pc \notin Working
    BY <1>2, <2>2
  <2> QED BY <2>1, <2>2
<1>4. req' \in [Requests -> ReqType]
  BY <1>3 DEF Restart
<1>5. TypeOK'
  BY <1>1, <1>4 DEF AttestationInv, TypeOK, ReqType
<1>6. EntriesAccounted'
  <2>1. \A r \in Requests : req'[r].pc \notin HoldsEntry
    BY <1>3 DEF Working, HoldsEntry
  <2> QED BY <1>1, <2>1 DEF EntriesAccounted
<1>7. ASSUME NEW r \in Requests PROVE Gathered(req'[r], tsm', boot')
  <2>1. Gathered(req[r], tsm, boot)
    BY DEF AttestationInv
  <2>2. CASE req[r].pc \in Working
    BY <1>3, <2>1, <2>2 DEF Gathered, Working
  <2>3. CASE req[r].pc \notin Working
    <3>1. req'[r] = req[r]
      BY <1>3, <2>3
    <3>2. Complete(req[r], boot) => Complete(req[r], boot')
      <4>1. 0 .. boot \subseteq 0 .. boot'
        BY <1>1
      <4> QED BY <4>1 DEF Complete
    <3> QED BY <2>1, <2>3, <3>1, <3>2 DEF Gathered, Working
  <2> QED BY <2>2, <2>3
<1> QED BY <1>5, <1>6, <1>7 DEF AttestationInv

\* AttestationInv is an invariant of the handler and its helper: TypeOK with
\* the two facts the properties below rest on.
THEOREM AttestationInvariant == Spec => []AttestationInv
<1>1. ASSUME AttestationInv, [Next]_vars PROVE AttestationInv'
  <2>1. ASSUME NEW r \in Requests, NEW n \in ClientNonces, Request(r, n) PROVE AttestationInv'
    BY <1>1, <2>1, RequestHolds
  <2>2. ASSUME NEW r \in Requests, Task(r) PROVE AttestationInv'
    BY <1>1, <2>2, CreateEntryHolds, WriteInblobHolds, ReadOutblobHolds, RemoveEntryHolds,
       GpuReportsHolds DEF Task
  <2>3. ASSUME NEW r \in Requests, HangUp(r) PROVE AttestationInv'
    BY <1>1, <2>3, HangUpHolds
  <2>4. CASE Restart
    BY <1>1, <2>4, RestartHolds
  <2>5. CASE UNCHANGED vars
    <3>1. /\ pid' = pid /\ SEQ' = SEQ /\ boot' = boot /\ tsm' = tsm /\ orphans' = orphans
          /\ req' = req
      BY <2>5 DEF vars
    <3>2. TypeOK'
      BY <1>1, <3>1 DEF AttestationInv, TypeOK
    <3>3. EntriesAccounted'
      BY <1>1, <3>1 DEF AttestationInv, EntriesAccounted
    <3>4. \A r \in Requests : Gathered(req'[r], tsm', boot')
      BY <1>1, <3>1 DEF AttestationInv
    <3> QED BY <3>2, <3>3, <3>4 DEF AttestationInv
  <2> QED BY <1>1, <2>1, <2>2, <2>3, <2>4, <2>5 DEF Next
<1> QED BY <1>1, InitHolds, PTL DEF Spec

\* "sharing one [entry] across concurrent requests would race and
\* cross-bind reports": with an entry per task the quote a task holds is over
\* its own nonce and its own process's key, for any number of tasks.
THEOREM NeverCrossBound == Spec => []NoCrossBinding
BY AttestationInvariant, InvImplies, PTL

\* "always clean up, even on error": every entry of the kernel is one a
\* running task will remove, or was left by a killed process.
THEOREM EntriesAlwaysAccounted == Spec => []EntriesAccounted
<1>1. AttestationInv => EntriesAccounted
  BY DEF AttestationInv
<1> QED BY <1>1, AttestationInvariant, PTL

\* A 200 answer carries a quote and one report per GPU, all over one nonce
\* and one key, however often the process restarts meanwhile.
THEOREM EnvelopesAlwaysComplete == Spec => []EnvelopeComplete
BY AttestationInvariant, InvImplies, PTL

\* The requests, the kernel's entries and the evidence gathered are well typed:
\* no step stores a half-built quote or report.
THEOREM AttestationTypes == Spec => []TypeOK
<1>1. AttestationInv => TypeOK
  BY DEF AttestationInv
<1> QED BY <1>1, AttestationInvariant, PTL
=============================================================================
