-------------------------- MODULE ChatRelayProofs --------------------------
(***************************************************************************)
(* Proofs about ChatRelay, for any number of streams and tokens, every     *)
(* channel size and every number of frames.                                *)
(***************************************************************************)
EXTENDS ChatRelay, SequenceTheorems, TLAPS

StreamType ==
  [pc : {"idle"} \cup Running \cup Ended, bearer : Tokens \cup {None},
   yielded : 0 .. MaxFrames, chan : Seq(0 .. MaxFrames), rx : BOOLEAN,
   body : Seq(0 .. MaxFrames), late_queued : Nat]

\* Relayed, of a stream's record.
Sent(rec) == IF rec.pc \in {"send", "cut", "revoked"} THEN rec.yielded - 1 ELSE rec.yielded

Closing(rec) == IF rec.pc = "revoked" THEN 1 ELSE 0

\* The frame at place i of what a relay queues, n data frames and, after a
\* cut, REVOKED_FRAME.
Frame(n, i) == IF i <= n THEN i ELSE REVOKED_FRAME

\* RelayInOrder place by place: got, which the body has yielded, followed by
\* chan is the first n data frames and z closing ones.
Placed(got, chan, n, z) ==
  /\ Len(got) + Len(chan) = n + z
  /\ \A i \in 1 .. Len(got) : got[i] = Frame(n, i)
  /\ \A i \in 1 .. Len(chan) : chan[i] = Frame(n, Len(got) + i)

InOrder(rec) == Placed(rec.body, rec.chan, Sent(rec), Closing(rec))

\* What is queued: places before the first are read, REVOKED_FRAME is last.
Contents(rec) ==
  /\ rec.pc \in {"idle", "refused"} => rec.yielded = 0
  /\ rec.pc \in {"send", "cut", "revoked"} => rec.yielded >= 1
  /\ Len(rec.chan) <= CHANNEL_CAP
  /\ ~rec.rx => rec.chan = <<>>
  /\ rec.rx => InOrder(rec)

\* Late frames, with re the bearers that are gone for good: none while the
\* bearer stands, and none queued before the one that was looked up in time.
Lateness(rec, re) ==
  /\ rec.pc = "idle" \/ rec.bearer \notin re => rec.late_queued = 0
  /\ rec.pc = "send" => rec.late_queued = 0
  /\ rec.late_queued <= 1

\* A running stream's bearer was allowed, and is or is gone.
Admitted(rec, al, re) == rec.pc \notin {"idle", "refused"} => rec.bearer \in al \cup re

\* The inductive invariant.
RelayInv ==
  /\ TypeOK
  /\ \A s \in Streams : /\ Contents(stream[s])
                        /\ Lateness(stream[s], retired)
                        /\ Admitted(stream[s], allowed, retired)

-----------------------------------------------------------------------------
(* Sequences *)

LEMMA Appending ==
  ASSUME NEW S, NEW c \in Seq(S), NEW f \in S
  PROVE  /\ Append(c, f) \in Seq(S) /\ Append(c, f) # <<>>
         /\ Len(Append(c, f)) = Len(c) + 1 /\ Len(c) \in Nat
         /\ \A i \in 1 .. Len(c) : Append(c, f)[i] = c[i]
         /\ Append(c, f)[Len(c) + 1] = f
BY AppendProperties, LenProperties

LEMMA Widening ==
  ASSUME NEW S, NEW T, S \subseteq T, NEW c \in Seq(S)
  PROVE  c \in Seq(T)
<1>1. Len(c) \in Nat /\ c \in [1 .. Len(c) -> T]
  BY LenProperties
<1> QED BY <1>1, SeqDef

LEMMA Taking ==
  ASSUME NEW S, NEW c \in Seq(S), c # <<>>
  PROVE  /\ Len(c) \in Nat /\ Len(c) >= 1 /\ Head(c) = c[1] /\ Head(c) \in S
         /\ Tail(c) \in Seq(S) /\ Len(Tail(c)) = Len(c) - 1
         /\ \A i \in 1 .. Len(c) - 1 : Tail(c)[i] = c[i + 1]
         /\ Tail(c) = <<>> <=> Len(c) = 1
<1>1. /\ Len(c) \in Nat /\ Len(c) >= 1 /\ Head(c) = c[1] /\ Head(c) \in S
      /\ Tail(c) \in Seq(S) /\ Len(Tail(c)) = Len(c) - 1
      /\ \A i \in 1 .. Len(c) - 1 : Tail(c)[i] = c[i + 1]
  BY HeadTailProperties, LenProperties, EmptySeq
<1>2. Tail(c) = <<>> <=> Len(Tail(c)) = 0
  BY <1>1, EmptySeq
<1> QED BY <1>1, <1>2

LEMMA PlacedAppend ==
  ASSUME NEW S \in SUBSET Nat, NEW got \in Seq(S), NEW chan \in Seq(S), NEW n \in Nat,
         NEW f \in S, NEW m \in Nat, NEW z \in {0, 1},
         Placed(got, chan, n, 0), m + z = n + 1, f = Frame(m, n + 1)
  PROVE  Placed(got, Append(chan, f), m, z)
<1> DEFINE longer == Append(chan, f)
<1>1. /\ Len(longer) = Len(chan) + 1 /\ Len(chan) \in Nat /\ Len(got) \in Nat
      /\ \A i \in 1 .. Len(chan) : longer[i] = chan[i]
      /\ longer[Len(chan) + 1] = f
  BY Appending, LenProperties
<1>2. Len(got) + Len(chan) = n
  BY <1>1 DEF Placed
<1>3. \A i \in 1 .. n : Frame(m, i) = Frame(n, i)
  BY DEF Frame
<1> HIDE DEF longer
<1>4. Len(got) + Len(longer) = m + z
  BY <1>1, <1>2
<1>5. \A i \in 1 .. Len(got) : got[i] = Frame(m, i)
  <2>1. \A i \in 1 .. Len(got) : i \in 1 .. n
    BY <1>1, <1>2
  <2> QED BY <1>3, <2>1 DEF Placed
<1>6. ASSUME NEW i \in 1 .. Len(longer)
      PROVE  longer[i] = Frame(m, Len(got) + i)
  <2>1. CASE i = Len(chan) + 1
    <3>1. Len(got) + i = n + 1
      BY <1>1, <1>2, <2>1
    <3> QED BY <1>1, <2>1, <3>1
  <2>2. CASE i # Len(chan) + 1
    <3>1. i \in 1 .. Len(chan) /\ Len(got) + i \in 1 .. n
      BY <1>1, <1>2, <2>2
    <3>2. chan[i] = Frame(n, Len(got) + i)
      BY <3>1 DEF Placed
    <3> QED BY <1>1, <1>3, <3>1, <3>2
  <2> QED BY <2>1, <2>2
<1> QED BY <1>4, <1>5, <1>6 DEF Placed, longer

LEMMA PlacedRead ==
  ASSUME NEW S \in SUBSET Nat, NEW got \in Seq(S), NEW chan \in Seq(S), chan # <<>>,
         NEW n \in Nat, NEW z \in {0, 1}, Placed(got, chan, n, z)
  PROVE  Placed(Append(got, Head(chan)), Tail(chan), n, z)
<1> DEFINE f == Head(chan)
           longer == Append(got, f)
           rest == Tail(chan)
<1>1. /\ Len(chan) \in Nat /\ Len(chan) >= 1 /\ f = chan[1] /\ f \in S
      /\ Len(rest) = Len(chan) - 1
      /\ \A i \in 1 .. Len(chan) - 1 : rest[i] = chan[i + 1]
  BY Taking
<1>2. /\ Len(longer) = Len(got) + 1 /\ Len(got) \in Nat
      /\ \A i \in 1 .. Len(got) : longer[i] = got[i]
      /\ longer[Len(got) + 1] = f
  BY <1>1, Appending
<1>3. Len(got) + Len(chan) = n + z /\ f = Frame(n, Len(got) + 1)
  BY <1>1 DEF Placed
<1> HIDE DEF f, longer, rest
<1>4. Len(longer) + Len(rest) = n + z
  <2>1. \A a, b \in Nat : (a + 1) + (b - 1) = a + b
    OBVIOUS
  <2> QED BY <1>1, <1>2, <1>3, <2>1
<1>5. ASSUME NEW i \in 1 .. Len(longer) PROVE longer[i] = Frame(n, i)
  <2>1. CASE i = Len(got) + 1
    BY <1>2, <1>3, <2>1
  <2>2. CASE i # Len(got) + 1
    <3>1. i \in 1 .. Len(got)
      BY <1>2, <2>2
    <3> QED BY <1>2, <3>1 DEF Placed
  <2> QED BY <2>1, <2>2
<1>6. ASSUME NEW i \in 1 .. Len(rest) PROVE rest[i] = Frame(n, Len(longer) + i)
  <2>1. i \in 1 .. Len(chan) - 1 /\ i + 1 \in 1 .. Len(chan) /\ Len(got) + (i + 1) = Len(longer) + i
    BY <1>1, <1>2
  <2>2. chan[i + 1] = Frame(n, Len(got) + (i + 1))
    BY <2>1 DEF Placed
  <2> QED BY <1>1, <2>1, <2>2
<1>7. Placed(longer, rest, n, z)
  BY <1>4, <1>5, <1>6 DEF Placed
<1> QED BY <1>7 DEF f, longer, rest

-----------------------------------------------------------------------------
(* The invariant *)

LEMMA TypeEquiv ==
  TypeOK <=> /\ allowed \subseteq Tokens /\ retired \subseteq Tokens
             /\ allowed \cap retired = {}
             /\ stream \in [Streams -> StreamType]
             /\ \A s \in Streams : Len(stream[s].chan) <= CHANNEL_CAP
BY DEF TypeOK, StreamType

LEMMA InitHolds == Init => RelayInv
<1> SUFFICES ASSUME Init PROVE RelayInv
  OBVIOUS
<1>1. Fresh \in StreamType
  BY FramesAssumption DEF Fresh, StreamType
<1>2. /\ Fresh.pc = "idle" /\ Fresh.yielded = 0 /\ Fresh.chan = <<>> /\ Fresh.body = <<>>
      /\ Fresh.late_queued = 0
  BY DEF Fresh
<1>3. Contents(Fresh)
  <2>1. Sent(Fresh) = 0 /\ Closing(Fresh) = 0
    BY <1>2 DEF Sent, Closing
  <2>2. InOrder(Fresh)
    BY <1>2, <2>1 DEF InOrder, Placed
  <2> QED BY <1>2, <2>2, ChannelAssumption DEF Contents
<1>4. Lateness(Fresh, retired) /\ Admitted(Fresh, allowed, retired)
  BY <1>2, ChannelAssumption DEF Lateness, Admitted
<1>5. stream \in [Streams -> StreamType] /\ \A s \in Streams : stream[s] = Fresh
  BY <1>1 DEF Init
<1>6. TypeOK
  BY <1>2, <1>5, TypeEquiv, ChannelAssumption DEF Init
<1> HIDE DEF Fresh
<1> QED BY <1>3, <1>4, <1>5, <1>6 DEF RelayInv

\* A step of one stream, with the store as it is.
LEMMA OwnStream ==
  ASSUME RelayInv, NEW s \in Streams, NEW rec \in StreamType,
         stream' = [stream EXCEPT ![s] = rec], UNCHANGED store,
         Contents(rec), Lateness(rec, retired), Admitted(rec, allowed, retired)
  PROVE  RelayInv'
<1>1. stream \in [Streams -> StreamType]
  BY TypeEquiv DEF RelayInv
<1>2. /\ stream' \in [Streams -> StreamType] /\ stream'[s] = rec
      /\ \A q \in Streams \ {s} : stream'[q] = stream[q]
  BY <1>1
<1>3. allowed' = allowed /\ retired' = retired
  BY DEF store
<1>4. ASSUME NEW q \in Streams
      PROVE  /\ Contents(stream'[q]) /\ Lateness(stream'[q], retired')
             /\ Admitted(stream'[q], allowed', retired')
  BY <1>2, <1>3 DEF RelayInv
<1>5. TypeOK'
  <2>1. \A q \in Streams : Len(stream'[q].chan) <= CHANNEL_CAP
    BY <1>4 DEF Contents
  <2>2. /\ allowed \subseteq Tokens /\ retired \subseteq Tokens /\ allowed \cap retired = {}
    BY DEF RelayInv, TypeOK
  <2> QED BY <1>2, <1>3, <2>1, <2>2 DEF TypeOK, StreamType
<1> QED BY <1>4, <1>5 DEF RelayInv

\* A step that leaves the channel and what the client has read alone, and
\* the number of frames queued, leaves them in order.
LEMMA SameContents ==
  ASSUME NEW old \in StreamType, NEW rec \in StreamType, Contents(old),
         rec.chan = old.chan, rec.body = old.body, rec.rx = old.rx,
         Sent(rec) = Sent(old), Closing(rec) = Closing(old),
         rec.pc \in {"idle", "refused"} => rec.yielded = 0,
         rec.pc \in {"send", "cut", "revoked"} => rec.yielded >= 1
  PROVE  Contents(rec)
<1>1. InOrder(old) => InOrder(rec)
  BY DEF InOrder
<1> QED BY <1>1 DEF Contents

\* The facts about a stream that every step below starts from.
LEMMA StreamFacts ==
  ASSUME RelayInv, NEW s \in Streams
  PROVE  /\ stream \in [Streams -> StreamType] /\ stream[s] \in StreamType
         /\ Contents(stream[s]) /\ Lateness(stream[s], retired)
         /\ Admitted(stream[s], allowed, retired)
         /\ allowed \cap retired = {}
BY TypeEquiv DEF RelayInv

LEMMA RequestHolds ==
  ASSUME RelayInv, NEW s \in Streams, NEW t \in Tokens \cup {None}, Request(s, t)
  PROVE  RelayInv'
<1> DEFINE old == stream[s]
           next == IF t \in allowed THEN "connect" ELSE "refused"
           rec == [old EXCEPT !.bearer = t, !.pc = next]
<1>1. /\ stream \in [Streams -> StreamType] /\ old \in StreamType
      /\ Contents(old) /\ Lateness(old, retired)
  BY StreamFacts
<1>2. old.pc = "idle" /\ UNCHANGED store
  BY DEF Request
<1>3. rec \in StreamType
  BY <1>1 DEF StreamType, Running, Ended
<1>4. stream' = [stream EXCEPT ![s] = rec]
  BY <1>1 DEF Request, Authenticate, StreamType
<1>5. /\ rec.pc = next /\ rec.bearer = t /\ rec.yielded = old.yielded /\ rec.chan = old.chan
      /\ rec.body = old.body /\ rec.rx = old.rx
      /\ rec.late_queued = old.late_queued
  BY <1>1 DEF StreamType
<1> HIDE DEF rec
<1>6. old.yielded = 0
  BY <1>1, <1>2 DEF Contents
<1>7. Sent(rec) = Sent(old) /\ Closing(rec) = Closing(old)
  BY <1>2, <1>5 DEF Sent, Closing
<1>8. Contents(rec)
  BY <1>1, <1>3, <1>5, <1>6, <1>7, SameContents
<1>9. Lateness(rec, retired) /\ Admitted(rec, allowed, retired)
  BY <1>1, <1>2, <1>5, <1>8 DEF Lateness, Admitted
<1> QED BY <1>2, <1>3, <1>4, <1>8, <1>9, OwnStream

\* A step to another place of the handler or the relay that queues nothing.
LEMMA MoveHolds ==
  ASSUME RelayInv, NEW s \in Streams, NEW pc, NEW yielded \in 0 .. MaxFrames,
         stream' = [stream EXCEPT ![s].pc = pc, ![s].yielded = yielded], UNCHANGED store,
         \/ /\ stream[s].pc \in {"connect", "read"} /\ pc \in {"failed", "read", "eof", "error"}
            /\ yielded = stream[s].yielded
         \/ /\ stream[s].pc = "read" /\ pc = CheckBearer(s) /\ yielded = stream[s].yielded + 1
         \/ /\ stream[s].pc = "send" /\ pc = "hungup" /\ ~stream[s].rx /\ yielded = stream[s].yielded
         \/ /\ stream[s].pc = "cut" /\ pc = "revoked" /\ ~stream[s].rx /\ yielded = stream[s].yielded
  PROVE  RelayInv'
<1> DEFINE old == stream[s]
           rec == [old EXCEPT !.pc = pc, !.yielded = yielded]
<1>1. /\ stream \in [Streams -> StreamType] /\ old \in StreamType
      /\ Contents(old) /\ Lateness(old, retired) /\ Admitted(old, allowed, retired)
      /\ allowed \cap retired = {}
  BY StreamFacts
<1>2. pc \in Running \cup Ended /\ old.pc \in {"connect", "read", "send", "cut"}
  BY DEF CheckBearer, Running, Ended
<1>3. rec \in StreamType
  BY <1>1, <1>2 DEF StreamType
<1>4. stream' = [stream EXCEPT ![s] = rec]
  BY <1>1 DEF StreamType
<1>5. /\ rec.pc = pc /\ rec.bearer = old.bearer /\ rec.yielded = yielded /\ rec.chan = old.chan
      /\ rec.body = old.body /\ rec.rx = old.rx
      /\ rec.late_queued = old.late_queued
  BY <1>1 DEF StreamType
<1>6. /\ old.yielded \in 0 .. MaxFrames /\ old.late_queued \in Nat
      /\ old.chan \in Seq(0 .. MaxFrames) /\ Len(old.chan) \in Nat
  BY <1>1 DEF StreamType
<1> HIDE DEF rec
<1>7. Contents(rec)
  <2>1. CASE old.rx
    <3>1. Sent(rec) = Sent(old) /\ Closing(rec) = Closing(old)
      BY <1>5, <1>6, <2>1, FramesAssumption DEF Sent, Closing, CheckBearer
    <3>2. rec.pc \notin {"idle", "refused"} /\ (rec.pc \in {"send", "cut", "revoked"} => rec.yielded >= 1)
      BY <1>5, <1>6, <2>1, FramesAssumption DEF CheckBearer
    <3> QED BY <1>1, <1>3, <1>5, <3>1, <3>2, SameContents
  <2>2. CASE ~old.rx
    <3>1. old.chan = <<>>
      BY <1>1, <2>2 DEF Contents
    <3>2. rec.pc \notin {"idle", "refused"} /\ (rec.pc \in {"send", "cut", "revoked"} => rec.yielded >= 1)
      BY <1>1, <1>5, <1>6, FramesAssumption DEF CheckBearer, Contents
    <3> QED BY <1>5, <2>2, <3>1, <3>2, ChannelAssumption DEF Contents
  <2> QED BY <2>1, <2>2
<1>8. Admitted(rec, allowed, retired)
  BY <1>1, <1>2, <1>5 DEF Admitted
<1>9. Lateness(rec, retired)
  <2>1. rec.pc = "send" => rec.late_queued = 0
    BY <1>1, <1>5 DEF CheckBearer, Lateness
  <2>2. rec.pc # "idle"
    BY <1>2, <1>5 DEF Running, Ended
  <2> QED BY <1>1, <1>5, <1>7, <2>1, <2>2 DEF Lateness
<1> QED BY <1>3, <1>4, <1>7, <1>8, <1>9, OwnStream

\* A frame is put into the channel: the one in hand, or REVOKED_FRAME.
LEMMA QueueHolds ==
  ASSUME RelayInv, NEW s \in Streams, NEW f, NEW pc, Queue(s, f, pc), UNCHANGED store,
         \/ stream[s].pc = "send" /\ f = stream[s].yielded /\ pc = "read"
         \/ stream[s].pc = "cut" /\ f = REVOKED_FRAME /\ pc = "revoked"
  PROVE  RelayInv'
<1> DEFINE old == stream[s]
           late == Late(s, f)
           rec == [old EXCEPT !.chan = Append(old.chan, f), !.pc = pc,
                              !.late_queued = old.late_queued + late]
<1>1. /\ stream \in [Streams -> StreamType] /\ old \in StreamType
      /\ Contents(old) /\ Lateness(old, retired) /\ Admitted(old, allowed, retired)
      /\ allowed \cap retired = {}
  BY StreamFacts
<1>2. /\ old.yielded \in 0 .. MaxFrames /\ old.late_queued \in Nat
      /\ old.chan \in Seq(0 .. MaxFrames) /\ Len(old.chan) \in Nat
      /\ old.body \in Seq(0 .. MaxFrames) /\ Len(old.body) \in Nat
  BY <1>1 DEF StreamType
<1>3. old.rx /\ Len(old.chan) < CHANNEL_CAP /\ InOrder(old) /\ old.yielded >= 1
  BY <1>1 DEF Queue, HasSlot, Contents
<1>4. f \in 0 .. MaxFrames /\ late \in {0, 1} /\ pc \in {"read", "revoked"}
  BY <1>2, FramesAssumption DEF Late, REVOKED_FRAME
<1>5. rec \in StreamType
  <2>1. Append(old.chan, f) \in Seq(0 .. MaxFrames)
    BY <1>2, <1>4, Appending
  <2>2. old.late_queued + late \in Nat
    BY <1>2, <1>4
  <2> QED BY <1>1, <1>4, <2>1, <2>2 DEF StreamType, Running, Ended
<1>6. stream' = [stream EXCEPT ![s] = rec]
  BY <1>1 DEF Queue, StreamType
<1>7. /\ rec.pc = pc /\ rec.bearer = old.bearer /\ rec.yielded = old.yielded
      /\ rec.chan = Append(old.chan, f) /\ rec.body = old.body /\ rec.rx = old.rx
      /\ rec.late_queued = old.late_queued + late
  BY <1>1 DEF StreamType
<1>8. Len(rec.chan) = Len(old.chan) + 1 /\ rec.chan # <<>>
  BY <1>2, <1>4, <1>7, Appending
<1>9. late = IF f # 0 /\ old.bearer \notin allowed THEN 1 ELSE 0
  BY DEF Late, REVOKED_FRAME
<1> HIDE DEF rec, late
<1>10. PICK n \in Nat : n = old.yielded - 1
  BY <1>2, <1>3, FramesAssumption
<1>11. Sent(old) = n /\ Closing(old) = 0
  BY <1>10 DEF Sent, Closing
<1>12. \/ old.pc = "send" /\ rec.pc = "read" /\ f = n + 1 /\ Sent(rec) = n + 1 /\ Closing(rec) = 0
       \/ old.pc = "cut" /\ rec.pc = "revoked" /\ f = 0 /\ Sent(rec) = n /\ Closing(rec) = 1
  <2>1. old.yielded = n + 1
    BY <1>2, <1>10, FramesAssumption
  <2> QED BY <1>7, <1>10, <2>1 DEF Sent, Closing, REVOKED_FRAME
<1>13. Contents(rec)
  <2>1. Placed(old.body, old.chan, n, 0)
    BY <1>3, <1>11 DEF InOrder
  <2>2. Sent(rec) \in Nat /\ Closing(rec) \in {0, 1} /\ Sent(rec) + Closing(rec) = n + 1
    BY <1>12
  <2>3. f = Frame(Sent(rec), n + 1)
    BY <1>12 DEF Frame, REVOKED_FRAME
  <2>4. 0 .. MaxFrames \in SUBSET Nat
    BY FramesAssumption
  <2>5. Placed(old.body, Append(old.chan, f), Sent(rec), Closing(rec))
    <3>1. PICK S, m, z : S = 0 .. MaxFrames /\ m = Sent(rec) /\ z = Closing(rec)
      OBVIOUS
    <3>2. /\ S \in SUBSET Nat /\ old.body \in Seq(S) /\ old.chan \in Seq(S) /\ f \in S
          /\ m \in Nat /\ z \in {0, 1} /\ m + z = n + 1 /\ f = Frame(m, n + 1)
      BY <1>2, <1>4, <2>2, <2>3, <2>4, <3>1
    <3>3. \A g, c \in Seq(S) : Placed(g, c, n, 0) => Placed(g, Append(c, f), m, z)
      BY <3>2, PlacedAppend
    <3> QED BY <2>1, <3>1, <3>2, <3>3, Zenon
  <2>6. InOrder(rec)
    BY <1>7, <2>5 DEF InOrder
  <2>7. Len(rec.chan) <= CHANNEL_CAP
    BY <1>2, <1>3, <1>8, ChannelAssumption
  <2> QED BY <1>3, <1>7, <1>12, <2>6, <2>7 DEF Contents
<1>14. Admitted(rec, allowed, retired)
  BY <1>1, <1>7 DEF Admitted
<1>15. Lateness(rec, retired)
  <2>1. CASE f = 0
    <3>1. rec.pc = "revoked" /\ late = 0
      BY <1>9, <1>12, <2>1
    <3>2. rec.late_queued = old.late_queued
      BY <1>2, <1>7, <3>1
    <3> QED BY <1>1, <1>7, <1>12, <3>1, <3>2 DEF Lateness
  <2>2. CASE f # 0
    <3>1. rec.pc = "read" /\ old.pc = "send"
      BY <1>12, <2>2
    <3>2. old.late_queued = 0 /\ rec.late_queued = late
      BY <1>1, <1>4, <1>7, <3>1 DEF Lateness
    <3>3. old.bearer \notin retired => late = 0
      BY <1>1, <1>9, <3>1 DEF Admitted
    <3> QED BY <1>4, <1>7, <3>1, <3>2, <3>3 DEF Lateness
  <2> QED BY <2>1, <2>2
<1> QED BY <1>5, <1>6, <1>13, <1>14, <1>15, OwnStream

LEMMA PollBodyHolds ==
  ASSUME RelayInv, NEW s \in Streams, PollBody(s)
  PROVE  RelayInv'
<1> DEFINE old == stream[s]
           f == Head(old.chan)
           rec == [old EXCEPT !.body = Append(old.body, f), !.chan = Tail(old.chan)]
<1>1. /\ stream \in [Streams -> StreamType] /\ old \in StreamType
      /\ Contents(old) /\ Lateness(old, retired) /\ Admitted(old, allowed, retired)
  BY StreamFacts
<1>2. /\ old.yielded \in 0 .. MaxFrames
      /\ old.chan \in Seq(0 .. MaxFrames) /\ Len(old.chan) \in Nat
      /\ old.body \in Seq(0 .. MaxFrames) /\ Len(old.body) \in Nat
  BY <1>1 DEF StreamType
<1>3. old.rx /\ old.chan # <<>> /\ InOrder(old) /\ UNCHANGED store
  BY <1>1 DEF PollBody, Contents
<1>4. /\ f \in 0 .. MaxFrames /\ Len(old.chan) >= 1 /\ Tail(old.chan) \in Seq(0 .. MaxFrames)
      /\ Len(Tail(old.chan)) = Len(old.chan) - 1
  BY <1>2, <1>3, Taking
<1>5. rec \in StreamType
  <2>1. Append(old.body, f) \in Seq(0 .. MaxFrames)
    BY <1>2, <1>4, Appending
  <2> HIDE DEF f
  <2> QED BY <1>1, <1>4, <2>1 DEF StreamType
<1>6. stream' = [stream EXCEPT ![s] = rec]
  BY <1>1 DEF PollBody, StreamType
<1>7. /\ rec.pc = old.pc /\ rec.bearer = old.bearer /\ rec.yielded = old.yielded
      /\ rec.chan = Tail(old.chan) /\ rec.body = Append(old.body, f) /\ rec.rx = old.rx
      /\ rec.late_queued = old.late_queued
  BY <1>1 DEF StreamType
<1> HIDE DEF rec
<1>8. /\ Sent(rec) = Sent(old) /\ Closing(rec) = Closing(old) /\ Closing(old) \in {0, 1}
      /\ Sent(old) \in Nat
  BY <1>1, <1>2, <1>7, FramesAssumption DEF Sent, Closing, Contents
<1>9. Placed(Append(old.body, f), Tail(old.chan), Sent(old), Closing(old))
  <2>1. 0 .. MaxFrames \in SUBSET Nat
    BY FramesAssumption
  <2>2. Placed(old.body, old.chan, Sent(old), Closing(old))
    BY <1>3 DEF InOrder
  <2> QED BY <1>2, <1>3, <1>8, <2>1, <2>2, PlacedRead
<1> HIDE DEF f
<1>10. Contents(rec)
  <2>1. InOrder(rec)
    BY <1>7, <1>8, <1>9 DEF InOrder
  <2>2. Len(rec.chan) <= CHANNEL_CAP
    <3>1. Len(old.chan) <= CHANNEL_CAP
      BY <1>1 DEF Contents
    <3> QED BY <1>2, <1>4, <1>7, <3>1, ChannelAssumption
  <2> QED BY <1>1, <1>3, <1>7, <2>1, <2>2 DEF Contents
<1>11. Admitted(rec, allowed, retired) /\ Lateness(rec, retired)
  BY <1>1, <1>7 DEF Admitted, Lateness
<1> QED BY <1>3, <1>5, <1>6, <1>10, <1>11, OwnStream

\* A stream whose receiver is dropped, by its client or with the process.
LEMMA Dropped ==
  ASSUME NEW old \in StreamType, NEW rec, NEW pc \in Running \cup Ended, NEW al, NEW re,
         old.pc # "idle", Contents(old), Lateness(old, re), Admitted(old, al, re),
         pc = old.pc \/ (old.pc \in Running /\ pc \in {"hungup", "killed"}),
         rec = [old EXCEPT !.rx = FALSE, !.chan = <<>>, !.pc = pc]
  PROVE  /\ rec \in StreamType /\ Contents(rec) /\ Lateness(rec, re) /\ Admitted(rec, al, re)
<1>1. rec \in StreamType
  <2>1. <<>> \in Seq(0 .. MaxFrames)
    OBVIOUS
  <2> QED BY <2>1 DEF StreamType
<1>2. /\ rec.pc = pc /\ rec.bearer = old.bearer /\ rec.yielded = old.yielded
      /\ rec.chan = <<>> /\ ~rec.rx
      /\ rec.late_queued = old.late_queued
  BY DEF StreamType
<1>3. Contents(rec)
  <2>1. Len(rec.chan) <= CHANNEL_CAP
    BY <1>2, ChannelAssumption
  <2> QED BY <1>2, <2>1 DEF Contents
<1>4. Admitted(rec, al, re)
  BY <1>2 DEF Admitted, Running
<1>5. Lateness(rec, re)
  <2>1. pc # "idle" /\ (pc = "send" => old.pc = "send")
    BY DEF Running, Ended
  <2> QED BY <1>2, <2>1 DEF Lateness
<1> QED BY <1>1, <1>3, <1>4, <1>5

LEMMA HangUpHolds ==
  ASSUME RelayInv, NEW s \in Streams, HangUp(s)
  PROVE  RelayInv'
<1> DEFINE old == stream[s]
           pc == IF old.pc = "connect" THEN "hungup" ELSE old.pc
           rec == [old EXCEPT !.rx = FALSE, !.chan = <<>>, !.pc = pc]
<1>1. /\ stream \in [Streams -> StreamType] /\ old \in StreamType
      /\ Contents(old) /\ Lateness(old, retired) /\ Admitted(old, allowed, retired)
  BY StreamFacts
<1>2. old.pc # "idle" /\ UNCHANGED store
  BY DEF HangUp
<1>3. pc \in Running \cup Ended /\ (pc = old.pc \/ (old.pc \in Running /\ pc \in {"hungup", "killed"}))
  BY <1>1, <1>2 DEF StreamType, Running, Ended
<1>4. stream' = [stream EXCEPT ![s] = rec]
  BY <1>1 DEF HangUp, StreamType
<1>5. rec \in StreamType /\ Contents(rec) /\ Lateness(rec, retired) /\ Admitted(rec, allowed, retired)
  <2>1. rec = [old EXCEPT !.rx = FALSE, !.chan = <<>>, !.pc = pc]
    OBVIOUS
  <2> HIDE DEF old, rec, pc
  <2> QED BY <1>1, <1>2, <1>3, <2>1, Dropped
<1> HIDE DEF rec
<1> QED BY <1>2, <1>4, <1>5, OwnStream

\* The store's own steps only ever retire bearers for good.
LEMMA ChangeHolds ==
  ASSUME RelayInv, NEW now \in SUBSET Tokens, Change(now)
  PROVE  /\ allowed' \subseteq Tokens /\ retired' \subseteq Tokens /\ allowed' \cap retired' = {}
         /\ \A s \in Streams : /\ Lateness(stream[s], retired')
                               /\ Admitted(stream[s], allowed', retired')
<1>1. /\ allowed \subseteq Tokens /\ retired \subseteq Tokens
      /\ allowed' = now /\ retired' = retired \cup (allowed \ now) /\ now \cap retired = {}
  BY DEF RelayInv, TypeOK, Change
<1>2. retired \subseteq retired' /\ allowed \cup retired \subseteq allowed' \cup retired'
  BY <1>1
<1>3. ASSUME NEW s \in Streams
      PROVE  Lateness(stream[s], retired') /\ Admitted(stream[s], allowed', retired')
  <2>1. Lateness(stream[s], retired) /\ Admitted(stream[s], allowed, retired)
    BY DEF RelayInv
  <2>2. stream[s].bearer \notin retired' => stream[s].bearer \notin retired
    BY <1>2
  <2> QED BY <1>2, <2>1, <2>2 DEF Lateness, Admitted
<1> QED BY <1>1, <1>3

LEMMA StoreStepHolds ==
  ASSUME RelayInv, NEW now \in SUBSET Tokens, Change(now), UNCHANGED stream
  PROVE  RelayInv'
<1>1. TypeOK'
  BY ChangeHolds DEF RelayInv, TypeOK
<1>2. \A s \in Streams : Contents(stream'[s])
  BY DEF RelayInv
<1> QED BY <1>1, <1>2, ChangeHolds DEF RelayInv

LEMMA KillHolds ==
  ASSUME RelayInv, Kill
  PROVE  RelayInv'
<1>1. /\ allowed' \subseteq Tokens /\ retired' \subseteq Tokens /\ allowed' \cap retired' = {}
      /\ \A s \in Streams : /\ Lateness(stream[s], retired')
                            /\ Admitted(stream[s], allowed', retired')
  BY ChangeHolds DEF Kill
<1>2. ASSUME NEW s \in Streams
      PROVE  /\ stream'[s] \in StreamType /\ Contents(stream'[s])
             /\ Lateness(stream'[s], retired') /\ Admitted(stream'[s], allowed', retired')
  <2> DEFINE old == stream[s]
             pc == IF old.pc \in Running THEN "killed" ELSE old.pc
  <2>1. old \in StreamType /\ Contents(old)
    BY StreamFacts
  <2>2. CASE old.pc = "idle"
    <3>1. stream'[s] = old
      BY <2>2 DEF Kill
    <3> QED BY <1>1, <2>1, <3>1
  <2>3. CASE old.pc # "idle"
    <3>1. stream'[s] = [old EXCEPT !.rx = FALSE, !.chan = <<>>, !.pc = pc]
      BY <2>1, <2>3 DEF Kill, StreamType
    <3>2. pc \in Running \cup Ended /\ (pc = old.pc \/ (old.pc \in Running /\ pc \in {"hungup", "killed"}))
      BY <2>1, <2>3 DEF StreamType, Running, Ended
    <3>3. Lateness(old, retired') /\ Admitted(old, allowed', retired')
      BY <1>1
    <3> HIDE DEF old, pc
    <3> QED BY <2>1, <2>3, <3>1, <3>2, <3>3, Dropped
  <2> QED BY <2>2, <2>3
<1>3. stream' \in [Streams -> StreamType]
  BY <1>2 DEF Kill
<1>4. \A s \in Streams : Len(stream'[s].chan) <= CHANNEL_CAP
  BY <1>2 DEF Contents
<1>5. TypeOK'
  BY <1>1, <1>3, <1>4 DEF TypeOK, StreamType
<1> QED BY <1>2, <1>5, <1>1 DEF RelayInv

LEMMA RelayHolds ==
  ASSUME RelayInv, NEW s \in Streams, Relay(s)
  PROVE  RelayInv'
<1>1. stream \in [Streams -> StreamType] /\ stream[s] \in StreamType
  BY StreamFacts
<1>2. stream[s].yielded \in 0 .. MaxFrames
  BY <1>1 DEF StreamType
<1>3. ASSUME NEW pc, Goto(s, pc)
      PROVE  stream' = [stream EXCEPT ![s].pc = pc, ![s].yielded = stream[s].yielded]
  BY <1>1, <1>3 DEF Goto, StreamType
<1>4. CASE UpstreamRefuses(s) \/ UpstreamAccepts(s) \/ UpstreamEnds(s) \/ UpstreamBreaks(s)
  <2>1. PICK pc \in {"failed", "read", "eof", "error"} : Goto(s, pc)
    BY <1>4 DEF UpstreamRefuses, UpstreamAccepts, UpstreamEnds, UpstreamBreaks
  <2>2. stream[s].pc \in {"connect", "read"} /\ UNCHANGED store
    BY <1>4 DEF UpstreamRefuses, UpstreamAccepts, UpstreamEnds, UpstreamBreaks
  <2>3. stream' = [stream EXCEPT ![s].pc = pc, ![s].yielded = stream[s].yielded]
    BY <1>3, <2>1
  <2> QED BY <1>2, <2>2, <2>3, MoveHolds
<1>5. CASE NextFrame(s)
  <2>1. stream[s].yielded + 1 \in 0 .. MaxFrames
    BY <1>2, <1>5, FramesAssumption DEF NextFrame
  <2>2. /\ stream[s].pc = "read" /\ UNCHANGED store
        /\ stream' = [stream EXCEPT ![s].pc = CheckBearer(s), ![s].yielded = stream[s].yielded + 1]
    BY <1>1, <1>5 DEF NextFrame, StreamType
  <2> QED BY <2>1, <2>2, MoveHolds
<1>6. CASE Send(s)
  <2>1. stream[s].pc = "send" /\ UNCHANGED store
    BY <1>6 DEF Send
  <2>2. CASE Queue(s, stream[s].yielded, "read")
    BY <2>1, <2>2, QueueHolds
  <2>3. CASE SendFails(s) /\ Goto(s, "hungup")
    <3>1. stream' = [stream EXCEPT ![s].pc = "hungup", ![s].yielded = stream[s].yielded]
      BY <1>3, <2>3
    <3> QED BY <1>2, <2>1, <2>3, <3>1, MoveHolds DEF SendFails
  <2> QED BY <1>6, <2>2, <2>3 DEF Send
<1>7. CASE Cut(s)
  <2>1. stream[s].pc = "cut" /\ UNCHANGED store
    BY <1>7 DEF Cut
  <2>2. CASE Queue(s, REVOKED_FRAME, "revoked")
    BY <2>1, <2>2, QueueHolds
  <2>3. CASE SendFails(s) /\ Goto(s, "revoked")
    <3>1. stream' = [stream EXCEPT ![s].pc = "revoked", ![s].yielded = stream[s].yielded]
      BY <1>3, <2>3
    <3> QED BY <1>2, <2>1, <2>3, <3>1, MoveHolds DEF SendFails
  <2> QED BY <1>7, <2>2, <2>3 DEF Cut, AfterCut
<1> QED BY <1>4, <1>5, <1>6, <1>7 DEF Relay

-----------------------------------------------------------------------------
(* What the invariant says *)

\* What RelayInOrder says was relayed: n data frames and z closing ones.
Expected(n, z) == [i \in 1 .. n |-> i] \o (IF z = 1 THEN <<REVOKED_FRAME>> ELSE <<>>)

\* Frames in place are the concatenation the property names.
LEMMA PlacedIsConcat ==
  ASSUME NEW got \in Seq(Nat), NEW chan \in Seq(Nat), NEW n \in Nat, NEW z \in {0, 1},
         Placed(got, chan, n, z)
  PROVE  got \o chan = Expected(n, z)
<1> DEFINE data == [i \in 1 .. n |-> i]
           close == IF z = 1 THEN <<REVOKED_FRAME>> ELSE <<>>
<1>1. data \in Seq(Nat) /\ Len(data) = n /\ \A i \in 1 .. n : data[i] = i
  OBVIOUS
<1>2. close \in Seq(Nat) /\ Len(close) = z /\ \A i \in 1 .. z : close[i] = 0
  BY DEF REVOKED_FRAME
<1>3. Len(got) \in Nat /\ Len(chan) \in Nat /\ Len(got) + Len(chan) = n + z
  BY LenProperties DEF Placed
<1> HIDE DEF data, close
<1>4. /\ got \o chan \in Seq(Nat) /\ Len(got \o chan) = n + z
      /\ \A i \in 1 .. Len(got) + Len(chan) :
           (got \o chan)[i] = IF i <= Len(got) THEN got[i] ELSE chan[i - Len(got)]
  BY <1>3, ConcatProperties
<1>5. /\ data \o close \in Seq(Nat) /\ Len(data \o close) = n + z
      /\ \A i \in 1 .. n + z : (data \o close)[i] = IF i <= n THEN data[i] ELSE close[i - n]
  BY <1>1, <1>2, ConcatProperties
<1>6. ASSUME NEW i \in 1 .. n + z
      PROVE  (got \o chan)[i] = (data \o close)[i]
  <2>1. (got \o chan)[i] = Frame(n, i)
    <3>1. CASE i <= Len(got)
      <4>1. i \in 1 .. Len(got)
        BY <1>3, <3>1
      <4> QED BY <1>3, <1>4, <3>1, <4>1 DEF Placed
    <3>2. CASE ~(i <= Len(got))
      <4>1. i - Len(got) \in 1 .. Len(chan) /\ Len(got) + (i - Len(got)) = i
        BY <1>3, <3>2
      <4>2. (got \o chan)[i] = chan[i - Len(got)]
        BY <1>3, <1>4, <3>2
      <4> QED BY <4>1, <4>2 DEF Placed
    <3> QED BY <3>1, <3>2
  <2>2. (data \o close)[i] = Frame(n, i)
    <3>1. CASE i <= n
      BY <1>1, <1>5, <3>1 DEF Frame
    <3>2. CASE ~(i <= n)
      <4>1. i - n \in 1 .. z
        BY <3>2
      <4> QED BY <1>2, <1>5, <3>2, <4>1 DEF Frame, REVOKED_FRAME
    <3> QED BY <3>1, <3>2
  <2> QED BY <2>1, <2>2
<1>7. got \o chan = data \o close
  BY <1>4, <1>5, <1>6, SeqEqual
<1> QED BY <1>7 DEF data, close, Expected

LEMMA InvImplies == RelayInv => TypeOK /\ RelayInOrder /\ AtMostOneLateFrame
<1> SUFFICES ASSUME RelayInv PROVE RelayInOrder /\ AtMostOneLateFrame
  BY DEF RelayInv
<1>1. RelayInOrder
  <2> SUFFICES ASSUME NEW s \in Streams, stream[s].rx
               PROVE  stream[s].body \o stream[s].chan =
                        [i \in 1 .. Relayed(s) |-> i] \o
                        (IF stream[s].pc = "revoked" THEN <<REVOKED_FRAME>> ELSE <<>>)
    BY DEF RelayInOrder
  <2>1. stream[s] \in StreamType /\ Contents(stream[s])
    BY StreamFacts
  <2>2. PICK n, z : n = Sent(stream[s]) /\ z = Closing(stream[s])
    OBVIOUS
  <2>3. n \in Nat /\ z \in {0, 1} /\ n = Relayed(s) /\ (z = 1 <=> stream[s].pc = "revoked")
    <3>1. stream[s].yielded \in Nat
      BY <2>1, FramesAssumption DEF StreamType
    <3> QED BY <2>1, <2>2, <3>1 DEF Sent, Closing, Relayed, Contents
  <2>4. stream[s].body \in Seq(Nat) /\ stream[s].chan \in Seq(Nat)
    <3>1. 0 .. MaxFrames \subseteq Nat
      BY FramesAssumption
    <3>2. stream[s].body \in Seq(0 .. MaxFrames) /\ stream[s].chan \in Seq(0 .. MaxFrames)
      BY <2>1 DEF StreamType
    <3> QED BY <3>1, <3>2, Widening
  <2>5. Placed(stream[s].body, stream[s].chan, n, z)
    BY <2>1, <2>2 DEF Contents, InOrder
  <2>6. stream[s].body \o stream[s].chan = Expected(n, z)
    <3>1. n \in Nat /\ z \in {0, 1}
      BY <2>3
    <3>2. ASSUME NEW g \in Seq(Nat), NEW c \in Seq(Nat), Placed(g, c, n, z)
          PROVE  g \o c = Expected(n, z)
      BY ONLY <3>1, <3>2, PlacedIsConcat, Zenon
    <3> QED BY <2>4, <2>5, <3>2
  <2>7. CASE stream[s].pc = "revoked"
    BY <2>3, <2>6, <2>7 DEF Expected
  <2>8. CASE stream[s].pc # "revoked"
    BY <2>3, <2>6, <2>8 DEF Expected
  <2> QED BY <2>7, <2>8
<1>2. AtMostOneLateFrame
  BY DEF RelayInv, Lateness, AtMostOneLateFrame
<1> QED BY <1>1, <1>2

\* RelayInv is an invariant of the relay, whatever the store does to the
\* allowlist between its steps.
THEOREM RelayInvariant == Spec => []RelayInv
<1>1. ASSUME RelayInv, [Next]_vars PROVE RelayInv'
  <2>1. ASSUME NEW s \in Streams, NEW t \in Tokens \cup {None}, Request(s, t) PROVE RelayInv'
    BY <1>1, <2>1, RequestHolds
  <2>2. ASSUME NEW s \in Streams, Relay(s) PROVE RelayInv'
    BY <1>1, <2>2, RelayHolds
  <2>3. ASSUME NEW s \in Streams, PollBody(s) \/ HangUp(s) PROVE RelayInv'
    BY <1>1, <2>3, PollBodyHolds, HangUpHolds
  <2>4. ASSUME NEW t \in Tokens, Allow(t) PROVE RelayInv'
    <3>1. allowed \cup {t} \in SUBSET Tokens
      BY <1>1 DEF RelayInv, TypeOK
    <3> QED BY <1>1, <2>4, <3>1, StoreStepHolds DEF Allow
  <2>5. ASSUME NEW T \in SUBSET Tokens, Disallow(T) PROVE RelayInv'
    <3>1. allowed \ T \in SUBSET Tokens
      BY <1>1 DEF RelayInv, TypeOK
    <3> QED BY <1>1, <2>5, <3>1, StoreStepHolds DEF Disallow
  <2>6. ASSUME NEW t \in Tokens, NEW u \in Tokens, Replace(t, u) PROVE RelayInv'
    <3>1. (allowed \cup {t}) \ {u} \in SUBSET Tokens
      BY <1>1 DEF RelayInv, TypeOK
    <3> QED BY <1>1, <2>6, <3>1, StoreStepHolds DEF Replace
  <2>7. CASE Kill
    BY <1>1, <2>7, KillHolds
  <2>8. CASE UNCHANGED vars
    BY <1>1, <2>8 DEF vars, RelayInv, TypeOK
  <2> QED BY <1>1, <2>1, <2>2, <2>3, <2>4, <2>5, <2>6, <2>7, <2>8 DEF Next
<1> QED BY <1>1, InitHolds, PTL DEF Spec

\* While the connection stands, the response body and the channel hold vLLM's
\* frames in order, none lost or repeated, and REVOKED_FRAME exactly after a
\* cut.
THEOREM RelayAlwaysInOrder == Spec => []RelayInOrder
BY RelayInvariant, InvImplies, PTL

\* Between the lookup of a frame and its send the bearer may go: one frame
\* of a stream is queued late, never two.
THEOREM NeverTwoLateFrames == Spec => []AtMostOneLateFrame
BY RelayInvariant, InvImplies, PTL

\* The streams are well typed, no channel holds more than CHANNEL_CAP frames,
\* and no bearer is allowed and retired at once.
THEOREM RelayTypes == Spec => []TypeOK
<1>1. RelayInv => TypeOK
  BY DEF RelayInv
<1> QED BY <1>1, RelayInvariant, PTL
=============================================================================
