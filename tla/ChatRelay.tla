----------------------------- MODULE ChatRelay -----------------------------
(***************************************************************************)
(* The streaming proxy of src/src/chat.rs.  A request is authenticated     *)
(* once, waits for vLLM's response head, and then a spawned task relays    *)
(* vLLM's frames to the client through a bounded channel, looking the      *)
(* bearer up again for every data frame.  The lookup and the send are two  *)
(* steps: the send waits while the channel is full.                        *)
(*                                                                         *)
(* The n-th data frame vLLM yields is the number n.  Trailer frames are    *)
(* skipped by the loop and leave no trace, so they are not modelled.  The  *)
(* model ends where the response body is polled: hyper writes what it      *)
(* takes to its own, TLS's and the socket's buffers, and nothing is said   *)
(* of when the client reads those.                                         *)
(***************************************************************************)
EXTENDS Integers, Sequences

CONSTANTS
  Streams,      \* requests to /v1/chat/completions
  Tokens,       \* session tokens
  CHANNEL_CAP,  \* slots of the mpsc channel
  MaxFrames,    \* bound: data frames vLLM yields on one stream
  None

ASSUME ChannelAssumption == CHANNEL_CAP \in Nat \ {0}
ASSUME FramesAssumption == MaxFrames \in Nat

VARIABLES
  allowed,  \* the bearers contains_token answers true for
  retired,  \* history: bearers that were allowed and no longer are
  stream    \* per request: where its code is, and what it has relayed

vars == <<allowed, retired, stream>>

REVOKED_FRAME == 0

\* connect: awaiting the response head; read: awaiting a frame; send and
\* cut: awaiting a slot for the frame in hand or for REVOKED_FRAME.
Running == {"connect", "read", "send", "cut"}
Ended == {"refused", "failed", "eof", "error", "revoked", "hungup", "killed"}

Fresh == [pc |-> "idle", bearer |-> None, yielded |-> 0, chan |-> <<>>,
          rx |-> TRUE, body |-> <<>>, late_queued |-> 0]

Init ==
  /\ allowed = {}
  /\ retired = {}
  /\ stream = [s \in Streams |-> Fresh]

Goto(s, pc) == stream' = [stream EXCEPT ![s].pc = pc]

store == <<allowed, retired>>

\* 1 for a data frame whose bearer is gone.
Late(s, f) == IF f # REVOKED_FRAME /\ stream[s].bearer \notin allowed THEN 1 ELSE 0

-----------------------------------------------------------------------------
(* The handler *)

Authenticate(s, t) ==
  stream' = [stream EXCEPT ![s].bearer = t,
                           ![s].pc = IF t \in allowed THEN "connect" ELSE "refused"]

Request(s, t) ==
  /\ stream[s].pc = "idle"
  /\ Authenticate(s, t)
  /\ UNCHANGED store

\* No connection to vLLM (502), or a non-success status passed through.
UpstreamRefuses(s) ==
  /\ stream[s].pc = "connect"
  /\ Goto(s, "failed")
  /\ UNCHANGED store

UpstreamAccepts(s) ==
  /\ stream[s].pc = "connect"
  /\ Goto(s, "read")
  /\ UNCHANGED store

-----------------------------------------------------------------------------
(* The relay task *)

\* Faulty variant: no lookup per frame.
CheckNothing(s) == "send"

CheckBearer(s) == IF stream[s].bearer \in allowed THEN "send" ELSE "cut"

NextFrame(s) ==
  /\ stream[s].pc = "read"
  /\ stream[s].yielded < MaxFrames
  /\ stream' = [stream EXCEPT ![s].yielded = @ + 1, ![s].pc = CheckBearer(s)]
  /\ UNCHANGED store

UpstreamEnds(s) ==
  /\ stream[s].pc = "read"
  /\ Goto(s, "eof")
  /\ UNCHANGED store

UpstreamBreaks(s) ==
  /\ stream[s].pc = "read"
  /\ Goto(s, "error")
  /\ UNCHANGED store

\* Faulty variant: an unbounded channel.
Unbounded(s) == stream[s].rx

HasSlot(s) == stream[s].rx /\ Len(stream[s].chan) < CHANNEL_CAP

Queue(s, f, pc) ==
  /\ HasSlot(s)
  /\ stream' = [stream EXCEPT ![s].chan = Append(@, f), ![s].pc = pc,
                              ![s].late_queued = @ + Late(s, f)]

\* Faulty variant: the sender does not learn that the receiver is gone.
WaitsForSlot(s) == FALSE

\* tx.send fails once the client has hung up and the receiver is dropped.
SendFails(s) == ~stream[s].rx

Send(s) ==
  /\ stream[s].pc = "send"
  /\ \/ Queue(s, stream[s].yielded, "read")
     \/ SendFails(s) /\ Goto(s, "hungup")
  /\ UNCHANGED store

\* Faulty variant: no return after the cut.
BackToLoop == "read"

AfterCut == "revoked"

Cut(s) ==
  /\ stream[s].pc = "cut"
  /\ \/ Queue(s, REVOKED_FRAME, AfterCut)
     \/ SendFails(s) /\ Goto(s, AfterCut)
  /\ UNCHANGED store

-----------------------------------------------------------------------------
(* The connection, the store and the process *)

\* hyper polls ReceiverStream for the next frame of the response body.
PollBody(s) ==
  /\ stream[s].rx /\ stream[s].chan # <<>>
  /\ stream' = [stream EXCEPT ![s].body = Append(@, Head(stream[s].chan)),
                              ![s].chan = Tail(@)]
  /\ UNCHANGED store

\* Before the response the handler's future is dropped; after it only the
\* receiver is, and the relay task finds out at its next send.
HangUp(s) ==
  /\ stream[s].rx /\ stream[s].pc # "idle"
  /\ stream' = [stream EXCEPT ![s].rx = FALSE, ![s].chan = <<>>,
                              ![s].pc = IF @ = "connect" THEN "hungup" ELSE @]
  /\ UNCHANGED store

\* insert lists a new bearer; an eviction or a revoke removes some.
Change(now) ==
  /\ now \cap retired = {}
  /\ allowed' = now
  /\ retired' = retired \cup (allowed \ now)

Allow(t) == t \notin allowed /\ Change(allowed \cup {t}) /\ UNCHANGED stream

Disallow(T) == T # {} /\ T \subseteq allowed /\ Change(allowed \ T) /\ UNCHANGED stream

\* An enroll at the cap lists one bearer and removes another.
Replace(t, u) ==
  /\ t \notin allowed /\ u \in allowed
  /\ Change((allowed \cup {t}) \ {u})
  /\ UNCHANGED stream

Kill ==
  /\ Change({})
  /\ stream' = [s \in Streams |->
       IF stream[s].pc = "idle" THEN stream[s]
       ELSE [stream[s] EXCEPT !.pc = IF @ \in Running THEN "killed" ELSE @,
                              !.rx = FALSE, !.chan = <<>>]]

Relay(s) ==
  \/ UpstreamRefuses(s) \/ UpstreamAccepts(s)
  \/ NextFrame(s) \/ UpstreamEnds(s) \/ UpstreamBreaks(s)
  \/ Send(s) \/ Cut(s)

Next ==
  \/ \E s \in Streams, t \in Tokens \cup {None} : Request(s, t)
  \/ \E s \in Streams : Relay(s)
  \/ \E s \in Streams : PollBody(s) \/ HangUp(s)
  \/ \E t \in Tokens : Allow(t)
  \/ \E T \in SUBSET Tokens : Disallow(T)
  \/ \E t, u \in Tokens : Replace(t, u)
  \/ Kill

Spec == Init /\ [][Next]_vars

\* tokio runs a task that can make progress, and vLLM, which generates a
\* bounded completion, eventually answers, yields, ends or breaks.  Nothing
\* is assumed of hyper's polling: it stops while the client does not read,
\* and no timeout of the code ends that.
FairSpec == Spec /\ \A s \in Streams : WF_vars(Relay(s))

-----------------------------------------------------------------------------
(* Properties *)

TypeOK ==
  /\ allowed \subseteq Tokens /\ retired \subseteq Tokens
  /\ allowed \cap retired = {}
  /\ stream \in [Streams ->
       [pc : {"idle"} \cup Running \cup Ended, bearer : Tokens \cup {None},
        yielded : 0 .. MaxFrames, chan : Seq(0 .. MaxFrames), rx : BOOLEAN,
        body : Seq(0 .. MaxFrames), late_queued : Nat]]
  /\ \A s \in Streams : Len(stream[s].chan) <= CHANNEL_CAP

\* How many of the frames vLLM yielded have been put into the channel: all,
\* but for the one in hand or the one a cut threw away.
Relayed(s) ==
  IF stream[s].pc \in {"send", "cut", "revoked"} THEN stream[s].yielded - 1
  ELSE stream[s].yielded

\* While the connection stands, what the response body has yielded followed
\* by what is queued is vLLM's frames in order, none lost and none repeated,
\* followed by REVOKED_FRAME exactly when the stream was cut.
RelayInOrder ==
  \A s \in Streams : stream[s].rx =>
    stream[s].body \o stream[s].chan =
      [i \in 1 .. Relayed(s) |-> i] \o
      (IF stream[s].pc = "revoked" THEN <<REVOKED_FRAME>> ELSE <<>>)

\* The lookup and the send are two steps, so a frame may be queued although
\* its bearer has meanwhile been revoked or evicted: one, never two.
AtMostOneLateFrame == \A s \in Streams : stream[s].late_queued <= 1

\* The connection stands and hyper has left the channel full.
Stalled(s) == stream[s].rx /\ Len(stream[s].chan) = CHANNEL_CAP

\* Every request that reached vLLM ends, also when the client has hung up
\* or its bearer is gone, unless a client that neither reads nor leaves
\* makes hyper keep the channel full for ever.
StreamsEnd ==
  \A s \in Streams :
    stream[s].pc = "connect" ~> (stream[s].pc \in Ended \/ []Stalled(s))

\* "a revoked stream must not complete normally" (tests/chat.rs): once vLLM
\* has yielded a frame, a stream whose bearer is gone while its relay runs
\* does not go on to vLLM's end of stream.
RevokedNeverCompletes ==
  [][\A s \in Streams :
       stream[s].pc \in Running /\ stream[s].yielded > 0 /\ stream[s].bearer \notin allowed
         => stream[s].pc' # "eof"]_vars
=============================================================================
