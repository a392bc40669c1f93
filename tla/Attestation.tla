---------------------------- MODULE Attestation ----------------------------
(***************************************************************************)
(* GET /attestation of src/src/attestation.rs: every request that passes   *)
(* the limiter and sends a 32-byte nonce runs one blocking task.  The task *)
(* mints a TDX quote through an entry of its own under configfs-tsm, then  *)
(* has src/nix/gpu-report.py attest every GPU, and answers with the whole  *)
(* envelope or with 503.  Tasks run concurrently; the entries belong to    *)
(* the kernel and outlive the process.                                     *)
(*                                                                         *)
(* A digest is the tuple it is computed over; a report is the bytes it is  *)
(* over, and for a GPU which one made it.                                  *)
(***************************************************************************)
EXTENDS Integers, Sequences, FiniteSets

CONSTANTS
  Requests,
  ClientNonces,
  Pids,                \* ids the kernel may give the process
  MaxRestarts,         \* bound: times the process dies and is started again
  EXPECTED_GPU_COUNT,
  None

ASSUME GpuAssumption == EXPECTED_GPU_COUNT \in Nat \ {0}
ASSUME RestartsAssumption == MaxRestarts \in Nat

VARIABLES
  pid,      \* std::process::id()
  SEQ,      \* the process's entry counter
  boot,     \* which start of the process this is: stands for its TLS key's spki
  tsm,      \* the kernel's report entries: name -> inblob, None before a write
  orphans,  \* history: entries a killed process or a failed rmdir left behind
  req       \* per request: where its code is and what it has gathered

vars == <<pid, SEQ, boot, tsm, orphans, req>>
process == <<pid, SEQ, boot>>

\* Inside the blocking task; the last four hold the entry or are past it.
Working == {"quote", "write", "read", "remove", "gpu"}
HoldsEntry == {"write", "read", "remove"}
Done == {"ok", "unavailable", "killed"}

Fresh == [pc |-> "idle", nonce |-> None, entry |-> None, quote |-> None,
          gpus |-> <<>>, board |-> None, listening |-> TRUE]

Init ==
  /\ pid \in Pids
  /\ SEQ = 0
  /\ boot = 0
  /\ tsm = <<>>
  /\ orphans = {}
  /\ req = [r \in Requests |-> Fresh]

-----------------------------------------------------------------------------
(* The handler up to spawn_blocking *)

\* Faulty variant: the key is not bound.
NonceOnly(r) == <<req[r].nonce>>

report_data(r) == <<req[r].nonce, boot>>

derive_gpu_nonce(r, i) == <<req[r].nonce, boot, i>>

Request(r, n) ==
  /\ req[r].pc = "idle"
  /\ req' = [req EXCEPT ![r].pc = "quote", ![r].nonce = n]
  /\ UNCHANGED <<process, tsm, orphans>>

-----------------------------------------------------------------------------
(* tdx_quote *)

\* Drop the entry e from the kernel's table.
Without(e) == [n \in DOMAIN tsm \ {e} |-> tsm[n]]

Named(e, inblob) == [n \in DOMAIN tsm \cup {e} |-> IF n = e THEN inblob ELSE tsm[n]]

\* Faulty variant: one entry for all requests.
OneSharedEntry(r) ==
  /\ req[r].pc = "quote"
  /\ tsm' = IF <<pid, 0>> \in DOMAIN tsm THEN tsm ELSE Named(<<pid, 0>>, None)
  /\ req' = [req EXCEPT ![r].pc = "write", ![r].entry = <<pid, 0>>]
  /\ UNCHANGED <<process, orphans>>

\* Faulty variant: create_dir is tried again until the name is free.
KeepTrying(r) == FALSE

\* create_dir fails on a name that exists, and may fail for the kernel's own
\* reasons: 503, with nothing to clean up.
CreateFails(r) == req' = [req EXCEPT ![r].pc = "unavailable"] /\ UNCHANGED tsm

\* fetch_add and create_dir.  The name is the task's own from fetch_add on,
\* so the two are one step.
CreateEntry(r) ==
  /\ req[r].pc = "quote"
  /\ SEQ' = SEQ + 1
  /\ \/ /\ <<pid, SEQ>> \notin DOMAIN tsm
        /\ tsm' = Named(<<pid, SEQ>>, None)
        /\ req' = [req EXCEPT ![r].pc = "write", ![r].entry = <<pid, SEQ>>]
     \/ CreateFails(r)
  /\ UNCHANGED <<pid, boot, orphans>>

\* Faulty variant: an error returns before the cleanup.
GiveUp == "unavailable"

\* remove_dir comes after the closure's errors as after its success.
AfterError == "remove"

WriteInblob(r) ==
  /\ req[r].pc = "write"
  /\ \/ /\ tsm' = [tsm EXCEPT ![req[r].entry] = report_data(r)]
        /\ req' = [req EXCEPT ![r].pc = "read"]
     \/ req' = [req EXCEPT ![r].pc = AfterError] /\ UNCHANGED tsm
  /\ UNCHANGED <<process, orphans>>

\* The TDX module signs what inblob holds now.  A failed read and an empty
\* outblob are the same error.
ReadOutblob(r) ==
  /\ req[r].pc = "read"
  /\ \/ req' = [req EXCEPT ![r].pc = "remove", ![r].quote = tsm[req[r].entry]]
     \/ req' = [req EXCEPT ![r].pc = AfterError]
  /\ UNCHANGED <<process, tsm, orphans>>

\* An error of remove_dir is discarded, and the entry stays.
RemoveEntry(r) ==
  /\ req[r].pc = "remove"
  /\ \/ tsm' = Without(req[r].entry) /\ UNCHANGED orphans
     \/ orphans' = orphans \cup {req[r].entry} /\ UNCHANGED tsm
  /\ req' = [req EXCEPT ![r].pc = IF req[r].quote = None THEN "unavailable" ELSE "gpu"]
  /\ UNCHANGED process

-----------------------------------------------------------------------------
(* gpu_reports_all and its helper *)

\* What NVML may present: GPUs, the CC feature bit, the multi-GPU mode, and
\* the GPUs whose report or certificate chain comes back empty; and whether
\* the program IRON_GPU_REPORT_CMD names makes gpu-report.py's checks ("so a
\* helper bug fails closed at the source", attestation.rs).
Boards ==
  [count : 0 .. EXPECTED_GPU_COUNT + 1, cc : BOOLEAN, mode : {"NVLE", "PROTECTED_PCIE"},
   blank : {{}} \cup {{i} : i \in 1 .. EXPECTED_GPU_COUNT}, checked : BOOLEAN]

\* The helper exits 0: exactly one GPU per nonce, CC on, NVLE, none blank.
Attests(b) ==
  b.checked =>
    b.count = EXPECTED_GPU_COUNT /\ b.cc /\ b.mode = "NVLE" /\ b.blank = {}

\* A report over None is an empty one: the GPU gave nothing, or had no nonce.
HelperOutput(r, b) ==
  [i \in 1 .. b.count |->
    [gpu |-> i,
     over |-> IF i \in (1 .. EXPECTED_GPU_COUNT) \ b.blank THEN derive_gpu_nonce(r, i) ELSE None]]

\* Faulty variant: an empty report or chain is let through.
CountOnly(gpus) == Len(gpus) = EXPECTED_GPU_COUNT

\* What gpu_reports_all checks again of the helper's answer.
Acceptable(gpus) ==
  /\ Len(gpus) = EXPECTED_GPU_COUNT
  /\ \A i \in DOMAIN gpus : gpus[i].over # None

\* The helper refuses, dies on an NVML error whatever the board is, or
\* answers what is no JSON or base64; or its reports complete the envelope.
GpuReports(r, b) ==
  /\ req[r].pc = "gpu"
  /\ \/ /\ Attests(b)
        /\ Acceptable(HelperOutput(r, b))
        /\ req' = [req EXCEPT ![r].pc = "ok", ![r].gpus = HelperOutput(r, b), ![r].board = b]
     \/ req' = [req EXCEPT ![r].pc = "unavailable"]
  /\ UNCHANGED <<process, tsm, orphans>>

-----------------------------------------------------------------------------
(* The client and the process *)

\* spawn_blocking is not cancelled when the client goes: the task runs on.
HangUp(r) ==
  /\ req[r].pc \in Working /\ req[r].listening
  /\ req' = [req EXCEPT ![r].listening = FALSE]
  /\ UNCHANGED <<process, tsm, orphans>>

\* The process dies and systemd starts it again, with a new key and any pid.
Restart ==
  /\ boot < MaxRestarts
  /\ boot' = boot + 1
  /\ pid' \in Pids
  /\ SEQ' = 0
  /\ orphans' = DOMAIN tsm
  /\ req' = [r \in Requests |->
       IF req[r].pc \in Working THEN [req[r] EXCEPT !.pc = "killed"] ELSE req[r]]
  /\ UNCHANGED tsm

Task(r) ==
  \/ CreateEntry(r) \/ WriteInblob(r) \/ ReadOutblob(r) \/ RemoveEntry(r)
  \/ \E b \in Boards : GpuReports(r, b)

Next ==
  \/ \E r \in Requests, n \in ClientNonces : Request(r, n)
  \/ \E r \in Requests : Task(r) \/ HangUp(r)
  \/ Restart

Spec == Init /\ [][Next]_vars

\* A blocking thread runs on; the kernel answers a read of outblob, and the
\* helper process ends.
FairSpec == Spec /\ \A r \in Requests : WF_vars(Task(r))

-----------------------------------------------------------------------------
(* Properties *)

Names == Pids \X Nat
ReportData == ClientNonces \X (0 .. MaxRestarts)
Reports == [gpu : Nat, over : (ClientNonces \X (0 .. MaxRestarts) \X Nat) \cup {None}]

TypeOK ==
  /\ pid \in Pids /\ SEQ \in Nat /\ boot \in 0 .. MaxRestarts
  /\ DOMAIN tsm \subseteq Names
  /\ tsm \in [DOMAIN tsm -> ReportData \cup {None}]
  /\ orphans \subseteq Names
  /\ req \in [Requests ->
       [pc : {"idle"} \cup Working \cup Done, nonce : ClientNonces \cup {None},
        entry : Names \cup {None}, quote : ReportData \cup {None}, gpus : Seq(Reports),
        board : Boards \cup {None}, listening : BOOLEAN]]

\* "sharing one [entry] across concurrent requests would race and
\* cross-bind reports": the quote a task holds is over the nonce of its own
\* request and the key of the process that minted it, whatever other tasks,
\* crashes and reused pids do to the entries meanwhile.
NoCrossBinding ==
  \A r \in Requests : req[r].pc \in Working /\ req[r].quote # None =>
    req[r].quote = report_data(r)

\* "always clean up, even on error": an entry of the kernel's table belongs
\* to exactly one task that is still going to remove it, or was left by a
\* process that was killed or by an rmdir that failed, whose error the code
\* discards.  No other error path, no hang-up and no reused pid leaks one,
\* and no task removes an entry that is not its own.
EntriesAccounted ==
  /\ DOMAIN tsm = orphans \cup {req[r].entry : r \in {q \in Requests : req[q].pc \in HoldsEntry}}
  /\ \A r, q \in Requests : req[r].pc \in HoldsEntry =>
       /\ req[r].entry \notin orphans
       /\ (req[q].pc \in HoldsEntry /\ req[q].entry = req[r].entry => q = r)

\* A 200 envelope is complete and bound: a quote and one report per expected
\* GPU, none empty, in index order, all over one nonce and one key, also when
\* the helper checks nothing.  If it makes its checks, the board is in CC mode
\* with encrypted NVLink and has no GPU beyond the ones attested.
EnvelopeComplete ==
  \A r \in Requests : req[r].pc = "ok" =>
    /\ req[r].board.checked =>
         /\ req[r].board.count = EXPECTED_GPU_COUNT /\ req[r].board.cc
         /\ req[r].board.mode = "NVLE"
    /\ \E k \in 0 .. boot :
         /\ req[r].quote = <<req[r].nonce, k>>
         /\ req[r].gpus = [i \in 1 .. EXPECTED_GPU_COUNT |->
              [gpu |-> i, over |-> <<req[r].nonce, k, i>>]]

\* Every task ends: a name taken by an entry left over from a killed
\* process costs a request its answer, never the thread it runs on.  A helper
\* that hangs is outside this: gpu_reports_all waits for it without a timeout.
TasksEnd == \A r \in Requests : req[r].pc = "quote" ~> req[r].pc \in Done
=============================================================================
