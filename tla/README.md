# Verification of the IronServer Instance

TLA+ specifications of the Instance: the Rust service in `src/src/`, the GPU helper, the fetch
scripts and the systemd boot chain in `src/nix/`. TLC checks them on small instances; TLAPS proves
the safety properties of the state machines for every value of the constants, and those of the codecs
and checks for inputs of every length.

    tlc -workers 2 -config MCMemberStore.cfg MCMemberStore
    tlapm MemberStoreProofs.tla

`PROJECT.json` lists the runs, maps every definition to the lines it models, and lists the hazards,
findings and theorems.

## The system

One virtual machine serves one cohort for thirty days. Its systemd units format a data disk, fetch
and verify the model and the cohort manifest, start vLLM and start the service. The service
terminates mTLS, admitting only keys of the manifest, and has four endpoints:

| endpoint | state it touches |
|---|---|
| `/attestation` | its token bucket; a report entry of the kernel per request; the GPU helper |
| `/enroll` | inserts a bearer (session token) for a manifest member, evicting at the cap |
| `/v1/chat/completions` | looks the bearer up once per request and again per relayed frame |
| `/manage` | notes a nonce, then revokes a member by hash |

All service state is the `MemberStore` in RAM behind one `RwLock`; a restart forgets it. The handlers
run concurrently on tokio and meet only in the store. The report entries (configfs-tsm) belong to the
kernel and outlive the process; the data disk and `/etc/iron/manifest.json` outlive a reboot.

### What makes it hard

* `insert` and `revoke_by_member_hash` keep two maps in step, with eviction, overwriting and restarts.
* `/manage` takes the lock twice; chat looks up, then waits for a channel slot; the limiter reads the
  clock before it takes the lock.
* Signed envelopes and enrolls may be repeated, late or lost; clients hang up at any point.
* Processes die holding kernel entries; units are killed by timeouts; machines reboot.
* Hosts that serve downloads, and the GPU board, may answer with anything.
* The codecs, the chain walk and the token checks are hand-written loops over untrusted text.

## The modules

| module | models | extended by |
|---|---|---|
| `MemberStore` | `state.rs`: `by_pubkey`, `by_token`, `seen_nonces` and every method on them | `MCMemberStore`, `MemberStoreProofs` |
| `Allowlist` | the abstract promise of the store: the newest `DEVICE_CAP` bearers per member | instanced by `MemberStore` |
| `ChatRelay` | `chat.rs`: handler, relay task, channel, response body, and an allowlist that changes under it | `MCChatRelay`, `ChatRelayProofs` |
| `Instance` | `main.rs`, `lib.rs`, `enroll.rs`, `manage.rs`, `chat.rs`, `mtls.rs`: the handlers over one store | `MCInstance`, `InstanceProofs` |
| `AttestLimiter` | `allow_attestation` | `MCAttestLimiter`, `AttestLimiterProofs` |
| `Attestation` | `attestation.rs` and `gpu-report.py` | `MCAttestation`, `AttestationProofs` |
| `Boot` | `configuration.nix`, `fetch-artifacts.sh`, `fetch-manifest.sh` | `MCBoot`, `BootProofs` |
| `Codecs` | `lib.rs`, `attestation.rs`: hex, base64, UUID text, the PEM lifting | `EnrollChecks`, `CodecsProofs` |
| `EnrollChecks` | `apple_jwks.rs`, `enroll.rs`: the key set, the JWT and StoreKit checks, the order of the answers | `Inputs` |
| `Inputs` | no code of its own: grows inputs for the two modules above and states what they must compute | `MCInputs`, `InputsProofs` |

Conventions. A `HashMap` is a total function with the value `None` for "no such key". A digest is the
tuple it is computed over, so digests are taken to be collision free. A variable called *history* in
its declaration is not in the code: it remembers what happened so that a property can speak of it.
An operator whose comment says *Faulty variant* is used by no specification: it is the bug that a
property is meant to catch, listed under "mutants" in `PROJECT.json`, and the property fails when it
replaces the definition that follows it.

**MemberStore.** Each method runs under one lock guard and is one action or part of one: `Enroll` is
`insert` after the manifest check of `enroll.rs`, `Revoke` is `revoke_by_member_hash`, which removes
*one* of the members holding the hash, whichever the map's iteration meets first. `Restart` is a new
process. A token is drawn at most once (256 random bits). `enrolled`, `minted_as` and `revoked` are
history.

**ChatRelay.** A stream is a record; its `pc` says which `await` it is at. `NextFrame` is a data frame
arriving together with the lookup; `Send` and `Cut` wait for a slot of the channel. `HangUp` drops the
receiver, which the relay notices at its next send. `PollBody` is hyper taking a frame from the
response body, and there the model ends: what hyper, TLS and the socket buffer, and when the client
reads it, is not in it. The allowlist changes by steps of its own
(`Allow`, `Disallow`, `Replace`, `Kill`), so what is checked holds for any store that changes so.

**Instance.** Composes the two: `Store` is `MemberStore` on the same variables and `Chat` is
`ChatRelay` with `allowed` mapped to the bearers the store accepts. `/manage` is `ManageBegin`
(signature, nonce) and `ManageApply` (revoke). An envelope says whether the Orchestrator signed it; the
network delivers any envelope at any time, any number of times, and one that is not signed is answered
401 before its nonce is noted. Note that `/manage` is reached through the same mTLS listener as
everything else, so whoever sends the envelope must present a key of the manifest (`Connected`).

**AttestLimiter.** A call is `ReadClock` and then `Grant` or `Refuse`. Time is in whole seconds and a
bucket counts in units of one refill second, so that the arithmetic is exact; the rounding of the
code's `f64` is not modelled.

**Attestation.** One blocking task per request: `CreateEntry` (counter and `create_dir`),
`WriteInblob`, `ReadOutblob`, `RemoveEntry`, `GpuReports`. Every kernel call may fail. The client may
hang up, which does not stop the task. `Restart` leaves the entries, resets the counter and may reuse
the pid; it also draws a new TLS key, which `boot` stands for. The token bucket in front of the
handler is `AttestLimiter`; here any request may pass it. The kernel signs what `inblob` holds when
`outblob` is read. `rmdir` may fail; the code discards the error and the entry stays, in `orphans` like
those of a killed process. `IRON_GPU_REPORT_CMD` may name another helper than `gpu-report.py`, one that
makes none of its checks (`checked` of a board); it answers, one report per nonce, what the board gives,
and only the checks `gpu_reports_all` makes itself (`Acceptable`) stand behind it.

**Boot.** A unit has a start job; `vllm` and `iron-instance` also have a process, because their jobs
are done as soon as it is forked. systemd is external: a job runs when the jobs it requires are done
and fails when one of them failed; a service that fails is started again or, at the start limit, not.
The early `continue` of `fetch-artifacts.sh` for a file that is present and verified is part of
`Download`; with a freshly formatted disk it has nothing to skip.

**Codecs and EnrollChecks.** Pure functions that follow the code: `b64_decode_any` keeps the unmasked
32-bit accumulator of `lib.rs`, `pck_chain_from_quote` looks for one mark after the other, the chain
walk of `verify_storekit_jws` checks each certificate with its depth, and in `load_apple_jwt_keys` a
later entry of the set replaces an earlier one. A loop is a recursive function over the number of its
turns (`turn` of the decoder, `Pushed` of the encoders, `lift` of the PEM search). A character is its place in the base64 alphabet; a PEM
text is a sequence of marks, line breaks, pieces of base64 and noise. SHA-1 is not modelled: `uuid_v5`
is given any digest of 20 bytes. A signature is the name of the
key that made it, a certificate the record of the fields the code reads. `decode` is
`jsonwebtoken`'s, reduced to what the `Validation` of `verify_apple_jwt` asks of it.

**Inputs.** An input of one kind grows piece by piece, and in every state the function's result is
compared with a definition that does not follow the loops: bits in a row cut into bytes, pairs of
marks with no mark between them, path validation from the root down. `AnswersInOrder` joins the
checks as the enroll handler does. `Instance` takes a credential to be what tokens that passed these
checks say.

## What TLC checks

Passing runs:

| run | config | what it shows |
|---|---|---|
| `store` | `MCMemberStore.cfg` | the two maps agree, slots are bounded, accepted bearers are in the manifest, a revoke is complete; the store implements `Allowlist` |
| `relay` | `MCChatRelay.cfg` | frames in order, none lost or repeated; at most one frame queued after the bearer is gone; every relay ends unless the client neither reads nor leaves |
| `instance` | `MCInstance.cfg` | a signed revoke is applied at most once per process and never lost to its own nonce; streams of a revoked member are cut at their next frame, and no stream is cut unless its own bearer was revoked or pushed out by `DEVICE_CAP` newer ones; the store changes under the relay only as `ChatRelay` allows |
| `limiter` | `MCAttestLimiter.cfg` | calls that enter in the order they read the clock obey burst and rate; overtaking calls exceed it by no more than the time the refill was moved back; a patient member is served |
| `attestation` | `MCAttestation.cfg` | no quote is cross-bound, every entry is accounted for, an envelope is complete or not sent; every task ends, also when its entry's name is taken |
| `boot` | `MCBoot.cfg` | vLLM sees verified files only; the service serves this boot's cohort; a failed unit keeps it down; every start job ends |
| `inputs` | `MCInputs.cfg` | the codecs round-trip and decode as their reference says; manifest lookups by text are lookups by bytes; UUIDs keep their bits; PEM blocks are lifted whole; the chain walk is path validation; exactly the genuine tokens verify; among callers of `/enroll` with a client key, exactly those with a bad credential are answered 401 |

Runs that TLC is expected to refute, each a disagreement between the code and what is written about it:

| run | statement | what happens |
|---|---|---|
| `store_tx_cap` | "originalTransactionId dedup, cap DEVICE_CAP" (`enroll.rs:9`) | the cap is per pubkey; two members with one transaction id hold more than it between them (five of the five tokens), and the 429 is never sent |
| `relay_completes_revoked` | "a revoked stream must not complete normally" (`tests/chat.rs:146`) | a revoke after the last data frame's lookup is not noticed |
| `limiter_race` | "sustained 1 per 10s after the burst" (`state.rs:30`) | a call that read the clock earlier but locks later moves the last refill back, and the same seconds refill twice |
| `boot_disk` | "freshly formatted at every boot" (`configuration.nix:239`) | the file system of the previous boot hides the disk, and iron-datadisk fails |
| `inputs_whitespace` | "padding optional; whitespace ignored" (`lib.rs:102`) | only padding and line breaks are skipped: one space or tab makes the whole text undecodable |

### Bounds, and why they are enough

* `store`: two pubkeys, cap 3 as in the code, five tokens: one member goes two past the cap while
  another enrolls, is revoked and enrolls again. `store_tx_cap` uses a manifest of two members with
  one transaction id.
* `relay`: two streams and two tokens, so a revoke may concern one, both or neither; a channel of one
  slot makes every send wait; three frames are one more than channel and frame in hand,
  so a stalled client fills the channel and makes the relay wait.
* `instance`: one stream, three tokens at cap 2 (one eviction), two nonces, three envelopes: a signed
  revoke, an unsigned one with the same nonce, and a signed payload that is no revoke.
* `limiter`: small burst and period, a clock long enough to empty and refill the bucket; two callers
  are enough for one to overtake the other.
* `attestation`: two requests, two nonces, two GPUs, one crash and two pids, so the tasks may share
  everything but their entries, and the successor of a crash may get the old pid or another.
* `boot`: two disks, two files, two manifests of which one does not parse, two tries of the metadata
  endpoints in place of thirty, and two reboots, after which both disks are used up.
* `inputs`: up to six bytes, two whole base64 groups and every shorter tail; up to six characters, the
  first length at which bits fall off the decoder's accumulator, among them letters that are hex digits
  in either case, `-`, `/`, padding, a line break and a character of neither alphabet (blanks are the
  matter of `inputs_whitespace`); pairs of digests that differ from one digest in one byte each, every
  byte in turn and with six values; six PEM symbols, enough for two blocks
  or for one that lost its END; chains of up to six certificates, one past the limit, each with path
  length 0, 1, 2 or none, of which one at most is odd in one field; every key set of up to two of 54
  entries, against 17 tokens, with the clock crossing an expiry and its leeway of 2; 17 tokens and 10
  JWS in every combination for the answers.

Deadlock is not checked where the system may stop: all requests answered, the clock at its bound, or
the machine powered off.

### Fairness

* `ChatRelay!FairSpec`: weak fairness of each relay. tokio polls a task that can proceed, and vLLM's
  completion is bounded. Nothing is assumed of the client, and no timeout of the code makes it read:
  hence the exception for a stalled client in `StreamsEnd`.
* `Attestation!FairSpec`: weak fairness of each blocking task. The kernel answers and the helper
  process exits; the code puts no timeout on either, so `TasksEnd` says nothing of a helper that hangs.
* `Boot!FairSpec`: systemd starts jobs it can start, propagates failures and enforces
  `TimeoutStartSec`; `lsblk`, `mkfs` and `mount` end. Nothing is assumed of the network.

## What is proved

Every invariant and every safety property of the passing runs has a theorem. None fixes the number of
pubkeys, tokens, streams, requests, envelopes, files or reboots, or the length of a text, a chain or a
key set. The assumptions on constants are the named ASSUMEs of the modules (caps and periods are
positive, `None` is no value, sample bytes are bytes), and TLC evaluates them in the runs. The proofs
about state machines have the same shape: an inductive invariant that is stronger than the properties,
one lemma per action, and PTL at the end. Those about `Inputs` are inductions over the data, below.

**MemberStoreProofs.**

* `StoreInvariant`: `StoreInv` joins `TypeOK`, `IndexCoherent` and `SlotsBounded` with the fact that
  every listed bearer has been minted. The last is what makes a fresh token new to both maps; without
  it an insert could list a bearer twice. `StoreTypes`, `IndexAlwaysCoherent` and `SlotsAlwaysBounded`
  follow.
* `AcceptedAlwaysInManifest`: needs also that every stored member is a pair of the manifest.
* `RevokeAlwaysComplete` assumes `ManifestOneToOne`, which `tests/enroll.rs:77` says of freeze_manifest.
  Then a member's hash never changes, every bearer it lists was minted under it, and the member a
  revoke finds is the only one.
* `AllowlistImplemented`, under the same assumption: the store implements `Allowlist`. The invariant it
  rests on is `SessionsAreNewest`: what a member lists is the newest part of all it was ever given.

**AttestLimiterProofs.** `LimiterTypes`: no reading is ahead of the clock. `ExcessAlwaysBounded`: grants,
each worth one period, plus what is left in the bucket never exceed a full bucket plus the time of the
last refill plus the time set back (`Account`). `RateAlwaysBoundInOrder` rests on `PacedInOrder`, which
says the same of every stretch of the grants, not only of all of them. `PatientAlwaysServed` is an
action property: a refused call had read the clock less than a period after the last refill.

**ChatRelayProofs.** `RelayInvariant`: `RelayInv` says of each stream what body and channel hold
between them (`Contents`), how many frames can still be late (`Lateness`: none is while the bearer is
allowed, and a frame still to be sent is the only one that can become so), and that the bearer of a
running stream is allowed or gone (`Admitted`). `RelayTypes`, `RelayAlwaysInOrder` and
`NeverTwoLateFrames` follow, for every channel size.

**InstanceProofs.** `ManageInvariant`: an envelope whose handler is between the two critical sections is
signed, its nonce is noted and not yet applied, and no other envelope with that nonce is there. Hence
`NonceNeverAppliedTwice` and `RevokeNeverLost`. `NonceAssumption` says that the Orchestrator signs no two
payloads with one nonce.

The rest of the module instances `MemberStoreProofs` over the variables of `Instance` (`Base`), so that
what is proved of the store can be used of the service (`ServiceRunsStore`, `ServiceStoreInvariant`).
`RelayImplemented`: a bearer that is gone never comes back, so the store is one of those `ChatRelay`
allows for. `ServiceTypes`: the whole process is well typed. `RevokeAlwaysReachesStreams`, for a
one-to-one manifest: no relay looks another frame up successfully once its bearer's hash is revoked.
`NeverCutEarly`, the converse, under the same assumption: a relay is cut only when its bearer was revoked
or `DEVICE_CAP` newer ones were enrolled for its pubkey. It rests on `LedgerInvariant` of
`MemberStoreProofs` (what a member lists is the newest part of what its pubkey was given, all of it under
the pubkey's own hash), and on `RunningKnown`: the bearer of a running relay has been revoked or is still
among those its pubkey was given. The lookup that admits a request establishes it, a revoke that empties
the list revokes what was on it, and a restart, which does neither, ends the relay. An evicted stream ends with the same frame as a revoked one: the lookup cannot tell them apart.

**AttestationProofs.** `AttestationInvariant`: `EntriesAccounted` makes an entry its task's own, and
`Gathered` says what a task has at each of its steps; neither is inductive alone. `AttestationTypes`,
`NeverCrossBound`, `EntriesAlwaysAccounted` and `EnvelopesAlwaysComplete` follow.

**BootProofs.** `BootInvariant`: a unit runs only behind those it requires (`ChainInOrder`), the files
behind the fetch cursor are verified (`FilesBehindCursor`), and what passed the hash check is this
boot's manifest (`ManifestChecked`). `BootTypes`, `VllmAlwaysVerified`, `AlwaysServesLaunchedCohort` and
`AlwaysFailsClosed` follow.

**CodecsProofs.** What the loops of `lib.rs` and `attestation.rs` compute, for every input.

* Induction. `LeastNat` (a set of numbers that is not empty has a least one) gives `UpTo`, induction over
  the places of a sequence, and `Growing`, over sequences that grow at their end. `Iteration` shows that
  the recursive function of a loop exists and takes one turn at a time. The sets of these lemmas are
  ordinary parameters, which is why the provers can use them.
* Hex. `HexText`: a text matches the hex of some bytes, in any case, exactly when `hex_decode` reads those
  bytes from it. It covers the manifest lookups and the round trip at once.
* The decoder. After each turn the accumulator ends with the last `nbits` bits read and not yet emitted,
  and `out` holds the bytes before them (`HasRead`). The bits that fall off the top of the 32 are behind
  a byte that was emitted, because `nbits` is below 8 after every turn.
* The encoders. `Laid` says where a character stands that chunk `k` put at place `i` of its group, and
  `Spelled` that a text's values are those of the chunks' sextets. What is spelled is read back
  (`SpelledReads`); both encoders spell (`UrlReadsBack`, `EncodeReadsBack`), the second once its padding is
  skipped.

**InputsProofs.** `Typed` says what an input of each kind is; it is invariant (`TypedAlways`), and each
property of `Inputs` follows from it.

* `DecoderRight` (of texts without blanks) and `RoundTripsAlways` (base64, hex) and `TextMatch` come from
  the lemmas above. `UuidBits`, of any two digests, comes from `UuidOf` (`norm` of a UUID is the hex of the
  16 stamped bytes) and from what `norm` does to upper case (`NormShouted`).
* `BlocksLifted`: `pck_chain_from_quote` recurses to the right, so its induction starts at the end of the
  text (`FromTop`, `Backward`). What is lifted from a place on lists the sound blocks from there on
  (`Lifting`); one turn adds the block it found in front of the others (`ListedMore`) or, if the block is
  not sound, leaves them (`LiftBlock`). That the others lie behind the block's END is where an unclosed
  BEGIN would break it (`OthersBehind`).
* `ChainWalkRight`: the authority that is left at certificate `i`, walking down, is at least `k` exactly
  when every certificate from `i` up may issue and allows as many below it as stand there; at the
  leaf's issuer that is the code's check with depths. A `keyUsage` that cannot be read passes in the code
  (`enroll.rs:172`) and in the definition it is compared with, although the comment above it asks for
  `keyCertSign` wherever `keyUsage` is present.
* `TokensGenuine`: the map `load_apple_jwt_keys` has built after `n` entries holds, for each kid, the last
  usable one of them. `AnswersOrdered` follows from the same two lemmas (`TokenCheck`, `ChainWalk`).

Only model-checked:

* Liveness (`StreamsEnd`, `TasksEnd`, `BootSettles`): out of the prover's reach.
* The five refuted statements, which are counterexamples of TLC.

## Not modelled

* SHA-1, its padding included (a digest is given), and the mathematics of signatures and hashes. Of the parsers of
  JSON, DER and X.509 only what the code does with their results.
* The TLS handshake itself (rustls), HTTP (hyper, axum), podman and systemd, beyond how they are used.
* `pin-artifacts.sh`, `package.nix` and the image settings: build time only.
* The rounding of the limiter's `f64`.
* A GPU helper that hangs, or that answers with another order of reports than it was asked for.
* `AttestLimiter` and `Attestation` are not composed: the bucket only decides whether a request starts,
  and `Attestation` lets any request start.
