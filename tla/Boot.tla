-------------------------------- MODULE Boot --------------------------------
(***************************************************************************)
(* The unattended boot chain of src/nix/configuration.nix and the scripts  *)
(* it runs: iron-datadisk, iron-artifacts (fetch-artifacts.sh), vllm,      *)
(* iron-manifest (fetch-manifest.sh), iron-instance, iron-terminate.       *)
(* systemd itself is external: a unit's start job waits for the start jobs *)
(* of the units it requires, fails if one of them failed, and what those   *)
(* units do afterwards no longer matters to it.                            *)
(*                                                                         *)
(* The data disk and the root file system survive a reboot; processes and  *)
(* jobs do not.  The host that serves a download may answer with anything. *)
(***************************************************************************)
EXTENDS Integers, FiniteSets

CONSTANTS
  Disks,           \* block devices besides the root disk
  Size,            \* their sizes
  FILE_COUNT,      \* model files pinned in artifacts.json
  Manifests,       \* cohort manifests a host may serve, named by their hash
  Wellformed,      \* those among them Manifest::from_bytes parses
  ATTEMPTS,        \* tries of the metadata endpoints
  MaxReboots,      \* bound
  None, Torn       \* no file; a file install was killed while writing

ASSUME FilesAssumption == FILE_COUNT \in Nat \ {0} /\ ATTEMPTS \in Nat \ {0}
ASSUME RebootsAssumption == MaxReboots \in Nat
ASSUME WellformedAssumption == Wellformed \subseteq Manifests
ASSUME NoneAssumption == None \notin Disks \cup Manifests /\ Torn \notin Manifests

VARIABLES
  power,          \* "on" or "off"
  reboots,
  job,            \* unit -> the state of its start job
  alive,          \* service -> its process
  fs,             \* disk -> it carries a file system
  picked,         \* the disk iron-datadisk formats, and mounts
  file,           \* model file on the mounted disk -> what its bytes are
  cursor,         \* fetch-artifacts.sh: 0 pulls the image, i is at file i
  fetched,        \* ... and curl has returned for file i
  attempt,        \* fetch-manifest.sh: failed tries of the metadata endpoints
  want,           \* manifest_sha256 of this boot's user data, None if malformed
  answered,       \* ... which the script has
  verified,       \* ... the manifest that matched it, not installed yet
  manifest_file,  \* /etc/iron/manifest.json
  served          \* the manifest the running iron-instance has loaded

disk_vars == <<fs, picked>>
fetch_vars == <<file, cursor, fetched>>
manifest_vars == <<attempt, want, answered, verified, manifest_file>>
machine == <<power, reboots>>
vars == <<machine, job, alive, disk_vars, fetch_vars, manifest_vars, served>>

Services == {"vllm", "instance"}
Oneshots == {"datadisk", "artifacts", "manifest"}
Units == Services \cup Oneshots

\* Faulty variant: iron-instance does not require iron-manifest.
OnlyVllm == {"vllm"}

InstanceRequires == {"vllm", "manifest"}

\* requires= of each unit; every one of them is also in its after=.
Requires(u) ==
  CASE u = "artifacts" -> {"datadisk"}
    [] u = "vllm" -> {"artifacts"}
    [] u = "instance" -> InstanceRequires
    [] OTHER -> {}

\* Faulty variant: no unit has a timeout.
NoTimeoutStartSec(u) == FALSE

\* Units with TimeoutStartSec: a oneshot without it may start for ever.  The
\* job of vllm, a simple service, is done before its timeout can matter.
TimeoutStartSec(u) == u \in {"artifacts", "vllm", "manifest"}

NoFiles == [i \in 1 .. FILE_COUNT |-> "absent"]

Waiting == [u \in Units |-> "waiting"]
Stopped == [s \in Services |-> "stopped"]

Init ==
  /\ power = "on" /\ reboots = 0
  /\ job = Waiting /\ alive = Stopped /\ served = None
  /\ fs = [d \in Disks |-> FALSE] /\ picked = None
  /\ file = NoFiles /\ cursor = 0 /\ fetched = FALSE
  /\ attempt = 0 /\ answered = FALSE /\ verified = None /\ manifest_file = None
  /\ want \in Manifests \cup {None}

-----------------------------------------------------------------------------
(* systemd *)

Running(u) == power = "on" /\ job[u] = "running"

Finish(u, result) == job' = [job EXCEPT ![u] = result]

Succeeded(u) == job[u] = "done"

\* A oneshot's job runs until its script ends; a simple service's job is
\* done once its process has been forked, ready or not.
StartJob(u) ==
  /\ power = "on" /\ job[u] = "waiting"
  /\ \A v \in Requires(u) : Succeeded(v)
  /\ Finish(u, IF u \in Services THEN "done" ELSE "running")
  /\ alive' = [s \in Services |-> IF s = u THEN "starting" ELSE alive[s]]
  /\ UNCHANGED <<machine, disk_vars, fetch_vars, manifest_vars, served>>

DependencyFails(u) ==
  /\ power = "on" /\ job[u] = "waiting"
  /\ \E v \in Requires(u) : job[v] = "failed"
  /\ Finish(u, "failed")
  /\ UNCHANGED <<machine, alive, disk_vars, fetch_vars, manifest_vars, served>>

\* systemd kills the script wherever it is.  install(1) unlinks the target
\* and writes it anew, so the kill may leave a torn file.
Timeout(u) ==
  /\ Running(u) /\ TimeoutStartSec(u)
  /\ Finish(u, "failed")
  /\ \/ UNCHANGED manifest_file
     \/ u = "manifest" /\ verified # None /\ manifest_file' = Torn
  /\ UNCHANGED <<machine, alive, disk_vars, fetch_vars, attempt, want, answered, verified, served>>

\* die in either script, whatever it was doing: a download that fails (one
\* of a model file leaves part of it), a pull whose digest does not match.
Die(u) ==
  /\ Running(u)
  /\ Finish(u, "failed")
  /\ UNCHANGED <<machine, alive, manifest_vars, served>>

-----------------------------------------------------------------------------
(* iron-datadisk *)

Blank == {d \in Disks : ~fs[d]}

Largest(S) == {d \in S : \A e \in S : Size[d] >= Size[e]}

NoDisk ==
  /\ Running("datadisk") /\ picked = None
  /\ Blank = {}
  /\ Die("datadisk")
  /\ UNCHANGED <<disk_vars, fetch_vars>>

Mkfs ==
  /\ Running("datadisk") /\ picked = None
  /\ \E d \in Largest(Blank) :
       /\ picked' = d
       /\ fs' = [fs EXCEPT ![d] = TRUE]
  /\ UNCHANGED <<machine, job, alive, fetch_vars, manifest_vars, served>>

\* mount, or an error of mkfs or mount under set -e.
Mount ==
  /\ Running("datadisk") /\ picked # None
  /\ \E result \in {"done", "failed"} : Finish("datadisk", result)
  /\ UNCHANGED <<machine, alive, disk_vars, fetch_vars, manifest_vars, served>>

Datadisk == NoDisk \/ Mkfs \/ Mount

-----------------------------------------------------------------------------
(* iron-artifacts *)

At(i) == Running("artifacts") /\ cursor = i

Pull ==
  /\ At(0)
  /\ \/ /\ cursor' = 1
        /\ UNCHANGED <<machine, job, alive, file, fetched, manifest_vars, served>>
     \/ Die("artifacts") /\ UNCHANGED fetch_vars
  /\ UNCHANGED disk_vars

\* curl returns with what the host sent, or fails midway.  A file that is
\* there and verifies is not fetched again.
Download(i) ==
  /\ At(i) /\ ~fetched
  /\ \/ /\ \E bytes \in {"wrong", "pinned"} :
             file' = [file EXCEPT ![i] = IF @ = "pinned" THEN @ ELSE bytes]
        /\ fetched' = TRUE
        /\ UNCHANGED <<machine, job, alive, manifest_vars, served>>
     \/ /\ \E bytes \in {"absent", "partial"} : file' = [file EXCEPT ![i] = bytes]
        /\ Die("artifacts")
        /\ UNCHANGED fetched
  /\ UNCHANGED <<disk_vars, cursor>>

Advance(i) ==
  /\ cursor' = i + 1
  /\ job' = [job EXCEPT !["artifacts"] = IF i = FILE_COUNT THEN "done" ELSE @]
  /\ UNCHANGED <<machine, alive, file, manifest_vars, served>>

\* Faulty variant: a mismatch only warns.
Warned(i) == TRUE

HashMatches(i) == file[i] = "pinned"

\* sha256sum against the pin: a mismatch deletes the file and ends the unit.
Verify(i) ==
  /\ At(i) /\ fetched
  /\ fetched' = FALSE
  /\ \/ HashMatches(i) /\ Advance(i)
     \/ /\ ~HashMatches(i)
        /\ file' = [file EXCEPT ![i] = "absent"]
        /\ Die("artifacts")
        /\ UNCHANGED cursor
  /\ UNCHANGED disk_vars

Artifacts == Pull \/ \E i \in 1 .. FILE_COUNT : Download(i) \/ Verify(i)

-----------------------------------------------------------------------------
(* iron-manifest *)

\* Faulty variant: one try too many.
GivesUpLate == attempt = ATTEMPTS

GivesUp == attempt + 1 = ATTEMPTS

\* The endpoints answer or do not; after ATTEMPTS tries the script dies.
\* User data without a usable manifest_url and manifest_sha256 ends it too.
AskMetadata ==
  /\ Running("manifest") /\ ~answered
  /\ \/ want # None /\ answered' = TRUE /\ UNCHANGED <<job, attempt>>
     \/ want = None /\ Finish("manifest", "failed") /\ UNCHANGED <<attempt, answered>>
     \/ /\ attempt' = attempt + 1
        /\ job' = [job EXCEPT !["manifest"] = IF GivesUp THEN "failed" ELSE @]
        /\ UNCHANGED answered
  /\ UNCHANGED <<machine, alive, disk_vars, fetch_vars, want, verified, manifest_file, served>>

\* Faulty variant: the manifest hash is not compared.
TrustHost(m) == TRUE

Matches(m) == m = want

FetchManifest ==
  /\ Running("manifest") /\ answered /\ verified = None
  /\ \/ \E m \in Manifests : Matches(m) /\ verified' = m /\ UNCHANGED job
     \/ Finish("manifest", "failed") /\ UNCHANGED verified
  /\ UNCHANGED <<machine, alive, disk_vars, fetch_vars, attempt, want, answered,
                 manifest_file, served>>

Install ==
  /\ Running("manifest") /\ verified # None
  /\ manifest_file' = verified
  /\ Finish("manifest", "done")
  /\ UNCHANGED <<machine, alive, disk_vars, fetch_vars, attempt, want, answered, verified, served>>

ManifestUnit == AskMetadata \/ FetchManifest \/ Install

-----------------------------------------------------------------------------
(* vllm and iron-instance *)

\* fetch-artifacts.sh --run-vllm verifies nothing again.
RunVllm ==
  /\ power = "on" /\ alive["vllm"] = "starting"
  /\ alive' = [alive EXCEPT !["vllm"] = "running"]
  /\ UNCHANGED served

\* main reads and parses the manifest and only then listens; it panics on a
\* file that is absent or does not parse.
RunInstance ==
  /\ power = "on" /\ alive["instance"] = "starting"
  /\ manifest_file \in Wellformed
  /\ alive' = [alive EXCEPT !["instance"] = "running"]
  /\ served' = manifest_file

\* Exits, panics and kills.  Restart=on-failure starts the service again;
\* a clean exit or systemd's start limit does not.
Exit(s) ==
  /\ power = "on" /\ alive[s] \in {"starting", "running"}
  /\ \E next \in {"starting", "stopped"} : alive' = [alive EXCEPT ![s] = next]
  /\ served' = IF s = "instance" THEN None ELSE served

Service ==
  /\ RunVllm \/ RunInstance \/ \E s \in Services : Exit(s)
  /\ UNCHANGED <<machine, job, disk_vars, fetch_vars, manifest_vars>>

-----------------------------------------------------------------------------
(* The machine *)

\* iron-terminate, OnBootSec=30d.
Terminate ==
  /\ power = "on"
  /\ power' = "off"
  /\ alive' = Stopped
  /\ served' = None
  /\ UNCHANGED <<reboots, job, disk_vars, fetch_vars, manifest_vars>>

Reboot ==
  /\ power = "on" /\ reboots < MaxReboots
  /\ reboots' = reboots + 1
  /\ job' = Waiting /\ alive' = Stopped /\ served' = None
  /\ picked' = None
  /\ file' = NoFiles /\ cursor' = 0 /\ fetched' = FALSE
  /\ attempt' = 0 /\ answered' = FALSE /\ verified' = None
  /\ want' \in Manifests \cup {None}
  /\ UNCHANGED <<power, fs, manifest_file>>

Next ==
  \/ \E u \in Units : StartJob(u) \/ DependencyFails(u) \/ Timeout(u)
  \/ Datadisk \/ Artifacts \/ ManifestUnit \/ Service
  \/ Terminate \/ Reboot

Spec == Init /\ [][Next]_vars

\* systemd runs the jobs it can run and enforces the timeouts, and lsblk,
\* mkfs and mount end.  Nothing is assumed of the network: a download may
\* hang for ever.
FairSpec ==
  /\ Spec
  /\ \A u \in Units : WF_vars(StartJob(u)) /\ WF_vars(DependencyFails(u)) /\ WF_vars(Timeout(u))
  /\ WF_vars(Datadisk)

-----------------------------------------------------------------------------
(* Properties *)

TypeOK ==
  /\ power \in {"on", "off"} /\ reboots \in 0 .. MaxReboots
  /\ job \in [Units -> {"waiting", "running", "done", "failed"}]
  /\ alive \in [Services -> {"stopped", "starting", "running"}]
  /\ fs \in [Disks -> BOOLEAN] /\ picked \in Disks \cup {None}
  /\ file \in [1 .. FILE_COUNT -> {"absent", "partial", "wrong", "pinned"}]
  /\ cursor \in 0 .. FILE_COUNT + 1 /\ fetched \in BOOLEAN
  /\ attempt \in 0 .. ATTEMPTS /\ answered \in BOOLEAN
  /\ {want, verified} \subseteq Manifests \cup {None}
  /\ manifest_file \in Manifests \cup {None, Torn}
  /\ served \in Manifests \cup {None}

\* vLLM never has a byte of the model in front of it that did not match its
\* pin: not at the first start and not at a restart, which verifies nothing
\* again, whatever hosts sent and wherever a fetch was cut short.
VllmRunsVerified ==
  alive["vllm"] = "running" => picked # None /\ \A i \in 1 .. FILE_COUNT : file[i] = "pinned"

\* iron-instance serves the cohort this boot's user data names, never one
\* an earlier boot installed, one the host substituted, or a torn file.
ServesLaunchedCohort == alive["instance"] = "running" => served = want

\* "Every step fails closed: a hash mismatch, a missing manifest, or an
\* absent data disk stops the boot" (README): once a unit of the chain has
\* failed, iron-instance does not run in this boot.
FailsClosed ==
  (\E u \in Units : job[u] = "failed") => alive["instance"] = "stopped"

\* Every start job ends, done or failed, although downloads may hang: no
\* boot waits for ever.
BootSettles ==
  \A u \in Units :
    job[u] \in {"waiting", "running"} ~> (job[u] \in {"done", "failed"} \/ power = "off")

\* "It goes on the instance's ephemeral local disk, freshly formatted at
\* every boot" (configuration.nix): iron-datadisk finds a disk to format in
\* every boot of a machine that has one.
DiskFoundEveryBoot == job["datadisk"] = "failed" /\ picked = None => Disks = {}
=============================================================================
