----------------------------- MODULE BootProofs -----------------------------
(***************************************************************************)
(* Proofs about Boot, for any number of disks, model files, manifests,     *)
(* tries of the metadata endpoints and reboots.                            *)
(***************************************************************************)
EXTENDS Boot, TLAPS

\* A start job runs, or has ended well, only after those it requires; a
\* service has a process only after its own job.
ChainInOrder ==
  /\ \A u \in Units : job[u] \in {"running", "done"} =>
       \A v \in Requires(u) : job[v] = "done"
  /\ \A s \in Services : alive[s] # "stopped" => job[s] = "done"

\* iron-datadisk ends well with a disk; fetch-artifacts.sh has verified all
\* files before its cursor, and ends well past the last one.
FilesBehindCursor ==
  /\ job["datadisk"] = "done" => picked # None
  /\ job["artifacts"] \in {"waiting", "running"} => cursor <= FILE_COUNT
  /\ job["artifacts"] = "done" => cursor = FILE_COUNT + 1
  /\ \A i \in 1 .. FILE_COUNT : i < cursor => file[i] = "pinned"

\* fetch-manifest.sh gives up in time, keeps only a manifest of the right
\* hash and ends well with that one installed; iron-instance serves it.
ManifestChecked ==
  /\ job["manifest"] \in {"waiting", "running"} => attempt < ATTEMPTS
  /\ verified # None => verified = want
  /\ job["manifest"] = "done" => manifest_file = want
  /\ alive["instance"] = "running" => served = want

\* The inductive invariant.
BootInv == TypeOK /\ ChainInOrder /\ FilesBehindCursor /\ ManifestChecked

LEMMA UnitFacts ==
  /\ Units = {"vllm", "instance", "datadisk", "artifacts", "manifest"}
  /\ Requires("datadisk") = {} /\ Requires("manifest") = {}
  /\ Requires("artifacts") = {"datadisk"} /\ Requires("vllm") = {"artifacts"}
  /\ Requires("instance") = {"vllm", "manifest"}
BY DEF Units, Services, Oneshots, Requires, InstanceRequires

LEMMA InvImplies == BootInv => VllmRunsVerified /\ ServesLaunchedCohort /\ FailsClosed
<1> SUFFICES ASSUME BootInv PROVE VllmRunsVerified /\ ServesLaunchedCohort /\ FailsClosed
  OBVIOUS
<1>1. VllmRunsVerified
  <2> SUFFICES ASSUME alive["vllm"] = "running"
               PROVE  picked # None /\ \A i \in 1 .. FILE_COUNT : file[i] = "pinned"
    BY DEF VllmRunsVerified
  <2>1. job["artifacts"] = "done" /\ job["datadisk"] = "done"
    BY UnitFacts DEF BootInv, ChainInOrder, Services
  <2> QED BY <2>1, FilesAssumption DEF BootInv, FilesBehindCursor
<1>2. ServesLaunchedCohort
  BY DEF BootInv, ManifestChecked, ServesLaunchedCohort
<1>3. FailsClosed
  <2> SUFFICES ASSUME NEW u \in Units, job[u] = "failed", alive["instance"] # "stopped"
               PROVE  FALSE
    BY DEF FailsClosed
  <2>1. job["instance"] = "done" /\ job["vllm"] = "done" /\ job["manifest"] = "done"
    BY UnitFacts DEF BootInv, ChainInOrder, Services
  <2>2. job["artifacts"] = "done" /\ job["datadisk"] = "done"
    BY <2>1, UnitFacts DEF BootInv, ChainInOrder
  <2> QED BY <2>1, <2>2, UnitFacts
<1> QED BY <1>1, <1>2, <1>3

LEMMA InitHolds == Init => BootInv
<1> SUFFICES ASSUME Init PROVE BootInv
  OBVIOUS
<1>1. TypeOK
  <2>1. fs \in [Disks -> BOOLEAN] /\ fetched \in BOOLEAN /\ answered \in BOOLEAN
    BY Zenon DEF Init
  <2>2. /\ job \in [Units -> {"waiting", "running", "done", "failed"}]
        /\ alive \in [Services -> {"stopped", "starting", "running"}]
        /\ file \in [1 .. FILE_COUNT -> {"absent", "partial", "wrong", "pinned"}]
    BY DEF Init, Waiting, Stopped, NoFiles
  <2>3. cursor \in 0 .. FILE_COUNT + 1 /\ attempt \in 0 .. ATTEMPTS /\ reboots \in 0 .. MaxReboots
    BY FilesAssumption, RebootsAssumption DEF Init
  <2>4. /\ power \in {"on", "off"} /\ picked \in Disks \cup {None}
        /\ {want, verified} \subseteq Manifests \cup {None}
        /\ manifest_file \in Manifests \cup {None, Torn} /\ served \in Manifests \cup {None}
    BY DEF Init
  <2> QED BY <2>1, <2>2, <2>3, <2>4 DEF TypeOK
<1>2. ChainInOrder
  BY DEF Init, ChainInOrder, Waiting, Stopped
<1>3. FilesBehindCursor /\ ManifestChecked
  BY UnitFacts, FilesAssumption
  DEF Init, FilesBehindCursor, ManifestChecked, Waiting, Stopped, Services
<1> QED BY <1>1, <1>2, <1>3 DEF BootInv

LEMMA StartJobHolds ==
  ASSUME BootInv, NEW u \in Units, StartJob(u)
  PROVE  BootInv'
<1>1. TypeOK'
  BY UnitFacts DEF BootInv, TypeOK, StartJob, Finish, Services, machine, disk_vars, fetch_vars, manifest_vars
<1>2. ChainInOrder'
  BY UnitFacts DEF BootInv, TypeOK, ChainInOrder, StartJob, Finish, Succeeded, Services
<1>3. FilesBehindCursor'
  BY UnitFacts DEF BootInv, TypeOK, FilesBehindCursor, StartJob, Finish, Services, disk_vars, fetch_vars
<1>4. ManifestChecked'
  BY UnitFacts DEF BootInv, TypeOK, ManifestChecked, ChainInOrder, StartJob, Finish, Services, manifest_vars
<1> QED BY <1>1, <1>2, <1>3, <1>4 DEF BootInv

\* A step that only ends a job in failure, at most tearing the manifest file
\* of its own job, keeps the invariant.
LEMMA FailureHolds ==
  ASSUME BootInv, NEW u \in Units, job[u] \in {"waiting", "running"}, Finish(u, "failed"),
         manifest_file' \in {manifest_file, Torn}, manifest_file' # manifest_file => u = "manifest",
         UNCHANGED <<machine, alive, disk_vars, fetch_vars, attempt, want, answered, verified, served>>
  PROVE  BootInv'
<1>1. TypeOK'
  BY DEF BootInv, TypeOK, Finish, machine, disk_vars, fetch_vars
<1>2. ChainInOrder'
  BY UnitFacts DEF BootInv, TypeOK, ChainInOrder, Finish, Services
<1>3. FilesBehindCursor'
  BY UnitFacts DEF BootInv, TypeOK, FilesBehindCursor, Finish, disk_vars, fetch_vars
<1>4. ManifestChecked'
  BY UnitFacts DEF BootInv, TypeOK, ManifestChecked, Finish
<1> QED BY <1>1, <1>2, <1>3, <1>4 DEF BootInv

LEMMA DependencyFailsHolds ==
  ASSUME BootInv, NEW u \in Units, DependencyFails(u)
  PROVE  BootInv'
<1>1. /\ job[u] = "waiting" /\ Finish(u, "failed") /\ manifest_file' = manifest_file
      /\ UNCHANGED <<machine, alive, disk_vars, fetch_vars, attempt, want, answered, verified, served>>
  BY DEF DependencyFails, manifest_vars
<1> QED BY <1>1, FailureHolds

LEMMA TimeoutHolds ==
  ASSUME BootInv, NEW u \in Units, Timeout(u)
  PROVE  BootInv'
<1>1. /\ job[u] = "running" /\ Finish(u, "failed")
      /\ manifest_file' \in {manifest_file, Torn} /\ (manifest_file' # manifest_file => u = "manifest")
      /\ UNCHANGED <<machine, alive, disk_vars, fetch_vars, attempt, want, answered, verified, served>>
  BY DEF Timeout, Running
<1> QED BY <1>1, FailureHolds

LEMMA DatadiskHolds ==
  ASSUME BootInv, Datadisk
  PROVE  BootInv'
<1>1. CASE NoDisk
  <2>1. /\ job["datadisk"] = "running" /\ Finish("datadisk", "failed") /\ manifest_file' = manifest_file
        /\ UNCHANGED <<machine, alive, disk_vars, fetch_vars, attempt, want, answered, verified, served>>
    BY <1>1 DEF NoDisk, Die, Running, manifest_vars
  <2> QED BY <2>1, FailureHolds, UnitFacts
<1>2. CASE Mkfs
  <2>1. PICK d \in Disks : picked' = d /\ fs' = [fs EXCEPT ![d] = TRUE]
    BY <1>2 DEF Mkfs, Largest, Blank
  <2>2. UNCHANGED <<machine, job, alive, fetch_vars, manifest_vars, served>>
    BY <1>2 DEF Mkfs
  <2>3. TypeOK'
    <3>1. fs' \in [Disks -> BOOLEAN]
      BY <2>1 DEF BootInv, TypeOK
    <3> QED BY <2>1, <2>2, <3>1 DEF BootInv, TypeOK, machine, fetch_vars, manifest_vars
  <2>4. ChainInOrder' /\ ManifestChecked'
    BY <2>2 DEF BootInv, ChainInOrder, ManifestChecked, manifest_vars
  <2>5. FilesBehindCursor'
    BY <2>1, <2>2, NoneAssumption DEF BootInv, FilesBehindCursor, fetch_vars
  <2> QED BY <2>3, <2>4, <2>5 DEF BootInv
<1>3. CASE Mount
  <2>1. UNCHANGED <<machine, alive, disk_vars, fetch_vars, manifest_vars, served>>
    BY <1>3 DEF Mount
  <2>2. job["datadisk"] = "running" /\ picked # None
    BY <1>3 DEF Mount, Running
  <2>3. CASE Finish("datadisk", "failed")
    <3>1. /\ manifest_file' = manifest_file
          /\ UNCHANGED <<machine, alive, disk_vars, fetch_vars, attempt, want, answered, verified, served>>
      BY <2>1 DEF manifest_vars
    <3> QED BY <2>2, <2>3, <3>1, FailureHolds, UnitFacts
  <2>4. CASE Finish("datadisk", "done")
    <3>1. TypeOK'
      BY <2>1, <2>4 DEF BootInv, TypeOK, Finish, machine, disk_vars, fetch_vars, manifest_vars
    <3>2. ChainInOrder'
      BY <2>1, <2>2, <2>4, UnitFacts DEF BootInv, TypeOK, ChainInOrder, Finish, Services
    <3>3. FilesBehindCursor'
      BY <2>1, <2>2, <2>4, UnitFacts
      DEF BootInv, TypeOK, FilesBehindCursor, Finish, disk_vars, fetch_vars
    <3>4. ManifestChecked'
      BY <2>1, <2>4, UnitFacts DEF BootInv, TypeOK, ManifestChecked, Finish, manifest_vars
    <3> QED BY <3>1, <3>2, <3>3, <3>4 DEF BootInv
  <2> QED BY <1>3, <2>3, <2>4 DEF Mount
<1> QED BY <1>1, <1>2, <1>3 DEF Datadisk

\* fetch-artifacts.sh changes a file at its cursor only, ends in failure or
\* moves on, and so leaves the files behind the cursor as they are.
LEMMA AtCursor ==
  ASSUME BootInv, NEW i \in 1 .. FILE_COUNT, At(i),
         NEW bytes \in {"absent", "partial", "wrong", "pinned"},
         file' = [file EXCEPT ![i] = bytes], cursor' = cursor, fetched' \in BOOLEAN,
         job' = job \/ Finish("artifacts", "failed"),
         UNCHANGED <<machine, alive, disk_vars, manifest_vars, served>>
  PROVE  BootInv'
<1>1. job["artifacts"] = "running" /\ cursor = i
  BY DEF At, Running
<1>2. TypeOK'
  BY DEF BootInv, TypeOK, Finish, machine, disk_vars, manifest_vars
<1>3. ChainInOrder'
  BY <1>1, UnitFacts DEF BootInv, TypeOK, ChainInOrder, Finish, Services
<1>4. FilesBehindCursor'
  BY <1>1, UnitFacts DEF BootInv, TypeOK, FilesBehindCursor, Finish, disk_vars
<1>5. ManifestChecked'
  BY UnitFacts DEF BootInv, TypeOK, ManifestChecked, Finish, manifest_vars
<1> QED BY <1>2, <1>3, <1>4, <1>5 DEF BootInv

LEMMA PullHolds ==
  ASSUME BootInv, Pull
  PROVE  BootInv'
<1>1. job["artifacts"] = "running" /\ cursor = 0
  BY DEF Pull, At, Running
<1>2. CASE Die("artifacts") /\ UNCHANGED fetch_vars
  <2>1. /\ Finish("artifacts", "failed") /\ manifest_file' = manifest_file
        /\ UNCHANGED <<machine, alive, disk_vars, fetch_vars, attempt, want, answered, verified, served>>
    BY <1>2 DEF Pull, Die, manifest_vars
  <2> QED BY <1>1, <2>1, FailureHolds, UnitFacts
<1>3. CASE cursor' = 1 /\ UNCHANGED <<machine, job, alive, file, fetched, manifest_vars, served>>
  <2>1. UNCHANGED disk_vars
    BY DEF Pull
  <2>2. TypeOK'
    BY <1>3, <2>1, FilesAssumption DEF BootInv, TypeOK, machine, disk_vars, manifest_vars
  <2>3. ChainInOrder' /\ ManifestChecked'
    BY <1>3 DEF BootInv, ChainInOrder, ManifestChecked, manifest_vars
  <2>4. FilesBehindCursor'
    BY <1>1, <1>3, <2>1, FilesAssumption DEF BootInv, FilesBehindCursor, disk_vars
  <2> QED BY <2>2, <2>3, <2>4 DEF BootInv
<1> QED BY <1>2, <1>3 DEF Pull

LEMMA DownloadHolds ==
  ASSUME BootInv, NEW i \in 1 .. FILE_COUNT, Download(i)
  PROVE  BootInv'
<1>1. /\ At(i) /\ cursor' = cursor /\ fetched' \in BOOLEAN
      /\ job' = job \/ Finish("artifacts", "failed")
      /\ UNCHANGED <<machine, alive, disk_vars, manifest_vars, served>>
  BY DEF Download, Die, BootInv, TypeOK
<1>2. PICK bytes \in {"absent", "partial", "wrong", "pinned"} : file' = [file EXCEPT ![i] = bytes]
  BY DEF Download, BootInv, TypeOK
<1> QED BY <1>1, <1>2, AtCursor

LEMMA VerifyHolds ==
  ASSUME BootInv, NEW i \in 1 .. FILE_COUNT, Verify(i)
  PROVE  BootInv'
<1>1. At(i) /\ fetched' \in BOOLEAN /\ UNCHANGED disk_vars
  BY DEF Verify
<1>2. CASE ~HashMatches(i)
  <2>1. /\ file' = [file EXCEPT ![i] = "absent"] /\ cursor' = cursor
        /\ Finish("artifacts", "failed")
        /\ UNCHANGED <<machine, alive, disk_vars, manifest_vars, served>>
    BY <1>2 DEF Verify, Die
  <2> QED BY <1>1, <2>1, AtCursor
<1>3. CASE HashMatches(i)
  <2>1. Advance(i) /\ file[i] = "pinned" /\ job["artifacts"] = "running" /\ cursor = i
    BY <1>1, <1>3 DEF Verify, HashMatches, At, Running
  <2>2. TypeOK'
    <3>1. job' \in [Units -> {"waiting", "running", "done", "failed"}]
      BY <2>1 DEF BootInv, TypeOK, Advance
    <3>2. cursor' \in 0 .. FILE_COUNT + 1
      BY <2>1, FilesAssumption DEF Advance
    <3>3. UNCHANGED <<machine, alive, file, manifest_vars, served>>
      BY <2>1 DEF Advance
    <3> QED BY <1>1, <3>1, <3>2, <3>3 DEF BootInv, TypeOK, machine, disk_vars, manifest_vars
  <2>3. ChainInOrder'
    BY <2>1, UnitFacts DEF BootInv, TypeOK, ChainInOrder, Advance, Services
  <2>4. FilesBehindCursor'
    <3>1. /\ cursor' = i + 1 /\ file' = file /\ picked' = picked
          /\ job'["datadisk"] = job["datadisk"]
          /\ job'["artifacts"] = IF i = FILE_COUNT THEN "done" ELSE "running"
      BY <1>1, <2>1, UnitFacts DEF BootInv, TypeOK, Advance, disk_vars
    <3> QED BY <2>1, <3>1, FilesAssumption DEF BootInv, FilesBehindCursor
  <2>5. ManifestChecked'
    BY <2>1, UnitFacts DEF BootInv, TypeOK, ManifestChecked, Advance, manifest_vars
  <2> QED BY <2>2, <2>3, <2>4, <2>5 DEF BootInv
<1> QED BY <1>2, <1>3

\* fetch-manifest.sh leaves the other units' state alone.
LEMMA ManifestUnitHolds ==
  ASSUME BootInv, ManifestUnit
  PROVE  BootInv'
<1>1. /\ job["manifest"] = "running"
      /\ UNCHANGED <<machine, alive, disk_vars, fetch_vars, want, served>>
      /\ \/ job' = job \/ Finish("manifest", "failed")
         \/ Finish("manifest", "done")
  <2>1. CASE AskMetadata
    BY <2>1, UnitFacts DEF AskMetadata, Running, Finish, BootInv, TypeOK
  <2>2. CASE FetchManifest
    BY <2>2 DEF FetchManifest, Running
  <2>3. CASE Install
    BY <2>3 DEF Install, Running
  <2> QED BY <2>1, <2>2, <2>3 DEF ManifestUnit
<1>2. /\ attempt' \in 0 .. ATTEMPTS /\ answered' \in BOOLEAN
      /\ verified' \in Manifests \cup {None} /\ manifest_file' \in Manifests \cup {None, Torn}
      /\ job'["manifest"] = "running" => attempt' < ATTEMPTS
      /\ verified' # None => verified' = want
      /\ job'["manifest"] = "done" => manifest_file' = want
  <2>1. CASE AskMetadata
    <3>1. verified' = verified /\ manifest_file' = manifest_file /\ answered' \in BOOLEAN
      BY <2>1 DEF AskMetadata, BootInv, TypeOK
    <3>2. attempt \in 0 .. ATTEMPTS /\ attempt < ATTEMPTS
      BY <1>1 DEF BootInv, TypeOK, ManifestChecked
    <3>3. job'["manifest"] # "done"
      BY <1>1, <2>1, UnitFacts DEF AskMetadata, Finish, BootInv, TypeOK
    <3>4. attempt' \in 0 .. ATTEMPTS /\ (job'["manifest"] = "running" => attempt' < ATTEMPTS)
      BY <1>1, <2>1, <3>2, UnitFacts, FilesAssumption
      DEF AskMetadata, Finish, GivesUp, BootInv, TypeOK
    <3> QED BY <3>1, <3>3, <3>4 DEF BootInv, TypeOK, ManifestChecked
  <2>2. CASE FetchManifest
    BY <1>1, <2>2, UnitFacts DEF FetchManifest, Matches, Finish, BootInv, TypeOK, ManifestChecked
  <2>3. CASE Install
    BY <1>1, <2>3, UnitFacts DEF Install, Finish, BootInv, TypeOK, ManifestChecked
  <2> QED BY <2>1, <2>2, <2>3 DEF ManifestUnit
<1>3. TypeOK'
  BY <1>1, <1>2 DEF BootInv, TypeOK, Finish, machine, disk_vars, fetch_vars
<1>4. ChainInOrder'
  BY <1>1, UnitFacts DEF BootInv, TypeOK, ChainInOrder, Finish, Services
<1>5. FilesBehindCursor'
  BY <1>1, UnitFacts DEF BootInv, TypeOK, FilesBehindCursor, Finish, disk_vars, fetch_vars
<1>6. ManifestChecked'
  BY <1>1, <1>2, UnitFacts DEF BootInv, TypeOK, ManifestChecked, Finish
<1> QED BY <1>3, <1>4, <1>5, <1>6 DEF BootInv

LEMMA ServiceHolds ==
  ASSUME BootInv, Service
  PROVE  BootInv'
<1>1. UNCHANGED <<machine, job, disk_vars, fetch_vars, manifest_vars>>
  BY DEF Service
<1>2. /\ alive' \in [Services -> {"stopped", "starting", "running"}]
      /\ served' \in Manifests \cup {None}
      /\ \A s \in Services : alive'[s] # "stopped" => alive[s] # "stopped"
      /\ alive'["instance"] = "running" => served' = want
  <2>1. CASE RunVllm
    BY <2>1 DEF RunVllm, Services, BootInv, TypeOK, ManifestChecked
  <2>2. CASE RunInstance
    <3>1. manifest_file = want
      BY <2>2, UnitFacts DEF RunInstance, Services, BootInv, ChainInOrder, ManifestChecked
    <3> QED BY <2>2, <3>1, WellformedAssumption DEF RunInstance, Services, BootInv, TypeOK
  <2>3. ASSUME NEW s \in Services, Exit(s)
        PROVE  /\ alive' \in [Services -> {"stopped", "starting", "running"}]
               /\ served' \in Manifests \cup {None}
               /\ \A t \in Services : alive'[t] # "stopped" => alive[t] # "stopped"
               /\ alive'["instance"] = "running" => served' = want
    BY <2>3 DEF Exit, Services, BootInv, TypeOK, ManifestChecked
  <2> QED BY <2>1, <2>2, <2>3 DEF Service
<1>3. TypeOK'
  BY <1>1, <1>2 DEF BootInv, TypeOK, machine, disk_vars, fetch_vars, manifest_vars
<1>4. ChainInOrder'
  BY <1>1, <1>2 DEF BootInv, ChainInOrder
<1>5. FilesBehindCursor' /\ ManifestChecked'
  BY <1>1, <1>2 DEF BootInv, FilesBehindCursor, ManifestChecked, disk_vars, fetch_vars, manifest_vars
<1> QED BY <1>3, <1>4, <1>5 DEF BootInv

LEMMA TerminateHolds ==
  ASSUME BootInv, Terminate
  PROVE  BootInv'
<1>1. /\ UNCHANGED <<reboots, job, disk_vars, fetch_vars, manifest_vars>>
      /\ power' = "off" /\ alive' = Stopped /\ served' = None
  BY DEF Terminate
<1>2. TypeOK'
  BY <1>1 DEF BootInv, TypeOK, Stopped, disk_vars, fetch_vars, manifest_vars
<1>3. ChainInOrder'
  BY <1>1 DEF BootInv, ChainInOrder, Stopped
<1>4. FilesBehindCursor' /\ ManifestChecked'
  BY <1>1 DEF BootInv, FilesBehindCursor, ManifestChecked, Stopped, Services,
              disk_vars, fetch_vars, manifest_vars
<1> QED BY <1>2, <1>3, <1>4 DEF BootInv

LEMMA RebootHolds ==
  ASSUME BootInv, Reboot
  PROVE  BootInv'
<1>1. TypeOK'
  <2>1. fs' \in [Disks -> BOOLEAN] /\ fetched' \in BOOLEAN /\ answered' \in BOOLEAN
    BY DEF Reboot, BootInv, TypeOK
  <2>2. /\ job' \in [Units -> {"waiting", "running", "done", "failed"}]
        /\ alive' \in [Services -> {"stopped", "starting", "running"}]
        /\ file' \in [1 .. FILE_COUNT -> {"absent", "partial", "wrong", "pinned"}]
    BY DEF Reboot, Waiting, Stopped, NoFiles
  <2>3. cursor' \in 0 .. FILE_COUNT + 1 /\ attempt' \in 0 .. ATTEMPTS /\ reboots' \in 0 .. MaxReboots
    BY FilesAssumption, RebootsAssumption DEF Reboot, BootInv, TypeOK
  <2>4. /\ power' \in {"on", "off"} /\ picked' \in Disks \cup {None}
        /\ {want', verified'} \subseteq Manifests \cup {None}
        /\ manifest_file' \in Manifests \cup {None, Torn} /\ served' \in Manifests \cup {None}
    BY DEF Reboot, BootInv, TypeOK
  <2> QED BY <2>1, <2>2, <2>3, <2>4 DEF TypeOK
<1>2. ChainInOrder'
  BY DEF Reboot, ChainInOrder, Waiting, Stopped
<1>3. FilesBehindCursor' /\ ManifestChecked'
  BY UnitFacts, FilesAssumption
  DEF Reboot, FilesBehindCursor, ManifestChecked, Waiting, Stopped, Services
<1> QED BY <1>1, <1>2, <1>3 DEF BootInv

\* BootInv is an invariant of the boot chain: units start in order, the files
\* behind the fetch cursor are verified, and what is installed is the manifest
\* this boot was launched with.
THEOREM BootInvariant == Spec => []BootInv
<1>1. ASSUME BootInv, [Next]_vars PROVE BootInv'
  <2>1. ASSUME NEW u \in Units, StartJob(u) \/ DependencyFails(u) \/ Timeout(u) PROVE BootInv'
    BY <1>1, <2>1, StartJobHolds, DependencyFailsHolds, TimeoutHolds
  <2>2. CASE Datadisk
    BY <1>1, <2>2, DatadiskHolds
  <2>3. CASE Artifacts
    BY <1>1, <2>3, PullHolds, DownloadHolds, VerifyHolds DEF Artifacts
  <2>4. CASE ManifestUnit
    BY <1>1, <2>4, ManifestUnitHolds
  <2>5. CASE Service
    BY <1>1, <2>5, ServiceHolds
  <2>6. CASE Terminate \/ Reboot
    BY <1>1, <2>6, TerminateHolds, RebootHolds
  <2>7. CASE UNCHANGED vars
    <3> USE <1>1, <2>7 DEF vars, machine, disk_vars, fetch_vars, manifest_vars, BootInv
    <3>1. TypeOK'
      BY DEF TypeOK
    <3>2. ChainInOrder' /\ FilesBehindCursor' /\ ManifestChecked'
      BY DEF ChainInOrder, FilesBehindCursor, ManifestChecked
    <3> QED BY <3>1, <3>2
  <2> QED BY <1>1, <2>1, <2>2, <2>3, <2>4, <2>5, <2>6, <2>7 DEF Next
<1> QED BY <1>1, InitHolds, PTL DEF Spec

\* vLLM has no unverified byte of the model before it, at its first start or
\* a later one, however many files are pinned and wherever a fetch was cut.
THEOREM VllmAlwaysVerified == Spec => []VllmRunsVerified
BY BootInvariant, InvImplies, PTL

\* iron-instance serves the cohort of this boot's user data, whatever earlier
\* boots installed and hosts substituted.
THEOREM AlwaysServesLaunchedCohort == Spec => []ServesLaunchedCohort
BY BootInvariant, InvImplies, PTL

\* "Every step fails closed": a failed unit keeps iron-instance down for the
\* rest of the boot.
THEOREM AlwaysFailsClosed == Spec => []FailsClosed
BY BootInvariant, InvImplies, PTL

\* The units, the disk and the user data are well typed through every boot.
THEOREM BootTypes == Spec => []TypeOK
<1>1. BootInv => TypeOK
  BY DEF BootInv
<1> QED BY <1>1, BootInvariant, PTL
=============================================================================
