# Verification of the vaultwarden-hummingbird supervisor

`src/supervisor` is a Rust program that runs as PID 1 of a container. It joins
the container to a tailnet, runs `tailscaled` and `vaultwarden` as children,
restores the vault's database from an S3 bucket and the rest of its data
directory beside it, keeps both backed up while the vault serves, answers a
health check, and tears everything down in order when it is asked to stop.
This directory holds TLA+ specifications of its core, the configurations TLC
checks them with, and proofs checked by TLAPS.

Paths below are relative to `src/supervisor/src/` unless they start with
`src/`; within a section about one file, `:120` is a line of it.

## 1. The system

### Database backup and restore (`runtime/backup/`) — module `DbBackup`

* **State.** On the data volume: the SQLite database, the lineage sidecar
  `db-backups.state` (the generation this database descends from), the retained
  dump `db-backups.last`. In the bucket: one object per dump, named by its
  timestamp, and a manifest of `(generation, name)` entries.
* **Operations.** `adopt` (a volume without a sidecar takes the lineage of a
  bucket whose newest dump it holds), `restore_if_empty` (download, check and
  import the newest usable candidate, then record its lineage), `tick` (guard,
  dump, put the dump, publish the manifest, write the sidecar, retain the dump,
  prune what fell out of `keep`).
* **Hard.** The container may die between any two requests; a request may take
  effect and be reported as failed; another, older or wiped volume may be booted
  against the same bucket; the clock may step back; a manifest may be missing,
  in which case dumps are listed and their positions serve as generations.
* **Correct when** a manifest names only dumps that exist; a database pushes
  over the newest backup only if it holds every commit of it; an upload is
  skipped only if the newest backup is identical; a restore passes over proven
  damage only and never falls silently to an older or empty database; failed
  requests delay a backup and do not wedge it. (Two of these have exceptions in
  the code, which section 3 lists.)

### State sync (`runtime/sync/`) — module `StateSync`

* **State.** The durable files of the data directory, the hash cache
  `.sync-cache`, the repair list `.sync-repair`, the local shadow of a manifest
  that could not be published; in the bucket content-addressed objects
  `objects/<rel>/<sha256>`, path-keyed objects of an older layout, a manifest.
* **Operations.** `restore` at boot (pull what is missing, then reconcile: note
  what the bucket has lost), `sync_state_at` (hash, skip or upload, publish).
* **Hard.** The vault writes files during a push; a push can be cut off between
  any two files; manifest, cache, repair list and shadow must agree about
  whether an object is there.
* **Correct when** the manifest names only what can be fetched and passes the
  checks a pull makes, of size and of hash; what a push reported as saved survives
  the loss of the volume; nothing is skipped on a record the bucket does not back;
  a lost object is noticed and uploaded again.

### Boot, watch loop, teardown and the maintenance reactor — module `Supervisor`

* **State.** The process stop flag (`signals.rs`), the main thread's phase
  (`boot.rs`, `watch.rs`), the children, the maintenance token (stop, forced),
  the reactor's channel and thread (`maintenance.rs`).
* **Operations.** Seven boot phases, each of which may see a stop; `watch`, which
  reads the vault's exit, tailscaled's exit and the stop flag one after the
  other; TERM–wait–KILL escalation; `begin_drain` and its bounded wait; the
  reactor's periodic passes and its final flush.
* **Hard.** One stop flag is consumed in three places; exits and stops race;
  a periodic run may overrun into the flush; a task may hang for good; a second
  stop must hurry and not harm.
* **Correct when** the flush runs with the children gone and has its whole
  budget; the exit code is the vault's own; every stop ends the container.

### Process supervision (`runtime/process/child.rs`, `run.rs`, `reaper.rs`) — module `Process`

* **State.** The kernel's process table, the registry of supervised pids under
  its lock, one status slot per child, the reaper thread.
* **Operations.** `spawn` (fork and register under the lock), `run` (wait with a
  bound or an abort, kill, wait again), `signal_child`, the reaper's snapshot,
  poll, targeted `waitpid`, sweep and delivery.
* **Hard.** As PID 1 the supervisor reaps orphans it never started; pids are
  recycled; a child may exit before it is registered; a status is delivered
  after the lock has been released.
* **Correct when** a status goes to the child it belongs to, a signal never
  leaves the supervised children, no exit is missed, no zombie stays.

### Gatekeeper and health probe (`runtime/gate/`) — module `Gate`

* **State.** The limiter's count of permits, one thread per accepted connection,
  the accept loop's backoff, the verdict and its age under one mutex; in another
  process, the image's health check and its deadline.
* **Operations.** Admission (`serve_with`: accept, take a permit, spawn or turn
  away with 503), one request (`handle_with`: read the head against one deadline,
  answer 403 or the verdict), `Liveness::alive` (a fresh cache hit, else one
  bounded probe of the vault), `healthcheck_until` (probe the gate until an
  answer or the deadline).
* **Hard.** Clients send nothing, or one byte at a time; handlers queue on the
  mutex while one of them probes a vault that hangs; spawns and accepts fail; the
  health check competes with everybody else for a slot and for the mutex, with a
  budget that equals the probe's.
* **Correct when** every permit comes back, in bounded time; what a client is
  told is as recent as one probe and one cache window; requests do not fan out
  into probes; the health check says "unhealthy" only with cause.

### S3 client (`s3/client.rs`, `s3/remote.rs`) — module `S3Client`

* **State.** The bucket and its open multipart uploads; the file that is uploaded,
  which the vault may write meanwhile; the file a download is
  published as and its partial sibling; the attempt, part, offset or page a call
  has reached.
* **Operations.** `put` (one request below a threshold, else create, parts,
  complete, abort), `put_bytes`, `get` (resume, stream, verify, publish),
  `get_optional_text`, `list` (page by page, sorted), `delete`, all through
  `retrying` and `checked`.
* **Hard.** A request may be lost before or after it took effect; a body may end
  early, with or without a declared length; a file is opened again for every attempt
  and read part by part; other writers replace objects between
  two attempts or two pages; a stop may come between any two requests; the
  container may die and leave an upload and a partial file behind.
* **Correct when** it behaves like single requests that happen or do not; a
  success is real; a stored object is whole and has only what its file had during
  the call, and a published file is one object; absence is never the
  disguise of an error; no upload is left open behind a call; every call ends.

### Configuration and the vault's environment (`config/`, `runtime/services/vaultwarden.rs`) — module `Config`

* **State.** The container's environment, the mounted dotenv file, the resolved
  configuration (fixed at boot), the environment of the running vault.
* **Operations.** Load the file and route its keys, resolve each knob by
  precedence and range, refuse or build, and layer the vault's environment when
  it is started.
* **Hard.** Two programs read the same settings: the supervisor decides which
  database to back up by its own reading of `DATABASE_URL`, the vault opens it
  through diesel and SQLite. A key may be set in both sources, empty in one,
  twice in the file, in a legacy spelling, or with a prefix that turns into the
  supervisor's own namespace once it is stripped.
* **Correct when** both open the same database; the vault receives nothing of
  the supervisor's and every setting that was granted; no line of the file is
  silently dropped and no number out of range is used.

### Parts without a module

| Part | Why not |
| --- | --- |
| Command lines of `tailscale`, `tailscaled` and `vaultwarden`, tailscale's environment (`runtime/services/`, `runtime/process/env.rs`) | Fixed lists of words; a service call that succeeds or fails is a choice in `Supervisor`. |
| The rest of the utilities (`util/`) | Hashing, logging, modes of files, addresses: what they return is what the models say they return. |
| Image, compose file, scripts | No state of the running system. |

The parts meet as follows. `boot` runs adoption and restore (`DbBackup`) and the
pull (`StateSync`) before any child is started, starts the children through
`Process`, and starts the reactor, whose passes are a `tick` of the backup and
a push of the state, in this order. The watch loop ends on an exit or a stop,
reaps the children, and the reactor flushes both tasks once more. The only state
the two tasks share is the volume, of which they use different files, and the
bucket, of which they use different prefixes; so `DbBackup` and `StateSync` are
independent, and what `Supervisor` says about when a task runs or is cut off is
a crash or an abort in them. Both see a request by its outcome (done, not done,
done but reported as failed), which is what `S3Promise` states and `S3Client` is
shown to implement. `S3Promise` grants less in three cases that the other two
modules leave out or cover by a fault of their own: a completion with an error in
it (`misled`: they take a success as real), a text cut short (they take a manifest
as read whole or unreadable), and a file written while it is uploaded (the dump is
a staged copy nobody writes; the files of `StateSync` are live, which is its fault
`"race"`: the object stored is not what its hash says). `Config` gives the other
modules their constants: `Keep` is positive, a port has a successor for the vault,
a backup has a bucket.

## 2. The modules

| Module | What it is |
| --- | --- |
| `DbBackup` | Backup and restore of the database |
| `BackupPromise` | What the backup promises, without how: a published backup is replaced only by one with all its commits |
| `DbBackupProofs` | Theorems about `DbBackup`: its types, and that no entry dangles |
| `LineageProofs` | More of them, resting on those: the shadow guard, the skip, restores, the refinement of `BackupPromise` |
| `StateSync` | Pull and push of the durable files |
| `StateSyncProofs` | Theorems about `StateSync` |
| `Supervisor` | Boot, watch, teardown, reactor |
| `SupervisorProofs` | Theorems about `Supervisor` |
| `Process` | Spawn, bounded run, reaper |
| `ProcessProofs` | Theorems about `Process` |
| `Gate` | Admission, requests, the verdict and its probe, the health check |
| `GateProofs` | Theorems about `Gate` |
| `S3Client` | The S3 client, attempt by attempt |
| `S3Promise` | What its calls promise, without attempts, parts or partial files |
| `S3ClientProofs` | Theorems about `S3Client`, the refinement of `S3Promise` among them |
| `Config` | Environment, dotenv file, resolution, the vault's environment |
| `ConfigProofs` | Theorems about `Config` |
| `MC…` | Instances for TLC: volumes, files, pids, connections, environments, symmetry |

### DbBackup

A database is the set of commits it holds. `Boot` mounts a volume and takes one
of the settings of the restore flag; `AdoptLineage`/`AdoptFails`, `RestoreDb`,
`Import`, `ImportInvalid`, `ImportRefused`, `RecordImport` are the boot;
`TickGuards`, `TickDump`, `TickPut`, `TickPublish`, `TickCleanup`, `TickRecord`,
`TickRetain`, `TickPrune` and the failure actions beside them are one tick, cut
exactly at the requests and the file operations a crash can fall between.
`Commit`, `Stop`, `Crash`, `Wipe`, `CorruptObject`, `LoseObject`,
`GarbleManifest` and `ClearBucket` are the world. `Effective` is the manifest,
or the listing where there is none; `Proceeds` is the shadow guard,
`UploadIsRedundant` the skip.

* A dump's name is the integer its timestamp stands for; a clock that steps back
  gives a name below an earlier one.
* An import is all or nothing. The files of a SQLite database (`-wal`, `-shm`)
  are not told apart; see hazard `sqlite/restore.rs:110`.
* A drain deadline that aborts a tick is, for everything durable, a crash or a
  failed PUT at the same place, and is not an action of its own.
* A step that only logs and returns changes nothing and is a stuttering step. A
  tick whose S3 settings build no client is one of these.
* `usable` is whether the settings of this boot build a client; where they do not
  (fault `"settings"`), a restore boots on with what there is and nothing is adopted
  or backed up, as the code does (`restore.rs:72-82`, `dump.rs:53-62`). The endpoint
  and the bucket are checked by `Client::connect` only (`client.rs:242-260`), the
  configuration just asks that they are not empty.
* The lineage sidecar is a file operation like others, with a fault of its own
  (`"sidecar"`), because its loss is what the shadow guard cannot tell from a
  foreign volume.
* `vouched` is history: volumes whose sidecar rests on the operator's word, given
  by booting with the restore flag over a non-empty database.

### StateSync

A content is the number of the write that made it; hashes are perfect; two
contents may share a size, so that `HeldBySize` is the weaker check it is in the
code, which compares sizes under the content-addressed and the path key alike
(`state.rs:344-349`). A manifest entry is a hash, and `misfit` names the files whose
entry has another content's size: a push reads the size with the metadata, the
hash later, and a write in between (fault `"resize"`) parts them. `Records` is the
test of both by which a push skips. A cache entry is kept while its size and
timestamps still match the file.
`PullStart`, `PullFile`, `Reconcile` are the boot; `PushStart`, `PushFile`,
`PushHash`, `PushPut`, `PushManifest`, `PushSave` one push, with a write
possible between a file's metadata, its hash and its upload.

* One container runs at a time, which the code requires of its operator.
* Not modelled: which paths are durable (`is_synced_file`), equal last-modified
  stamps in `choose_newest`. Partial downloads and their removal at boot are in
  `S3Client`.
* Not modelled: settings no client can be built from. Pull and push then end
  before they begin, and the boot goes on.
* A pull or a reconciliation that is aborted ends the boot, which is `Crash`.

### Supervisor

The main thread is one program counter over the boot phases, the three reads of
the watch loop (`WatchVault`, `WatchTailscaled`, `WatchStop`), the three reaping
waits and the drain. A read of shared state and what follows it is one action
only where no other thread can tell. Timeouts outside the drain may strike at
any moment; inside it, `clock` counts units from the drain's start and the drain
loop polls once per unit. The reactor runs passes (`PassTask`, `RunEnds`,
`WaitTimesOut`) and the flush (`FlushStarts`, `FlushTask`, `FinishEnds`); a run
may end, be cut short at a poll of its token, or hang for good.

The wait for an idle reaper during teardown is not modelled: it only delays.

### Process

`proc` is the kernel's table: a pid is free again as soon as it is reaped, and
may then be given to a child or an orphan. `SpawnLocks`, `SpawnForks`,
`SpawnRegisters`, `SpawnRefuses`, `SpawnFails` are a spawn, which holds the
registry lock throughout; `WaitReads`, `WaitGoesOn`, `GivesUp`, `Kills`,
`Returns` a bounded run; `ReaperSnapshot`, `ReaperPoll`, `ReaperTarget`,
`ReaperSweep`, `ReaperDelivers` a pass of the reaper.

* Dropping a handle is leaving the states in which a thread holds it (`Held`).
* The second wait gives up after `KILL_GRACE` only for a child that was killed
  and still lives (uninterruptible sleep).
* A process group appears through its orphans only; the idle flag and `quiesce`
  are not modelled.

### Gate

Time passes in units (`Tick`). What the code does without waiting it does before
the unit ends (`Urgent`, `HealthUrgent`); what a peer does it does when it likes,
until the code's timeout ends the wait. A connection goes from `backlog` through
`Admit`, `Reject` or `SpawnFails` to `reading`, and from there by `HeadDenied` to
its end, or by `HeadAlive` to `asking`; `AskCached` and `AskProbe` are
`Liveness::alive` once the mutex is free, `VaultAnswers` and `ProbeEnds` the
probe. `HealthBegins`, `HealthAsks`, `HealthRefused`, `HealthHears` are the health
check, whose request is one of the connections, unless its connect fails at once:
the gate of a container that boots is not bound yet. `VaultChanges` lets the vault
answer, stall, refuse or hang at any moment.

* A request head is its outcome: `GET /alive`, or anything else.
* A response is some eighty bytes and fits the socket's buffer: writing it waits
  for no peer, and is part of `Answers`.
* `good`, `bad` and `quiet` are history: how long ago the vault could answer,
  could fail, and was probed; they stop counting at `Horizon`.
* The model's one-shot backoff after a failed spawn or accept ends at a `Tick`.
* `TypeOK` is not among the run's invariants: it is proved.

### S3Client

One attempt of one request is one action: `Put`, `PutBytes`, `Delete`, `GetText`,
`ListPage`, `GetAttempt` and `Publish`, `CreateUpload`, `UploadPart`,
`CompleteUpload`, `AbortUpload`. `Asked` says what may become of an idempotent
request: it takes effect and is heard of; takes effect and is not; is lost; is
refused. A content is a sequence of chunks, each marked with the version it is
part of, so that a mixture of two versions of one size can be told apart. `source`
is the file a put uploads: what it has, and what it had when the reading in hand
began. `Rewritten` is the vault writing it, up to `MaxBodies` contents in a call, until
all of it is read; objects that no call names have contents of `OtherVersions` only;
an attempt of `Put` reads it anew (`ReadsOn`, `Readings`), `UploadPart` takes one
chunk of it off the disk as it is by then and keeps that chunk over its retries. A
sound page is `PageKeys` of its token and ends at the greatest of them
(`LastKey`); `Sorted` is the stable sort the client ends a listing with.
`Replaced` is another writer, `RaiseStop` the caller's abort, `Reboot` a
container that died or was stopped, after which the boot removes partial files
as far as it can. `past` is history: what a key held since the call began, what
the file had (`had`), whether a text was cut short (`cut`) and whether a 200 was
believed that had an error in it (`misled`).

* A `sound` endpoint fails at most `MaxFaults` times; a `broken` one may fail
  for ever, ignores ranges and announces pages as it likes. What a listing says
  is claimed of sound endpoints only; that it ends, of both.
* One client, one call at a time, as the reactor and the boot use it.
* A chunk is what is read at once. A write that falls into the reading of one part,
  or more than one that falls into the reading of one request, is not told apart
  from one before or after it.
* Not modelled: `region_for`, `normalize_endpoint`, `connect`, signatures, the
  form of XML, the pauses between attempts.

### Config

A key is the sequence of its words, a value a sequence of tokens; only database
URLs are spelled out, one token a character. `Route` is the dotenv file's
treatment of a key, `Settings` the lines it accepts as such, `LastIn` which of
them counts, `Knob` the precedence of the sources, `Over` one layer of an
environment over another, `Port`, `Flag`,
`Count`, `InRange`, `Sync`, `Backup`, `SqlitePath` the resolvers, `Refused` every
reason to refuse the boot, `Build` the result, `GrantedEnv` the vault's
environment. `EditEnv` and `EditFile` are the operator, `Boot`, `StartVault` and
`Stop` the container. `OpensUri` and `Opens` are external: what diesel and SQLite
make of the URL, written independently of the supervisor's parser, in one pass
over the string as SQLite's is.

* Not modelled: the hostname, socket and userspace knobs, the prefix of objects
  in the bucket, `$VAR` substitution inside dotenv values, BOM and quoting.

## 3. What is checked

A few definitions are in no run. `TypeOK` of `Supervisor`, `StateSync` and
`Gate` is proved instead, and of `S3Client` what is proved of the types is
`Typed` of `S3ClientProofs`; `SkipMeansIdentical`, `OnlyManifestRestored`,
`LostNewestFallsBack`, `RefusesToGuess`, `RecoversNewest`, `SizesAreTrue`,
`PublishOrphansNothing`, `SignalsReachOwnChild`, `TextsAreWhole` and
`CompletedOrAborted` state what comments say and does not hold (end of this
section); `SizesAreTrue` is proved where nobody resizes a file at that moment.

Every bound is a constant named in the module. Deadlock is checked everywhere
but in the runs of `Supervisor`, where the container exits for good. Symmetry
(volumes, files, connections) is used in runs without liveness only.

| Run | Instance | States | Shows |
| --- | --- | --- | --- |
| `DbBackup_faults` | 2 volumes, keep 1, 3 commits, 4 generations, 1 dump of an older layout; up to 3 failed PUTs, DELETEs, GETs, file operations, sidecars, crashes, wipes | 1.85 M | `ManifestNeverDangles`, `SkipOnlyWhenBackedUp`, `NoEmptyBackup`, and that a push implements `BackupPromise` (`PublishedNeverShrinks`) |
| `DbBackup_damage` | 2 volumes, keep 2, 2 commits, 3 generations; up to 2 damaged or deleted dumps, unparsable manifests, clock steps, PUTs that took effect unnoticed, crashes, GETs, settings without a client; restore over non-empty volumes too | 494 k | `LineageIsProof`, `RestoreNeverDowngrades`, `NeverFreshOverBackups` |
| `DbBackup_progress` | 1 volume, keep 2, 2 commits, 6 generations, 1 dump of an older layout; up to 3 failed PUTs and DELETEs, file operations, emptied buckets | 8.2 k | `BackupProgress` |
| `StateSync_faults` | 2 files, 2 writes each, all three layouts of the bucket, up to 2 faults, all kinds but `race`, `get`, `garble`, `lose` | 1.90 M | `ManifestHeld`, `AckedIsRestorable`, `SkipsAreHeld` |
| `StateSync_progress` | 1 file, 2 writes, all layouts, every kind of fault, up to 3 | 87 k | `CacheIsCurrent`, `LossIsRecorded`, `EventuallySynced` |
| `Supervisor` | 6 configurations (full; without a port; without a port and serve; without serve and tasks; backup only; sync without a cadence), 2 stops, budget 2, forced budget 1, one request 1 | 385 k | `FlushesAlone`, `FirstStopNeverForces`, `FlushIsWhole`, `ExitIsHonest`, `EveryStopEnds`, `OutageEndsContainer` |
| `Process` | 2 pids, 2 threads, 2 spawns, 1 orphan | 156 k | `SpawnKeepsItsChild`, `RegistrationIsLiveness`, `VerdictsAreTrue`, `NoRunLeavesItsChild`, `SignalsReachChildren`, `ExitsAreDelivered`, `ZombiesAreReaped` |
| `S3Client` | 2 keys, calls on one of them, the other absent or of 1 chunk; contents of 1, 2, 2 and 3 chunks, multipart from 2, at most 2 parts, 2 attempts, 3 of a download, cap 2, pages of 1, 2 keys and 3 pages at most; a file that has up to 2 contents while it is uploaded; sound and broken endpoints, 14 kinds of fault, up to 2 | 961 k | `CallsKeepThePromise`, `ReadsAreTrue` (of texts and of listings), `UploadsAreClosed`, `EveryCallEnds` |
| `Gate` | 3 connections, 2 slots, read and probe timeouts 2, time to live 2, health check 4; failing spawns, accepts and connects | 3.59 M | `SlotsAreGivenBack`, `VerdictsAreRecent`, `ProbesAreSpaced`, `HealthcheckIsHonest` |
| `Config` | 2 deployments with up to 3 edits of 37 environment and 38 file settings; every database URL of up to 4 of 7 characters, with (no authority) and without a scheme | 2.43 M | `SameDatabase`, `ChildIsConfined`, `NothingIsIgnored` |

Why these bounds reach the interesting cases:

* **Two volumes** are the smallest number at which one can hold what the other
  has not; three commits let a volume fall behind, diverge and be overtaken.
  *Keep* 1 makes every push prune, keep 2 leaves an older candidate to a restore.
  The last generation is reached, so the end of the generation space is checked.
  Three faults are two that prepare a state and one that strikes in it.
* **Two files** show a push that is cut between them, and a manifest rebuilt
  while only one could be uploaded; one file is enough where a property speaks
  of one file's records only. Two writes are an old and a new content.
* **A budget of 2 units, a forced one of 1 and a request of 1** stand for 120 s,
  15 s and 60 s (`config/consts.rs`): a periodic run, a request that hangs and
  the whole budget can each outlast another. Two stops are the first and the one
  that hurries; a third is taken like the second.
* **Two pids, three processes** are the smallest number at which a pid must be
  recycled, between the two threads' children and between a child and an orphan.
* **Three connections on two slots** are a handler that probes, one that waits for
  it, and one that is turned away; the health check is any of them. The timeouts
  keep the code's proportions: probe = time to live (`gate/liveness.rs`) < health
  check; the theorems say that nothing else depends on the numbers, and what
  the health check needs of them (`Measured`, section 4).
* **Two chunks** are what a body can be cut between and an upload has two parts
  of; two contents of one size are what only a hash tells apart. Two keys in pages
  of one make two pages, and a third page is one that never should come; calls
  name one key, and of the other only its presence and its size can be seen. Two
  contents of a file are one that is there and one that replaces it, between two
  parts or two attempts, and may give way to it again. Two faults are a request
  that took effect unheard and what happens to its repetition.
* **Three edits** are two sources that disagree about a key and a third setting,
  or an edit between boot and start. URLs of four characters hold one escape and
  what comes before or after it; an escape writes a NUL, a digit, a `?` or a byte
  that is not UTF-8.

### Fairness

* `DbBackup`: weak fairness of the tick, the boot and its steps. The reactor
  calls `tick` on its cadence for as long as the vault serves, and a boot that
  began runs on. Nothing is assumed of faults, commits or operators; they are
  bounded in number, so `BackupProgress` says that a finite number of failures
  delays a backup only.
* `StateSync`: weak fairness of the pull's and the push's steps, for the same reason.
* `Supervisor`: weak fairness of the main thread, each of whose waits has a
  timeout, and of time. **None of the children and none of the reactor**, whose
  runs may hang in one request: every stop still ends the container.
* `Process`: weak fairness of each thread, strong fairness of the reaper: the
  registry lock is held for a spawn at a time, so the reaper finds it free again
  and again, and is not shut out for good. Nothing is assumed of the processes.
* `S3Client`: weak fairness of a call's steps: every request is answered or times
  out (the timeouts `connect` gives the agent, `BODY_TIMEOUT` among them). That an
  answer comes is not assumed: a broken endpoint fails every attempt.
* `Gate` and `Config` claim safety only. `Gate` needs no fairness for its bounds:
  they are counted in units that cannot end before what is due has been done.

### Where the code and its words differ

Two runs check one sentence of the documentation each, and TLC refutes it:

| Run | The sentence | What happens |
| --- | --- | --- |
| `DbBackup_v_crash_jams` | `src/README.md:103`: "If the container dies mid-backup you lose one cycle" | The container dies after the PUT of its first dump (`dump.rs:146`) and before the manifest (`:160`). The orphan is generation 1 of the listing, the volume has no lineage, and the shadow guard refuses it until the operator restores. A crash between a manifest and its sidecar (`:160-162`) ends the same way; `lineage.rs:8-9` knows of that one. |
| `Supervisor_v_hurry` | `maintenance.rs:178-180`: "a second stop signal actually shortens the shutdown" | Its bound replaces the hard stop even when it is later. |

Further disagreements can be seen with the operators of the modules and these
constants (everything not named as in the runs above; each is a shortest
instance):

| Property | Constants | The words it follows |
| --- | --- | --- |
| `RefusesToGuess` | `TwoVolumes`, keep 1, 3 generations, 1 commit, `{"off", "empty"}`, no old dumps, `{"settings"}`, 1 fault | `src/README.md:105`: "If it can't tell (an unreadable database, a bucket it can't list), it refuses to start rather than guess". With settings no client can be built from, an empty volume is served empty beside another's backup (`restore.rs:72-82`). |
| `SizesAreTrue` | `OneFile`, `{"fresh"}`, 2 writes, `{"resize"}`, 1 fault | `state.rs:16-17`: the manifest "records each synced file's size and SHA-256". A file resized between its metadata (`state.rs:624`) and its hash (`:651`) gets an entry of two contents (`:677-683`), and a pull refuses the object. The next push that looks at the file repairs the entry. |
| `TextsAreWhole` | `{"short"}`, a sound endpoint, 1 fault | `client.rs:607-609`, of a body: "A connection that closed early is a failed attempt, not a short object". So it is in `get`; `get_optional_text` looks at the cap only (`client.rs:495-505`) and returns the beginning of a manifest as the manifest. |
| `CompletedOrAborted` | `{"hollow"}`, a sound endpoint, 1 fault | `client.rs:315-317`: "complete — or abort, so no half-uploaded object lingers". A completion answered 200 with an error in its body passes for success (`client.rs:371-376`): no object, and the parts linger. |
| `OneCycleLost` | `OneVolume`, keep 1, 3 generations, 1 commit, `{"off"}`, no old dumps, `{"put", "delete"}`, 2 faults | `dump.rs:170-172`: "leave the lineage where it was so the next tick retries", `:181-182`: "restore and prune ignore it". In a bucket without a manifest, its PUT fails and the DELETE of the dump does too. The next tick lists the orphan as generation 1 and is refused, as every later one is. |
| `LostNewestFallsBack` | `TwoVolumes`, keep 2, 3 generations, 2 commits, `{"off", "empty"}`, no old dumps, `{"lose"}`, 1 fault | `dump.rs:132-135`: after an external deletion "restore falls back to the next older entry". A missing object is a failed download, and the boot refuses (`restore.rs:120-129`). |
| `ManifestHeld` | `TwoFiles`, `{"fresh"}`, 2 writes, `{"race"}`, 1 fault | `state.rs:28-29`: "every upload records a hash computed from the bytes on disk". The file is read twice, to hash it and to upload it (`state.rs:651, 675`); a write between the two stores bytes under another hash, and a pull refuses them. |
| `SignalsReachOwnChild` | `TwoPids`, 2 threads, 2 spawns, 1 orphan | `child.rs:91-98`: "its pid cannot have been recycled". The check is whether the pid is registered, not whose it is; a late kill may reach another supervised child. `SignalsReachChildren` is what does hold. |
| `ManifestNeverDangles` | `OneVolume`, keep 1, 1 commit, `{"off"}`, no old dumps, `{"landed"}`, 1 fault | `dump.rs:19-21`. The failed manifest PUT took effect, and the cleanup deletes the dump it names. |
| `LineageIsProof` | `TwoVolumes`, keep 1, 3 commits, `{"off"}`, no old dumps, `{"clear"}`, 1 fault | `lineage.rs:5-6`. Generations start over in an emptied bucket, and an old sidecar matches a new number. |
| `SkipMeansIdentical` | `OneVolume`, keep 1, 2 commits, `{"off"}`, no old dumps, `{"lose"}`, 1 fault | `unchanged.rs:1-2, 9-11`. The newest dump was deleted; the skip does not look. |
| `SkipMeansIdentical` | `TwoVolumes`, keep 1, 2 commits, `{"any"}`, no faults | The same, on a volume the operator vouched for (`dump.rs:30-32`). |
| `OnlyManifestRestored` | `TwoVolumes`, keep 2, 2 commits, `{"off", "empty"}`, no old dumps, `{"crash", "get"}`, 2 faults | `manifest.rs:7-9`. A manifest that cannot be fetched makes the boot list, and an unpublished dump is restored. |
| `OneCycleLost` | `OneVolume`, keep 1, 1 commit, `{"off"}`, no old dumps, `{"sidecar"}`, 1 fault | `src/README.md:103`, without a crash. A sidecar that could not be written (`lineage.rs:49-55`) is one generation behind. |
| `ManifestHeld` | `TwoFiles`, `{"inherited"}`, 2 writes, `{"get"}`, 1 fault | `state.rs:19-22`. A path-keyed object that an old manifest names is overwritten in place. |
| `RecoversNewest` | `OneFile`, `{"legacy"}`, 2 writes, `{"get", "wipe"}`, 2 faults | `state.rs:258-260`. With no readable manifest the path-keyed copy wins over a newer one. |
| `PublishOrphansNothing` | `TwoFiles`, `{"legacy"}`, 1 write, `{"put"}`, 1 fault | `state.rs:580-582`. One upload failed, and the manifest published omits its file. |

The passing runs leave these cases out by their faults or by an exception the
property names:

* `DbBackup_faults` has neither `landed` nor `lose`; `DbBackup_progress` has neither
  `sidecar` nor `crash`, behind which a volume cannot prove its lineage and waits
  for the operator.
* `SkipOnlyWhenBackedUp` and `LineageIsProof` except vouched volumes,
  `NeverFreshOverBackups` a boot whose settings build no client (`usable`).
* `BackupProgress` excepts a dump that was orphaned in a bucket without a manifest
  (`OrphanBlocks`), the wedge `OneCycleLost` shows with `{"put", "delete"}`. Once a manifest has been
  published no failed request and no failed cleanup stops the cycle. What a tick
  in progress has uploaded does not count as a backup (`Shown`).
* `ManifestHeld`, `AckedIsRestorable` and `LossIsRecorded` except a file while its
  entry mixes two contents (`misfit`), `AckedIsRestorable` files a rebuilt manifest
  has orphaned. `EventuallySynced` excepts no misfit: the entry is repaired.
* `ReadsAreTrue` allows a text that was cut short to be a beginning, and
  `CallsKeepThePromise` a success the bucket reported with an error in it (`misled`).

Met while modelling, and part of the models as the code has it:

* `s3/client.rs:315-317` says "complete — or abort, so no half-uploaded object
  lingers". A completion that fails in the transport or with an error status
  returns through `?` (`:371`) and is not aborted; only one refused by a 3xx is
  (`:372-375`). An upload whose creation was not heard of lingers as well, and one
  whose completion was a 200 with an error (`CompletedOrAborted`).
  `UploadsAreClosed` is about the others.
* `s3/client.rs:559-560` says that "an object that changed answers 200". S3
  answers 206 to a range of whatever object is there, and the rest of the new one
  is appended to the beginning of the old: only the hash, or a different size,
  gives it away. `S3Promise` grants a download checked by size its promise only
  while nobody replaces the object and no partial file was left over.
* A delete that took effect unheard is answered 404 when it is repeated, by
  providers that do so, and is reported as failed.
* `runtime/gate/server.rs:26` says "No request may hold a gatekeeper thread for
  longer than this", of the read timeout of 5 s. `/alive` may hold it for the
  read and a probe, which is what `SlotsAreGivenBack` bounds.
* `runtime/gate/liveness.rs:3-6` allows up to `MAX_CONNS` probes in one cache
  window. The mutex is held through the probe, so it is one (`ProbesAreSpaced`).
* A `VAULTWARDEN_DATABASE_URL` that is not UTF-8 does not exist for the
  supervisor (`config/env/merge.rs:68`) but is forwarded to the vault;
  `merge.rs:61-62` says they see the same values. `Utf8` keeps it out of the runs.
* `config/dburl.rs:18` says that values without a scheme "stay verbatim"; they are
  trimmed (`:22`), which the vault does not do. URLs with blanks at an end are
  outside the runs, and so is the authority form `sqlite:////host`.
* The file may set a name that a pin overrides (`VAULTWARDEN_ROCKET_ADDRESS`):
  it is accepted and has no effect. An empty `VAULTWARDEN_ROCKET_PORT` is not
  refused. A prefix `p/` of the remote becomes `p//`.
* `--healthcheck` resolves the port anew from the file as it is now, not as the
  boot read it.

Seen by reading, outside the models: `Reactor::start` that fails kills the vault
without a TERM (`watch.rs:84`, against `:131-139`); a descendant survives when
its leader is reaped between the wait and the signal (`run.rs:1-3`); a manifest
GET that fails beside an empty listing boots fresh; `quiesce` returns at once
when the idle flag is the one of the pass before (`reaper.rs:238-240`); without
`serve` the boot does not look at the stop flag again before it starts the vault;
`src/compose.yaml` grants 180 s to stop, which the bound of the drain alone can
use up (`config/consts.rs:17-20` says so).

## 4. What is proved

All theorems hold for every value of the constants that the modules' ASSUMEs
allow; the `MC` modules' runs evaluate those on their instances.

**`DbBackupProofs`.** The induction for types carries `Finite` besides `TypeOK`:
the bucket and the manifest are finite and generations are bounded, without
which "the newest entry" (`Latest`, a CHOOSE) has no type. From it follows

* `TypeCorrect`: `Spec => []TypeOK`. The part that matters is `Entry`: no
  generation 0 gets into a manifest, which `Manifest::parse` would refuse for good.
* `NeverDangles`: under `Unmeddled` — nobody deletes dumps behind the
  supervisor's back and no PUT that took effect is reported as failed —
  `Spec => []ManifestNeverDangles`, for any number of volumes, any `keep`, and
  crashes, wipes, failures and operators in any order. The property is not
  inductive: between two requests of a tick it depends on what the tick still
  means to do. `DangleInv` says so, one conjunct per hazard: two entries share no
  dump (`Distinct`), else a prune could delete a dump another entry needs; names
  are fresh (`Stamped`); the manifest a tick is going to write names existing
  dumps (`ManBacked`) and its own dump is there (`Uploaded`); until it is
  published that dump is in no manifest, so that the cleanup may delete it
  (`Unpublished`); and what is left to prune is in none either
  (`EvictedUnnamed`). `TickServes` excludes a boot beside a tick. The assumption
  is needed: section 3 gives the instance without it.

**`ProcessProofs`.** For any pids, threads and numbers of spawns and orphans:

* `TypeCorrect`: `Spec => []TypeOK`.
* `RegistrationProvesLiveness`: a registered pid is held by the child it was
  registered for, running or not yet reaped.
* `SpawnIsAtomic`: no child is reaped between its fork and its registration.
* `SignalsAreContained`: a SIGKILL only reaches a supervised child.
* `VerdictsStayTrue`: a status in a handle's slot is how *its* child ended
  (`VerdictsAreTrue`), although the status was taken from a pid and delivered
  after the lock was released.
* `RunsCleanUp`: a bounded run that has returned left its child dead or killed
  (`NoRunLeavesItsChild`).

The middle three rest on one invariant, `LockInv`: whoever is in the middle of a
spawn holds the registry lock (`SpawnHasLock`), and the two facts about table and
registry are kept by every step because only the holder of the lock reaps or
registers. Neither of the two is inductive without the lock. The last two rest on
`TruthInv`, which follows a status on its way: a child is one process at most
and none before its fork (`Numbered`, `Single`), a zombie and the reaper's hand
show how the child ended (`Witnessed`), and a run that is about to report success
has read it (`Decided`).

**`SupervisorProofs`.** For any set of configurations, any number of stops, any
budgets and request times:

* `TypeCorrect`: `Spec => []Typed`, which is `TypeOK` and that the reactor is at
  a task when it runs one.
* `FinalFlushRunsAlone`: `FlushesAlone`. `ChildInv` says that a child is started
  once (`OneLife`), that the teardown leaves a phase only when what it waited for
  is gone or has its SIGKILL (`Swept`), and that the flush waits for a command
  which only the drain sends (`Commanded`).
* `FirstStopIsPatient`: `FirstStopNeverForces`. Every raised flag and every
  consumed one is a signal of its own (`Counted`); to force a drain takes two.
* `FinalFlushIsWhole`: `FlushIsWhole`. `FlushInv` says that the budget is counted
  from where the flush begins, and that each task behind the one at hand is
  finished, or was cut or skipped when the deadline had passed (`Settled`); neither
  the clock nor the hurry ever goes back.
* `ExitCodeIsHonest`: `ExitIsHonest`, from `Decided`: how the code came about is
  settled once the teardown begins.

**`StateSyncProofs`.** For any files, number of writes and layouts of the bucket.
`TypeCorrect` is `Spec => []TypeOK`; `BaseInv` adds that a store holds one object
per hash (`Keyed`), that no record is younger than the last write (`Past`), and
that a pull goes by the manifest it has read (`Read`) and no push runs beside it
(`Quiet`). On it rest

* `RememberedHashesAreCurrent` (`CacheIsCurrent`) and `LossesAreRecorded`
  (`LossIsRecorded`), under every fault. For the first, a hash in a push's hand is
  still the file's as long as the file's metadata are (`Fresh`); for the second,
  a file written after its hash was taken is newer than anything a manifest names
  (`Late`), so that its upload under the old hash loses nothing that was recorded.
* `SkipsAreJustified` (`SkipsAreHeld`), unless objects are deleted from outside.
* `SizesStayTrue`: `SizesAreTrue`, unless a file is resized between its metadata and
  its hash. `SizeInv` follows what a push and the manifest know of sizes;
  together with the next two, which except files of the other kind, it says that
  without such a write they hold of all files.
* `ManifestStaysHeld` (`ManifestHeld`) under `Named`: nothing is deleted from
  outside, no write falls between the hash and the upload, and where a manifest
  can be unreadable none of its entries is path-keyed.
* `AckedStaysRestorable` (`AckedIsRestorable`) under `Orderly`: no such deletion
  or write, and no manifest that cannot be read. `AckInv` is the argument: what a
  pull would bring of a file (`Baseline`) is never older than what was reported
  (`Covered`), the volume's file is never older than that (`Ahead`), and neither is
  what a push is about to publish (`Publishing`). Failed and interrupted
  pushes and pulls, crashes and lost volumes are all allowed.

TLC refutes each property when one of its hypotheses is dropped; the instances
are in section 3 (`race`, `resize`, `get` with `inherited`) or follow from the property
alone (`lose`: what nobody can hold is not held).

**`S3ClientProofs`.** For any finite set of keys, any contents, sizes of part and
page, numbers of attempts and of faults:

* `ClientKeepsItsPromise`: `Spec => CallsKeepThePromise`, the refinement. Each
  attempt maps to the one step of `S3Promise` at which the request takes effect,
  or to a stutter. `Placed` says what a call may be at; `Assembled` that the
  parts sent so far are under one upload, in order, each a chunk that the file had at
  that place since the call began (`Fits`), so that a completion stores all of them
  and nothing else - the content itself, where nobody writes the file; `Sourced` that
  what is read of the file is one of those contents; `Fetched` that a partial file
  is the beginning of the object as long as nobody replaces it.
* `NoUploadStaysOpen`: `UploadsAreClosed`, with the three exceptions the
  property names.
* `ReadsStayTrue`: `ReadsAreTrue`, a text that is cut short included: it is the
  beginning of one that was there. `Seen` keeps the history honest. `Gathered` is
  the invariant of a listing from a sound endpoint over several pages while others
  write: up to the token it has every key held throughout, once, and nothing that never was. That
  one page carries this to the next token (`PageReaches`) and that the final sort
  neither loses nor repeats a name (`SortedSorts`: the places of a stable sort
  are a bijection) are lemmas of their own.

**`LineageProofs`.** On top of `NeverDangles`, for any volumes, `keep`,
generations, commits and number of faults:

* `NeverPublishesEmpty` (`NoEmptyBackup`), `RestoresTheNewest`
  (`RestoreNeverDowngrades`) and `NothingIsPassedOver` (`NeverFreshOverBackups`),
  under **every** fault; the last excepts a boot whose settings build no client, which
  sees no bucket at all. `RestoreInv`: each entry of the manifest is still among
  the candidates or was found damaged, and what was imported is not empty.
* `LineageProves` (`LineageIsProof`), unless somebody empties the bucket.
* `SkipsAreSafe` (`SkipOnlyWhenBackedUp`), if nobody deletes dumps either.
* `BackupKeepsItsPromise`: `Spec => PublishedNeverShrinks`, the refinement of
  `BackupPromise`. Under `Orderly`: the bucket is not meddled with (`Unmeddled`,
  no `clear`, no `garble`), no restore is asked for over a database that is not
  empty (which vouches for it), and `MaxCommits` covers the dumps a bucket of the
  older layout begins with, a demand on the instance and not on the code.

The invariant, `ProofInv`, is what a lineage file means at every point of a tick
and of a boot. `Numbered`: generations are unique and no sidecar is ahead of the
newest; `Named`: dumps have names no sidecar holds beforehand; `Claimed`: a
sidecar that equals the newest generation (or, before there is a manifest, names
a dump) belongs to a volume with all of its commits; `Importing` and `Ticking`
carry that through the steps between an import and its record, a dump and its
publication. None is inductive without the others. `PushInv` adds that the dump
in hand has every commit of the backup it will replace (`Carried`). The hypotheses
are needed: section 3 has the instances for `landed`, `clear`, `lose` and a
restore over a database (`any`); with `garble` there is for a while no backup to
be compared with.

**`GateProofs`.** For any finite set of connections, any number of slots and any
timeouts and time to live above zero:

* `TypeCorrect`: `Spec => []TypeOK`; no permit is given back twice.
* `SlotsReturn`: `Spec => []SlotsAreGivenBack`. The permits taken are exactly the
  handlers there are, and no handler is older than a read and a probe.
* `ProbesKeepTheirDistance`: `Spec => ProbesAreSpaced`.
* `VerdictsStayRecent`: `Spec => VerdictsAreRecent`.

The invariant `IInv` has five parts besides the types. `Slots` counts handlers
against permits, which takes the cardinality of a set that gains or loses one
element. `Locked` says that who probes holds the mutex and nobody else probes.
`Waits` is the argument for the bound: a handler that waits for the mutex is
within its read timeout, *plus* the time the present probe has taken, for it can
only wait while a probe runs, and when that ends the verdict is fresh, so that it
asks the cache and never begins a second wait; it needs that a verdict just
stored is a cache hit, which is where the time to live must not be zero. `Spaced`
ties the age of the verdict to the time since a probe began, and `Recent` what a
probe has seen to how long ago the vault could do it; the two properties of steps
follow from them at the steps that begin a probe and that answer.

* `HealthcheckStaysHonest`: `Spec => []HealthcheckIsHonest`, under `Measured`: a
  cached verdict outlives a slice of sleep, the health check's budget is longer
  than a probe, and one more connection fits than there are slots. The code's
  constants are of this kind (`gate/liveness.rs`: 2 s and 2 s, the check's 6 s).
  Each is needed: TLC violates the property with a time to live of 1, with a
  budget that equals the probe's, and with as many slots as connections, where others
  may hold every connection and the health check has none to open - a bound of the
  model, and not of the code. `HealthInv` is the argument: without an excuse a
  first attempt that timed out left a probe under way or a yes in the cache
  (`Attempts`), and the second finds it there and is answered at once.

**`ConfigProofs`.** For any environments, files, edits and values:

* `ChildStaysConfined` (`ChildIsConfined`) and `EveryLineIsUsed`
  (`NothingIsIgnored`), without hypothesis. `BootInv`: what the boot resolved is
  the resolution of the lines it read and in range (`Resolved`), and the vault runs
  in the environment it would be granted now (`Started`).
* `DatabasesAgree` (`SameDatabase`) under `PlainUrls`: every database URL is
  UTF-8, has no blank at an end and names no authority (`sqlite:////host`). Section
  3 tells why these are left out: there supervisor and vault do differ. The heart
  is `UriAgree`: the supervisor's parser, which cuts and then decodes, and
  SQLite's, which decodes as it goes, take the same path from a URL of **any**
  length. The induction this needs is made
  by least counterexample (`LeastNumber`), with a set in the place of the operator
  the library's theorems of induction are parameterised by.

**Model-checked only:** liveness (`BackupProgress`, `EventuallySynced`,
`EveryStopEnds`, `OutageEndsContainer`, `ExitsAreDelivered`, `ZombiesAreReaped`,
`EveryCallEnds`): fairness and ENABLED are outside what the provers handle. Every
safety invariant, every action property and both refinements that the passing
runs check are proved. No RECURSIVE operator is used.

## 5. Plan

Done (sections 2 to 4): `DbBackup`, `StateSync`, `Supervisor`, `Process`, `Gate`,
`S3Client`, `Config`.

What is left:

1. `SqliteFiles`: database, `-wal` and `-shm` around the import, shown to
   implement `DbBackup`'s `Import` or to need recovery where it does not.
2. `Process`: the idle flag and `quiesce`, process groups.
3. `StateSync`: which paths are durable, equal last-modified stamps.
4. `Config`: substitution inside dotenv values, the remaining knobs,
   tailscale's environment.

Proofs worth having next: that `SqliteFiles` implements the import or where it
does not; that a signal reaches no process outside the child's group; and weaker
hypotheses for `ManifestStaysHeld` and `AckedStaysRestorable`, which exclude for
all files what harms only the file it strikes.

## 6. Running it

    tlc -config DbBackup_faults.cfg MCDbBackup     (and likewise the other runs)
    tlapm DbBackupProofs.tla        (and likewise LineageProofs, StateSyncProofs,
                                     SupervisorProofs, ProcessProofs, GateProofs,
                                     S3ClientProofs, ConfigProofs)

`PROJECT.json` lists the runs with the module of each, the lines each definition
stands for, a mutant of the code for every property (a plausible slip, under
which TLC finds the property violated), the hazards of the code with the
properties that watch them, and the findings.
