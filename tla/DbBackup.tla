------------------------------ MODULE DbBackup ------------------------------
(***************************************************************************)
(* The database backup of the supervisor: the periodic cycle of            *)
(* runtime/backup/dump.rs, the boot-time adoption and restore of           *)
(* runtime/backup/restore.rs, and what both of them leave on the data      *)
(* volume (database, lineage sidecar, retained dump) and in the bucket     *)
(* (dump objects, manifest).                                               *)
(*                                                                         *)
(* One container runs at a time, on one of several data volumes; between   *)
(* two boots the operator may mount another one.  A database is the set of *)
(* the commits it holds, and it is empty when it holds none.  A dump       *)
(* object's name is the integer its timestamp stands for, so name order is *)
(* integer order; a clock that steps back makes a name smaller than an     *)
(* older one.  A step that only logs and returns (a failed emptiness       *)
(* check, an unreadable bucket at the start of a tick) changes no state    *)
(* and is a stuttering step here.                                          *)
(*                                                                         *)
(* What may go wrong is chosen by Faults and happens at most MaxFaults     *)
(* times:                                                                  *)
(*   "put"      a PUT fails after its retries and did not take effect      *)
(*   "landed"   a PUT is reported as failed although it took effect        *)
(*   "delete"   a DELETE fails                                             *)
(*   "get"      the manifest or a dump cannot be fetched at boot           *)
(*   "local"    a local file operation fails                               *)
(*   "crash"    the container dies, or a drain deadline cuts the tick off  *)
(*   "clock"    the wall clock steps back before a dump is named           *)
(*   "wipe"     a volume loses everything on it                            *)
(*   "corrupt"  a dump object is damaged (same size, not a database)       *)
(*   "lose"     a dump object is deleted by somebody else                  *)
(*   "garble"   the manifest object becomes unparsable                     *)
(*   "sidecar"  the lineage sidecar cannot be written                      *)
(*   "clear"    the operator empties the bucket between two boots          *)
(*   "settings" a boot's S3 settings pass the configuration's checks and   *)
(*              build no client                                            *)
(***************************************************************************)
EXTENDS Integers, FiniteSets

CONSTANTS
  Volumes,      \* data volumes an instance may be booted on
  Keep,         \* SUPERVISOR_DB_BACKUP_KEEP
  MaxGen,       \* the last generation a manifest can name (u64::MAX)
  MaxCommits,   \* bound: commits the vaults make in total
  RestoreBoots, \* how SUPERVISOR_DB_BACKUP_RESTORE is set: "off", "empty" (only
                \* where the volume is empty), "any" (whatever the volume holds)
  LegacyDumps,  \* bound: dumps a pre-manifest bucket may hold at the start
  Faults,       \* the kinds of fault that may happen
  MaxFaults     \* bound: how many of them

FaultKinds == {"put", "landed", "delete", "get", "local", "crash", "clock",
               "wipe", "corrupt", "lose", "garble", "sidecar", "clear", "settings"}

ASSUME BackupAssumption ==
  /\ Volumes # {}
  /\ Keep \in Nat \ {0}
  /\ MaxGen \in Nat
  /\ MaxCommits \in Nat
  /\ RestoreBoots \subseteq {"off", "empty", "any"} /\ RestoreBoots # {}
  /\ LegacyDumps \in Nat
  /\ Faults \subseteq FaultKinds
  /\ MaxFaults \in Nat

VARIABLES
  objects,   \* bucket: dump name -> [data, good]
  manifest,  \* bucket: [state |-> absent | ok | garbled, entries]
  stamps,    \* dump names handed out so far
  db,        \* volume -> commits in its live database
  lineage,   \* volume -> what the db-backups.state sidecar records
  last,      \* volume -> the dump retained as db-backups.last
  mode,      \* where the instance is in its boot
  vol,       \* the mounted volume
  restore,   \* SUPERVISOR_DB_BACKUP_RESTORE of this boot
  usable,    \* this boot's S3 settings build a client
  cands,     \* restore candidates not tried yet
  job,       \* the tick in progress
  commits,   \* commits made so far
  faults,    \* faults so far
  vouched    \* volumes whose sidecar stands for the operator's word alone

bucket == <<objects, manifest, stamps>>
disk   == <<db, lineage, last>>
boot   == <<mode, vol, restore, usable, cands>>
aux    == <<commits, faults, vouched>>
vars   == <<bucket, disk, boot, job, aux>>

-----------------------------------------------------------------------------
(* Manifest entries: [gen, name].  A manifest is the set of its entries.   *)

NoLineage     == [kind |-> "none", n |-> 0]
Generation(g) == [kind |-> "gen",  n |-> g]
LegacyName(n) == [kind |-> "name", n |-> n]

NoDump == [kind |-> "none", data |-> {}]
Dump(d) == [kind |-> "dump", data |-> d]

Names(E) == {e.name : e \in E}

(* Manifest::latest: 0 for an empty manifest.                              *)
Latest(E) ==
  IF E = {} THEN 0
  ELSE CHOOSE g \in {e.gen : e \in E} : \A e \in E : e.gen <= g

Newest(E) == {e \in E : e.gen = Latest(E)}

(* Mutant: positions counted from zero, the generation the parser refuses. *)
FromListingAtZero(names) ==
  {[gen |-> Cardinality({m \in names : m < n}), name |-> n] : n \in names}

(* Manifest::from_listing over tools::list_objects: the names in order,    *)
(* each with its position as generation.                                   *)
FromListing(names) ==
  {[gen |-> Cardinality({m \in names : m <= n}), name |-> n] : n \in names}

(* Manifest::retain: the newest Keep entries.                              *)
Retained(E) == {e \in E : Cardinality({f \in E : f.gen > e.gen}) < Keep}

(* What a tick takes the bucket to hold: the manifest, or the listing      *)
(* while there is none.                                                    *)
Effective ==
  IF manifest.state = "ok" THEN manifest.entries ELSE FromListing(DOMAIN objects)

(* dump.rs resolve_known: 0 stands for None, which no guard distinguishes  *)
(* from a generation below the first.                                      *)
ResolveKnown(known, E) ==
  CASE known.kind = "gen"  -> known.n
    [] known.kind = "name" /\ known.n \in Names(E) ->
         (CHOOSE e \in E : e.name = known.n).gen
    [] OTHER -> 0

(* Mutant: any recorded lineage will do.                                   *)
ProceedsOnAnyLineage(known, latest) == latest = 0 \/ known > 0

(* lineage::verdict.                                                       *)
Proceeds(known, latest) == latest = 0 \/ known >= latest

(* Mutant: the lineage alone decides, not the bytes.                       *)
RedundantByLineage(known, latest, dump, retained) == latest > 0 /\ known = latest

(* dump.rs upload_is_redundant with unchanged::is_repeat.                  *)
UploadIsRedundant(known, latest, dump, retained) ==
  latest > 0 /\ known = latest /\ retained = Dump(dump)

Idle == [pc |-> "idle", man |-> {}, known |-> 0, gen |-> 0, name |-> 0,
         data |-> {}, evicted |-> {}]

Stored(n, d) ==
  [m \in DOMAIN objects \cup {n} |->
     IF m = n THEN [data |-> d, good |-> TRUE] ELSE objects[m]]

Without(n) == [m \in DOMAIN objects \ {n} |-> objects[m]]

Published(E) == [state |-> "ok", entries |-> E]

Fault(kind) ==
  /\ kind \in Faults
  /\ faults < MaxFaults
  /\ faults' = faults + 1

(* lineage::write and write_name: best effort.  The write truncates first, *)
(* so a failure may also leave an empty sidecar, which reads as none.      *)
WriteLineage(known) ==
  \/ /\ lineage' = [lineage EXCEPT ![vol] = known]
     /\ UNCHANGED faults
  \/ /\ Fault("sidecar")
     /\ \/ UNCHANGED lineage
        \/ lineage' = [lineage EXCEPT ![vol] = NoLineage]

-----------------------------------------------------------------------------
(* Boot.                                                                   *)

(* The orchestrator starts the container, on any volume.  The settings it  *)
(* is given are the boot's own: whether Client::connect accepts their      *)
(* endpoint and bucket is the same at every call until the next boot.      *)
Boot ==
  /\ mode = "down"
  /\ \E v \in Volumes, flag \in RestoreBoots :
       /\ flag = "empty" => db[v] = {}
       /\ vol' = v
       /\ restore' = (flag # "off")
  /\ \/ usable' = TRUE /\ UNCHANGED faults
     \/ usable' = FALSE /\ Fault("settings")
  /\ mode' = "adopt"
  /\ UNCHANGED <<bucket, disk, cands, job, commits, vouched>>

(* restore.rs adopt_lineage: never fatal.                                  *)
AdoptLineage ==
  /\ mode = "adopt"
  /\ mode' = "restore"
  /\ IF restore /\ usable /\ db[vol] # {} /\ manifest.state # "garbled" /\ Effective # {}
     THEN LET newest == CHOOSE e \in Newest(Effective) : TRUE
              listing == manifest.state = "absent" \/ manifest.entries = {}
          IN /\ WriteLineage(IF listing THEN LegacyName(newest.name)
                                        ELSE Generation(newest.gen))
             /\ vouched' = vouched \cup {vol}
     ELSE UNCHANGED <<lineage, faults, vouched>>
  /\ UNCHANGED <<bucket, db, last, vol, restore, usable, cands, job, commits>>

(* adopt_lineage when the bucket cannot be read: nothing is recorded.      *)
AdoptFails ==
  /\ mode = "adopt" /\ usable
  /\ Fault("get")
  /\ mode' = "restore"
  /\ UNCHANGED <<bucket, disk, vol, restore, usable, cands, job, commits, vouched>>

(* restore_if_empty up to its candidate list.  candidates() takes the      *)
(* manifest's entries, or the listing when there is none or it cannot be   *)
(* read.                                                                   *)
Candidates(readable) ==
  IF readable /\ manifest.state = "ok"
  THEN {[gen |-> e.gen, name |-> e.name, listed |-> FALSE] : e \in manifest.entries}
  ELSE {[gen |-> e.gen, name |-> e.name, listed |-> TRUE] :
          e \in FromListing(DOMAIN objects)}

(* Settings no client can be built from let the boot go on as it is, with  *)
(* an empty database too.                                                  *)
RestoreDb ==
  /\ mode = "restore"
  /\ IF ~restore \/ db[vol] # {} \/ ~usable
     THEN mode' = "serving" /\ UNCHANGED <<cands, faults>>
     ELSE \E readable \in BOOLEAN :
            /\ IF readable THEN UNCHANGED faults ELSE Fault("get")
            /\ cands' = Candidates(readable)
            /\ mode' = IF cands' = {} THEN "serving" ELSE "import"
  /\ UNCHANGED <<bucket, disk, vol, restore, usable, job, commits, vouched>>

(* An undecidable database, or an empty one against a bucket that cannot   *)
(* be listed: the boot refuses.                                            *)
RestoreRefused ==
  /\ mode = "restore" /\ restore
  /\ Fault("local") \/ (db[vol] = {} /\ usable /\ Fault("get"))
  /\ mode' = "down"
  /\ UNCHANGED <<bucket, disk, vol, restore, usable, cands, job, commits, vouched>>

(* The newest candidate, which restore_object tries next.                  *)
Candidate == CHOOSE c \in cands : \A d \in cands : d.gen <= c.gen

(* restore_object downloads a good dump and links it into place; recording *)
(* its lineage is the next step.                                           *)
Import ==
  /\ mode = "import" /\ cands # {}
  /\ Candidate.name \in DOMAIN objects
  /\ objects[Candidate.name].good
  /\ db[vol] = {}
  /\ db' = [db EXCEPT ![vol] = objects[Candidate.name].data]
  /\ mode' = "record"
  /\ UNCHANGED <<bucket, lineage, last, vol, restore, usable, cands, job, aux>>

(* Mutant: a dump that is not there is passed over like a damaged one.     *)
ImportInvalidOrMissing ==
  /\ mode = "import" /\ cands # {}
  /\ Candidate.name \in DOMAIN objects => ~objects[Candidate.name].good
  /\ cands' = cands \ {Candidate}
  /\ UNCHANGED <<bucket, disk, mode, vol, restore, usable, job, aux>>

(* A dump that fails its integrity check: the next older candidate.        *)
ImportInvalid ==
  /\ mode = "import" /\ cands # {}
  /\ Candidate.name \in DOMAIN objects
  /\ ~objects[Candidate.name].good
  /\ cands' = cands \ {Candidate}
  /\ UNCHANGED <<bucket, disk, mode, vol, restore, usable, job, aux>>

(* Mutant: when every candidate failed, the boot goes on with an empty     *)
(* database.                                                               *)
ImportGivesUp ==
  /\ mode = "import"
  /\ \/ cands = {} /\ UNCHANGED faults
     \/ cands # {} /\ Candidate.name \notin DOMAIN objects /\ UNCHANGED faults
     \/ Fault("get")
     \/ Fault("local")
  /\ mode' = IF cands = {} THEN "serving" ELSE "down"
  /\ cands' = {}
  /\ UNCHANGED <<bucket, disk, vol, restore, usable, job, commits, vouched>>

(* A download or a local failure, or no candidate left: the boot refuses.  *)
ImportRefused ==
  /\ mode = "import"
  /\ \/ cands = {} /\ UNCHANGED faults
     \/ cands # {} /\ Candidate.name \notin DOMAIN objects /\ UNCHANGED faults
     \/ Fault("get")
     \/ Fault("local")
  /\ mode' = "down"
  /\ cands' = {}
  /\ UNCHANGED <<bucket, disk, vol, restore, usable, job, commits, vouched>>

(* Mutant: an import of an older dump claims the newest generation.        *)
RecordImportAsLatest ==
  /\ mode = "record"
  /\ WriteLineage(Generation(Latest(manifest.entries)))
  /\ vouched' = vouched \ {vol}
  /\ mode' = "serving"
  /\ cands' = {}
  /\ UNCHANGED <<bucket, db, last, vol, restore, usable, job, commits>>

(* The lineage of the imported dump; then the boot goes on to the vault.   *)
RecordImport ==
  /\ mode = "record"
  /\ WriteLineage(IF Candidate.listed THEN LegacyName(Candidate.name)
                                      ELSE Generation(Candidate.gen))
  /\ vouched' = vouched \ {vol}
  /\ mode' = "serving"
  /\ cands' = {}
  /\ UNCHANGED <<bucket, db, last, vol, restore, usable, job, commits>>

-----------------------------------------------------------------------------
(* The tick (dump.rs tick), cut where it performs an S3 or a file          *)
(* operation that another step can fall behind.                            *)

(* Mutant: the emptiness guard is dropped.                                 *)
TickGuardsWithoutEmptiness ==
  /\ mode = "serving" /\ job.pc = "idle" /\ usable
  /\ manifest.state # "garbled"
  /\ LET latest == Latest(Effective)
     IN /\ Proceeds(ResolveKnown(lineage[vol], Effective), latest)
        /\ latest < MaxGen
        /\ job' = [Idle EXCEPT !.pc = "dump", !.man = Effective,
                               !.known = ResolveKnown(lineage[vol], Effective),
                               !.gen = latest + 1]
  /\ UNCHANGED <<bucket, disk, boot, aux>>

(* The guards: settings that build a client, database not empty, bucket    *)
(* readable, lineage owns the newest generation, generation space left.    *)
TickGuards ==
  /\ mode = "serving" /\ job.pc = "idle" /\ usable
  /\ db[vol] # {}
  /\ manifest.state # "garbled"
  /\ LET latest == Latest(Effective)
         known  == ResolveKnown(lineage[vol], Effective)
     IN /\ Proceeds(known, latest)
        /\ latest < MaxGen
        /\ job' = [Idle EXCEPT !.pc = "dump", !.man = Effective,
                               !.known = known, !.gen = latest + 1]
  /\ UNCHANGED <<bucket, disk, boot, aux>>

(* Sweep staging, VACUUM INTO, restrict; skip the upload when redundant.   *)
TickDump ==
  /\ job.pc = "dump"
  /\ job' = IF UploadIsRedundant(job.known, Latest(job.man), db[vol], last[vol])
            THEN Idle
            ELSE [job EXCEPT !.pc = "put", !.data = db[vol]]
  /\ UNCHANGED <<bucket, disk, boot, aux>>

TickDumpFails ==
  /\ job.pc = "dump"
  /\ Fault("local")
  /\ job' = Idle
  /\ UNCHANGED <<bucket, disk, boot, commits, vouched>>

(* timestamp(): names sort by time and never collide, and the n-th name is *)
(* n, or -n when the clock stepped back behind every dump there is.        *)
Stamp(name) ==
  /\ stamps' = stamps + 1
  /\ \/ name = stamps + 1 /\ UNCHANGED faults
     \/ name = -(stamps + 1) /\ Fault("clock")

(* Mutant: room is made in the bucket before the manifest is published.    *)
TickPutPrunesFirst ==
  /\ job.pc = "put"
  /\ \E name \in {stamps + 1, -(stamps + 1)} :
       LET kept == Names(Retained(job.man \cup {[gen |-> job.gen, name |-> name]}))
       IN /\ Stamp(name)
          /\ objects' = [m \in (DOMAIN objects \ Names(job.man)) \cup kept |->
                           Stored(name, job.data)[m]]
          /\ job' = [job EXCEPT !.pc = "publish", !.name = name]
  /\ UNCHANGED <<manifest, disk, boot, commits, vouched>>

(* The dump object is PUT under its fresh name, before any manifest names  *)
(* it.                                                                     *)
TickPut ==
  /\ job.pc = "put"
  /\ \E name \in {stamps + 1, -(stamps + 1)} :
       /\ Stamp(name)
       /\ objects' = Stored(name, job.data)
       /\ job' = [job EXCEPT !.pc = "publish", !.name = name]
  /\ UNCHANGED <<manifest, disk, boot, commits, vouched>>

(* The push failed: the tick ends.                                         *)
TickPutFails ==
  /\ job.pc = "put"
  /\ stamps' = stamps + 1
  /\ \/ Fault("put") /\ UNCHANGED objects
     \/ Fault("landed") /\ objects' = Stored(stamps + 1, job.data)
  /\ job' = Idle
  /\ UNCHANGED <<manifest, disk, boot, commits, vouched>>

(* The manifest with the new entry, and what it evicts.                    *)
Pushed == job.man \cup {[gen |-> job.gen, name |-> job.name]}

TickPublish ==
  /\ job.pc = "publish"
  /\ manifest' = Published(Retained(Pushed))
  /\ job' = [job EXCEPT !.pc = "record", !.evicted = Pushed \ Retained(Pushed)]
  /\ UNCHANGED <<objects, stamps, disk, boot, aux>>

(* store_manifest failed, or is believed to have.                          *)
TickPublishFails ==
  /\ job.pc = "publish"
  /\ \/ Fault("put") /\ UNCHANGED manifest
     \/ Fault("landed") /\ manifest' = Published(Retained(Pushed))
  /\ job' = [job EXCEPT !.pc = "cleanup"]
  /\ UNCHANGED <<objects, stamps, disk, boot, commits, vouched>>

(* The pushed dump is unreferenced as far as the tick knows: delete it.    *)
TickCleanup ==
  /\ job.pc = "cleanup"
  /\ \/ objects' = Without(job.name) /\ UNCHANGED faults
     \/ Fault("delete") /\ UNCHANGED objects
  /\ job' = Idle
  /\ UNCHANGED <<manifest, stamps, disk, boot, commits, vouched>>

TickRecord ==
  /\ job.pc = "record"
  /\ WriteLineage(Generation(job.gen))
  /\ vouched' = vouched \ {vol}
  /\ job' = [job EXCEPT !.pc = "retain"]
  /\ UNCHANGED <<bucket, db, last, boot, commits>>

(* unchanged::retain renames the staged dump; best effort.                 *)
TickRetain ==
  /\ job.pc = "retain"
  /\ \/ last' = [last EXCEPT ![vol] = Dump(job.data)] /\ UNCHANGED faults
     \/ Fault("local") /\ UNCHANGED last
  /\ job' = [job EXCEPT !.pc = "prune"]
  /\ UNCHANGED <<bucket, db, lineage, boot, commits, vouched>>

(* prune: the evicted objects, one DELETE each; a failure is only logged.  *)
TickPrune ==
  /\ job.pc = "prune"
  /\ IF job.evicted = {}
     THEN job' = Idle /\ UNCHANGED <<objects, faults>>
     ELSE \E e \in job.evicted :
            /\ job' = [job EXCEPT !.evicted = @ \ {e}]
            /\ \/ objects' = Without(e.name) /\ UNCHANGED faults
               \/ Fault("delete") /\ UNCHANGED objects
  /\ UNCHANGED <<manifest, stamps, disk, boot, commits, vouched>>

-----------------------------------------------------------------------------
(* The vault, the container's end, and the world outside.                  *)

(* vaultwarden commits to its database while a tick may be under way.      *)
Commit ==
  /\ mode = "serving"
  /\ commits < MaxCommits
  /\ commits' = commits + 1
  /\ db' = [db EXCEPT ![vol] = @ \cup {commits + 1}]
  /\ UNCHANGED <<bucket, lineage, last, boot, job, faults, vouched>>

(* A stop that drains: no tick is cut off.                                 *)
Stop ==
  /\ mode = "serving" /\ job.pc = "idle"
  /\ mode' = "down"
  /\ UNCHANGED <<bucket, disk, vol, restore, usable, cands, job, aux>>

(* The container dies anywhere.  A drain past its hard stop abandons the   *)
(* tick's thread and exits, and a tick whose abort fires fails every S3    *)
(* operation left to it: both leave the same bucket and volume.            *)
Crash ==
  /\ mode # "down"
  /\ Fault("crash")
  /\ mode' = "down"
  /\ cands' = {}
  /\ job' = Idle
  /\ UNCHANGED <<bucket, disk, vol, restore, usable, commits, vouched>>

(* The volume is lost with everything on it.                               *)
Wipe(v) ==
  /\ mode = "down"
  /\ Fault("wipe")
  /\ db' = [db EXCEPT ![v] = {}]
  /\ lineage' = [lineage EXCEPT ![v] = NoLineage]
  /\ last' = [last EXCEPT ![v] = NoDump]
  /\ vouched' = vouched \ {v}
  /\ UNCHANGED <<bucket, boot, job, commits>>

CorruptObject(n) ==
  /\ Fault("corrupt")
  /\ objects[n].good
  /\ objects' = [objects EXCEPT ![n].good = FALSE]
  /\ UNCHANGED <<manifest, stamps, disk, boot, job, commits, vouched>>

(* A dump that was damaged stays, so that what an import passed over can   *)
(* still be told.                                                          *)
LoseObject(n) ==
  /\ Fault("lose")
  /\ objects[n].good
  /\ objects' = Without(n)
  /\ UNCHANGED <<manifest, stamps, disk, boot, job, commits, vouched>>

GarbleManifest ==
  /\ Fault("garble")
  /\ manifest.state = "ok"
  /\ manifest' = [state |-> "garbled", entries |-> {}]
  /\ UNCHANGED <<objects, stamps, disk, boot, job, commits, vouched>>

(* The remedy the refusal and the exhaustion messages name.                *)
ClearBucket ==
  /\ mode = "down"
  /\ Fault("clear")
  /\ objects' = [n \in {} |-> {}]
  /\ manifest' = [state |-> "absent", entries |-> {}]
  /\ UNCHANGED <<stamps, disk, boot, job, commits, vouched>>

-----------------------------------------------------------------------------
(* A fresh bucket and fresh volumes, or a pre-manifest deployment: k named *)
(* dumps of one growing database, on the volume whose sidecar names the    *)
(* newest of them.                                                         *)
Init ==
  \E k \in 0..LegacyDumps, v0 \in Volumes :
    /\ objects = [n \in 1..k |-> [data |-> 1..n, good |-> TRUE]]
    /\ manifest = [state |-> "absent", entries |-> {}]
    /\ stamps = k
    /\ db = [v \in Volumes |-> IF v = v0 THEN 1..k ELSE {}]
    /\ lineage = [v \in Volumes |-> IF v = v0 /\ k > 0 THEN LegacyName(k) ELSE NoLineage]
    /\ last = [v \in Volumes |-> NoDump]
    /\ mode = "down" /\ vol = v0 /\ restore = FALSE /\ usable = TRUE /\ cands = {}
    /\ job = Idle
    /\ commits = k /\ faults = 0 /\ vouched = {}

BootStep == AdoptLineage \/ AdoptFails \/ RestoreDb \/ RestoreRefused \/ Import \/ ImportInvalid
              \/ ImportRefused \/ RecordImport

TickStep == TickGuards \/ TickDump \/ TickDumpFails \/ TickPut \/ TickPutFails
              \/ TickPublish \/ TickPublishFails \/ TickCleanup \/ TickRecord
              \/ TickRetain \/ TickPrune

World == Commit \/ Boot \/ Stop \/ Crash \/ (\E v \in Volumes : Wipe(v))
           \/ (\E n \in DOMAIN objects : CorruptObject(n) \/ LoseObject(n))
           \/ GarbleManifest \/ ClearBucket

Next == BootStep \/ TickStep \/ World

Spec == Init /\ [][Next]_vars

(* The reactor calls tick on its cadence for as long as the vault serves,  *)
(* and a boot that began runs on.                                          *)
Fairness == WF_vars(TickStep) /\ WF_vars(BootStep) /\ WF_vars(Boot)

FairSpec == Spec /\ Fairness

-----------------------------------------------------------------------------
Entry == [gen : Nat \ {0}, name : Int]

BucketOK ==
  /\ \A n \in DOMAIN objects :
       n \in Int /\ objects[n] \in [data : SUBSET Nat, good : BOOLEAN]
  /\ manifest \in [state : {"absent", "ok", "garbled"}, entries : SUBSET Entry]
  /\ stamps \in Nat

DiskOK ==
  /\ db \in [Volumes -> SUBSET Nat]
  /\ lineage \in [Volumes -> [kind : {"none", "gen", "name"}, n : Int]]
  /\ last \in [Volumes -> [kind : {"none", "dump"}, data : SUBSET Nat]]

BootOK ==
  /\ mode \in {"down", "adopt", "restore", "import", "record", "serving"}
  /\ vol \in Volumes
  /\ restore \in BOOLEAN
  /\ usable \in BOOLEAN
  /\ cands \in SUBSET [gen : Nat \ {0}, name : Int, listed : BOOLEAN]

JobOK ==
  job \in [pc : {"idle", "dump", "put", "publish", "record", "retain", "prune",
                "cleanup"},
          man : SUBSET Entry, known : Int, gen : Nat, name : Int,
          data : SUBSET Nat, evicted : SUBSET Entry]

AuxOK == commits \in Nat /\ faults \in Nat /\ vouched \in SUBSET Volumes

TypeOK == BucketOK /\ DiskOK /\ BootOK /\ JobOK /\ AuxOK

-----------------------------------------------------------------------------
(* Properties.                                                             *)

(* The newest backup as the bucket shows it to a tick, without the dump a  *)
(* tick in progress has just uploaded.                                     *)
Shown ==
  IF manifest.state = "ok" THEN manifest.entries
  ELSE FromListing(DOMAIN objects \ {job.name})

(* Every commit of the newest backup in E is in d.                         *)
Covers(d, E) ==
  \A e \in Newest(E) : e.name \in DOMAIN objects => objects[e.name].data \subseteq d

(* The manifest never names an object that is not there: not while a tick  *)
(* is under way, not after a crash between any two of its requests, not    *)
(* after a prune (dump.rs:19-22, prune.rs:1-4).                            *)
ManifestNeverDangles == Names(manifest.entries) \subseteq DOMAIN objects

(* The shadow guard lets a volume push only when its database holds every  *)
(* commit of the newest backup, whichever volumes were booted, crashed,    *)
(* wiped and restored before - unless the operator vouched for the volume  *)
(* by booting it with the restore flag (lineage.rs:1-9).                   *)
LineageIsProof ==
  \A v \in Volumes \ vouched :
    (/\ Shown # {}
     /\ manifest.state # "garbled"
     /\ Proceeds(ResolveKnown(lineage[v], Shown), Latest(Shown)))
    => Covers(db[v], Shown)

(* An empty database is never published as a backup, so a wiped volume     *)
(* cannot poison the bucket (dump.rs:24-26).                               *)
NoEmptyBackup ==
  \A e \in manifest.entries :
    e.name \in DOMAIN objects => objects[e.name].data # {}

(* A tick that will skip its upload as redundant does so only when the     *)
(* newest backup is there and holds exactly what the database holds        *)
(* (unchanged.rs:1-11), on a volume whose lineage is its own.              *)
Skips == job.pc = "dump" /\ UploadIsRedundant(job.known, Latest(job.man), db[vol], last[vol])

SkipOnlyWhenBackedUp ==
  Skips /\ vol \notin vouched =>
    \A e \in Newest(job.man) :
      e.name \in DOMAIN objects /\ objects[e.name].data = db[vol]

(* The same of every volume, as unchanged.rs:1-2 and 7-11 say it.          *)
SkipMeansIdentical ==
  Skips => \A e \in Newest(job.man) :
             e.name \in DOMAIN objects /\ objects[e.name].data = db[vol]

(* What an import brings back from the manifest is its newest entry, or    *)
(* the newest after entries that were fetched whole and proved damaged: no *)
(* other failure downgrades the volume (restore.rs:1-7).                   *)
Imports == mode = "import" /\ mode' = "record"

RestoreNeverDowngrades ==
  [][Imports /\ ~Candidate.listed =>
       \A e \in manifest.entries :
         e.gen > Candidate.gen => e.name \in DOMAIN objects /\ ~objects[e.name].good]_vars

(* A boot asked to restore begins to serve an empty database although the  *)
(* bucket shows a backup: no empty manifest, and dumps to list.            *)
FreshOverBackups ==
  /\ mode # "serving" /\ mode' = "serving"
  /\ restore /\ db'[vol] = {}
  /\ Effective # {} /\ DOMAIN objects # {}

(* Whatever fails while the bucket is read, the candidates are tried or an *)
(* import is placed, a boot asked to restore never begins to serve an      *)
(* empty database over backups - unless its S3 settings build no client at *)
(* all, where it boots fresh and only says so (restore.rs:44-52, 72-82).   *)
NeverFreshOverBackups == [][FreshOverBackups => ~usable]_vars

(* A boot asked to restore that cannot tell whether there is a backup      *)
(* refuses to start rather than guess (README.md:105).                     *)
RefusesToGuess == [][~FreshOverBackups]_vars

(* Once there is a manifest, only what it names is restored (manifest.rs:  *)
(* 6-9).                                                                   *)
OnlyManifestRestored ==
  [][Imports /\ manifest.state = "ok" => Candidate.name \in Names(manifest.entries)]_vars

(* A newest dump that somebody deleted makes restore fall back to the next *)
(* older entry (dump.rs:132-135).                                          *)
LostNewestFallsBack ==
  [][mode = "import" /\ mode' = "down" /\ faults' = faults =>
       \A c \in cands : c.name \in DOMAIN objects => ~objects[c.name].good]_vars

(* A tick that failed or was cut off costs one cycle: the database that    *)
(* holds everything the newest backup holds is not refused (README.md:103, *)
(* dump.rs:170-172).                                                       *)
OneCycleLost ==
  /\ mode = "serving" /\ job.pc = "idle" /\ db[vol] # {}
  /\ manifest.state # "garbled"
  /\ Covers(db[vol], Effective)
  => Proceeds(ResolveKnown(lineage[vol], Effective), Latest(Effective))

(* The commits a restore onto an empty volume would bring back.            *)
PublishedData ==
  LET found == {e \in Newest(manifest.entries) : e.name \in DOMAIN objects}
  IN UNION {objects[e.name].data : e \in found}

(* A push never publishes a backup that lacks a commit of the one before.  *)
Promise == INSTANCE BackupPromise
             WITH Commits <- 1..MaxCommits, published <- PublishedData

PublishedNeverShrinks == Promise!Spec

(* The newest backup a restore would find holds what the database holds.   *)
BackedUp ==
  \E e \in Newest(Shown) :
    e.name \in DOMAIN objects /\ objects[e.name].data = db[vol]

(* The wedge of a bucket without a manifest: a dump whose manifest could   *)
(* not be written, and which could not be deleted either, counts as the    *)
(* newest of the listing, and the shadow guard refuses every later tick of *)
(* the volume that pushed it (dump.rs:170-182).                            *)
OrphanBlocks ==
  /\ manifest.state = "absent" /\ job.pc = "idle"
  /\ ~Proceeds(ResolveKnown(lineage[vol], Effective), Latest(Effective))

(* A serving vault whose database is not empty is backed up as it is, over *)
(* failed requests, failed local files and a cleared bucket, or it stops,  *)
(* or the generation space is used up.  While the bucket has a manifest    *)
(* nothing else delays it for good; without one an orphan may.  Sidecars   *)
(* are written and ticks are not cut off: a volume that cannot prove its   *)
(* lineage is refused until the operator vouches for it (lineage.rs:8-9).  *)
BackupProgress ==
  mode = "serving" /\ usable /\ db[vol] # {} ~>
    mode # "serving" \/ BackedUp \/ Latest(Effective) >= MaxGen \/ OrphanBlocks

=============================================================================
