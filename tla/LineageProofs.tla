---------------------------- MODULE LineageProofs ----------------------------
(* The shadow guard of the database backup, for every number of volumes,    *)
(* commits, retained backups and faults: what a recorded lineage proves of  *)
(* the database next to it, what a skipped upload and a push then mean, and *)
(* that the backup implements BackupPromise.                                *)
EXTENDS DbBackupProofs

-----------------------------------------------------------------------------
(* The inductive invariant.                                                *)

(* Dump n, if it is there, holds nothing that volume v lacks, and all that *)
(* v retained of its last push; dumps go missing only if somebody deletes  *)
(* them.                                                                   *)
Backs(v, n) ==
  IF n \in DOMAIN objects
  THEN objects[n].data \subseteq db[v] /\ last[v].data \subseteq objects[n].data
  ELSE "lose" \in Faults

Owns(v, e) == lineage[v] = Generation(e.gen) \/ lineage[v] = LegacyName(e.name)

(* Names come from the counter, and no lineage has the one of the dump in  *)
(* hand.                                                                   *)
StampedName(n) == n # 0 /\ -stamps <= n /\ n <= stamps

NamedObjects == \A n \in DOMAIN objects : StampedName(n)
NamedEntries ==
  /\ \A e \in manifest.entries : StampedName(e.name)
  /\ \A e \in job.man : StampedName(e.name)
  /\ \A c \in cands : StampedName(c.name)
NamedLineages ==
  \A v \in Volumes : lineage[v].kind = "name" =>
    StampedName(lineage[v].n) /\ lineage[v].n # job.name
NamedJob ==
  /\ job.pc = "idle" => job.name = 0
  /\ job.pc = "publish" => StampedName(job.name)
Named == NamedObjects /\ NamedEntries /\ NamedLineages /\ NamedJob

(* No generation is given twice, and none beyond the newest is recorded.   *)
UniqueGens(E) == \A e, f \in E : e.gen = f.gen => e = f

Unique == UniqueGens(manifest.entries) /\ UniqueGens(job.man) /\ UniqueGens(cands)
Unreadable == manifest.state # "ok" => manifest.entries = {}
Recorded ==
  \A v \in Volumes : lineage[v].kind = "gen" =>
    /\ manifest.state # "absent"
    /\ manifest.state = "ok" => lineage[v].n <= Latest(manifest.entries)
    /\ job.pc \in {"dump", "put", "publish", "record", "cleanup"} => lineage[v].n < job.gen
NextGen ==
  job.pc \in {"dump", "put", "publish"} =>
    /\ job.gen = Latest(job.man) + 1
    /\ manifest.state = "ok" => manifest.entries = job.man
Numbered == Unique /\ Unreadable /\ Recorded /\ NextGen

(* No dump is empty, and what was retained is still in the database.       *)
FilledObjects == \A n \in DOMAIN objects : objects[n].data # {}
FilledJob ==
  /\ job.pc = "dump" => db[vol] # {}
  /\ job.pc \in {"put", "publish"} => job.data # {}
FilledDisk ==
  /\ \A v \in vouched : db[v] # {}
  /\ \A v \in Volumes : last[v].data \subseteq db[v]
  /\ manifest.state = "absent" => \A v \in Volumes : last[v].data = {}
Filled == FilledObjects /\ FilledJob /\ FilledDisk

(* The lineage of a volume proves that it holds the backup it names: any   *)
(* one before there is a manifest, the newest one afterwards.              *)
ClaimedByName ==
  manifest.state = "absent" =>
    \A v \in Volumes \ vouched : lineage[v].kind = "name" => Backs(v, lineage[v].n)
ClaimedNewest ==
  \A v \in Volumes \ vouched :
    \A e \in Newest(manifest.entries) : Owns(v, e) => Backs(v, e.name)
Claimed == ClaimedByName /\ ClaimedNewest

Importing ==
  mode \in {"import", "record"} =>
    /\ vol \notin vouched
    /\ \A c \in cands : ~c.listed =>
         \/ manifest.state = "garbled"
         \/ manifest.state = "ok" /\ [gen |-> c.gen, name |-> c.name] \in manifest.entries
    /\ mode = "record" => Backs(vol, Candidate.name)

(* What a tick holds in its hand, from its guards to its prune.            *)
Guarded ==
  job.pc = "dump" /\ vol \notin vouched => \A e \in Newest(job.man) : Backs(vol, e.name)
Dumped ==
  /\ job.pc \in {"put", "publish", "record", "retain"} =>
       last[vol].data \subseteq job.data /\ job.data \subseteq db[vol]
  /\ job.pc \in {"publish", "record", "retain"} =>
       IF job.name \in DOMAIN objects
       THEN objects[job.name].data = job.data ELSE "lose" \in Faults
Fresh ==
  /\ job.pc = "publish" =>
       job.name \notin Names(job.man) /\ job.name \notin Names(manifest.entries)
  /\ job.pc = "cleanup" => \A e \in manifest.entries : e.name = job.name => e.gen = job.gen
PushedNewest ==
  job.pc \in {"record", "retain", "prune"} =>
    /\ manifest.state # "absent"
    /\ manifest.state = "ok" => [gen |-> job.gen, name |-> job.name] \in manifest.entries
    /\ \A e \in Newest(manifest.entries) : e.gen = job.gen /\ e.name = job.name
    /\ job.name \notin Names(job.evicted)
Ticking == Guarded /\ Dumped /\ Fresh /\ PushedNewest

ProofInv == TickServes /\ Named /\ Numbered /\ Filled /\ Claimed /\ Importing /\ Ticking

-----------------------------------------------------------------------------
(* The newest entry of a set of entries.                                   *)

LEMMA NewestOf ==
  ASSUME NEW E \in SUBSET Entry, Bounded(E), UniqueGens(E), E # {}
  PROVE  \E e \in E : /\ Newest(E) = {e} /\ e.gen = Latest(E)
                      /\ Latest(E) \in Nat \ {0}
                      /\ \A f \in E : f.gen <= e.gen
<1>1. /\ Latest(E) \in Nat \ {0}
      /\ \A e \in E : e.gen <= Latest(E)
      /\ \E e \in E : e.gen = Latest(E)
  BY LatestIsGreatest DEF Entry
<1> QED
  BY <1>1 DEF Newest, UniqueGens

(* What is ahead of all others is the newest.                              *)
LEMMA NewestAhead ==
  ASSUME NEW E \in SUBSET Entry, Bounded(E), NEW e \in E, \A f \in E : f = e \/ f.gen < e.gen
  PROVE  Newest(E) = {e} /\ Latest(E) = e.gen
<1>1. /\ Latest(E) \in Nat \ {0}
      /\ \A f \in E : f.gen <= Latest(E)
      /\ \E f \in E : f.gen = Latest(E)
  BY LatestIsGreatest DEF Entry
<1>2. Latest(E) = e.gen
  BY <1>1 DEF Entry
<1> QED
  BY <1>2 DEF Newest, Entry

LEMMA ListingUnique ==
  ASSUME NEW names \in SUBSET Int, IsFiniteSet(names)
  PROVE  UniqueGens(FromListing(names))
<1> DEFINE rank(n) == Cardinality({m \in names : m <= n})
<1>1. \A n, m \in names : n < m => rank(n) < rank(m)
  <2> TAKE n, m \in names
  <2> HAVE n < m
  <2> DEFINE N == {j \in names : j <= n}
             M == {j \in names : j <= m}
  <2>1. N \in SUBSET M /\ m \in M /\ m \notin N /\ M \in SUBSET names
    <3>1. \A j \in names : j \in Int
      OBVIOUS
    <3>2. n \in Int /\ m \in Int /\ n < m
      BY <3>1
    <3>3. m \notin N /\ m \in M
      BY <3>2
    <3>4. \A j \in names : j <= n => j <= m
      BY <3>1, <3>2
    <3>5. N \in SUBSET M
      BY <3>4
    <3> QED
      BY <3>3, <3>5
  <2>2. IsFiniteSet(M)
    BY <2>1, FS_Subset
  <2>3. IsFiniteSet(N) /\ Cardinality(N) <= Cardinality(M) /\ (Cardinality(N) = Cardinality(M) => N = M)
    BY <2>1, <2>2, FS_Subset
  <2>4. Cardinality(N) \in Nat /\ Cardinality(M) \in Nat
    BY <2>2, <2>3, FS_CardinalityType
  <2> QED
    BY <2>1, <2>3, <2>4
<1>2. \A n \in names : rank(n) \in Nat
  <2> TAKE n \in names
  <2>1. {m \in names : m <= n} \in SUBSET names
    OBVIOUS
  <2> QED
    BY <2>1, FS_Subset, FS_CardinalityType
<1>3. FromListing(names) = {[gen |-> rank(n), name |-> n] : n \in names}
  BY DEF FromListing
<1> HIDE DEF rank
<1>4. \A n, m \in names : rank(n) = rank(m) => n = m
  BY <1>1, <1>2
<1> QED
  BY <1>3, <1>4 DEF UniqueGens

(* A lineage that passes the guard is that of the newest entry.            *)
LEMMA ProceedingOwns ==
  ASSUME TypeInv, NEW v \in Volumes, NEW E \in SUBSET Entry, Bounded(E), UniqueGens(E), E # {},
         Proceeds(ResolveKnown(lineage[v], E), Latest(E)),
         lineage[v].kind = "gen" => lineage[v].n <= Latest(E)
  PROVE  \A e \in Newest(E) : Owns(v, e)
<1>1. PICK e \in E : Newest(E) = {e} /\ e.gen = Latest(E) /\ Latest(E) \in Nat \ {0}
                     /\ \A f \in E : f.gen <= e.gen
  BY NewestOf
<1>2. ResolveKnown(lineage[v], E) >= Latest(E)
  BY <1>1 DEF Proceeds
<1>3. lineage[v] \in [kind : {"none", "gen", "name"}, n : Int]
  BY DEF TypeInv, TypeOK, DiskOK
<1>4. CASE lineage[v].kind = "gen"
  <2>1. lineage[v].n = e.gen
    BY <1>1, <1>2, <1>3, <1>4 DEF ResolveKnown
  <2> QED
    BY <1>1, <1>3, <1>4, <2>1 DEF Owns, Generation
<1>5. CASE lineage[v].kind = "name" /\ lineage[v].n \in Names(E)
  <2> DEFINE f == CHOOSE f \in E : f.name = lineage[v].n
  <2>1. f \in E /\ f.name = lineage[v].n
    BY <1>5 DEF Names
  <2>2. f.gen >= Latest(E)
    BY <1>2, <1>5 DEF ResolveKnown
  <2> HIDE DEF f
  <2>3. f = e
    BY <1>1, <2>1, <2>2 DEF UniqueGens, Entry
  <2> QED
    BY <1>1, <1>3, <1>5, <2>1, <2>3 DEF Owns, LegacyName
<1>6. CASE lineage[v].kind # "gen" /\ ~(lineage[v].kind = "name" /\ lineage[v].n \in Names(E))
  BY <1>1, <1>2, <1>6 DEF ResolveKnown
<1> QED
  BY <1>4, <1>5, <1>6

(* What the guard lets through is proof, of the manifest or of a listing   *)
(* that leaves out at most the dump in hand.                               *)
LEMMA GuardProves ==
  ASSUME TypeInv, ProofInv, NEW v \in Volumes \ vouched, manifest.state # "garbled",
         NEW E, E = IF manifest.state = "ok" THEN manifest.entries
                    ELSE FromListing(DOMAIN objects \ {job.name}),
         E # {}, Proceeds(ResolveKnown(lineage[v], E), Latest(E))
  PROVE  \A e \in Newest(E) : Backs(v, e.name)
<1>1. CASE manifest.state = "ok"
  <2>1. E = manifest.entries /\ E \in SUBSET Entry /\ Bounded(E) /\ UniqueGens(E)
    BY <1>1 DEF TypeInv, TypeOK, BucketOK, Finite, BucketFinite, ProofInv, Numbered, Unique
  <2>2. lineage[v].kind = "gen" => lineage[v].n <= Latest(E)
    BY <1>1, <2>1 DEF ProofInv, Numbered, Recorded
  <2>3. \A e \in Newest(E) : Owns(v, e)
    BY <2>1, <2>2, ProceedingOwns
  <2> QED
    BY <2>1, <2>3 DEF ProofInv, Claimed, ClaimedNewest
<1>2. CASE manifest.state # "ok"
  <2> DEFINE names == DOMAIN objects \ {job.name}
  <2>1. names \in SUBSET Int /\ IsFiniteSet(names) /\ manifest.state = "absent"
    BY <1>2, FS_RemoveElement DEF TypeInv, TypeOK, BucketOK, Finite, BucketFinite
  <2>2. E = FromListing(names) /\ E \in SUBSET Entry /\ Bounded(E) /\ UniqueGens(E)
    BY <1>2, <2>1, ListingType, ListingUnique
  <2>3. lineage[v].kind # "gen"
    BY <2>1 DEF ProofInv, Numbered, Recorded
  <2>4. \A e \in Newest(E) : Owns(v, e)
    BY <2>2, <2>3, ProceedingOwns
  <2> SUFFICES ASSUME NEW e \in Newest(E) PROVE Backs(v, e.name)
    OBVIOUS
  <2>5. lineage[v] = Generation(e.gen) \/ lineage[v] = LegacyName(e.name)
    BY <2>4 DEF Owns
  <2>6. lineage[v].kind = "name" /\ lineage[v].n = e.name
    BY <2>3, <2>5 DEF Generation, LegacyName
  <2> QED
    BY <2>1, <2>6 DEF ProofInv, Claimed, ClaimedByName
<1> QED
  BY <1>1, <1>2

-----------------------------------------------------------------------------
(* How the parts of the invariant outlive a step.                          *)

LEMMA BacksKept ==
  ASSUME NEW v, NEW n, Backs(v, n),
         n \in DOMAIN objects => n \in DOMAIN objects' \/ "lose" \in Faults,
         n \in DOMAIN objects' => n \in DOMAIN objects /\ objects'[n].data = objects[n].data,
         db[v] \subseteq db'[v], last'[v] = last[v]
  PROVE  Backs(v, n)'
  BY DEF Backs

(* A step that takes nothing from the disks, changes no lineage but that   *)
(* of a vouched volume, no manifest, and no dump that matters.             *)
LEMMA ClaimedKept ==
  ASSUME TypeInv, ProofInv, manifest' = manifest,
         \A v \in Volumes \ vouched' :
           /\ v \notin vouched /\ lineage'[v] = lineage[v]
           /\ db[v] \subseteq db'[v] /\ last'[v] = last[v],
         \A n \in Int : StampedName(n) =>
           /\ n \in DOMAIN objects' => n \in DOMAIN objects /\ objects'[n].data = objects[n].data
           /\ n \in DOMAIN objects /\ n \notin DOMAIN objects' =>
                \/ "lose" \in Faults
                \/ /\ \A v \in Volumes \ vouched', e \in Newest(manifest.entries) :
                        Owns(v, e) => e.name # n
                   /\ manifest.state = "absent" =>
                        \A v \in Volumes \ vouched' : lineage[v] # LegacyName(n)
  PROVE  Claimed'
<1>1. Claimed /\ NamedEntries /\ NamedLineages
  BY DEF ProofInv, Named
<1>2. ClaimedByName'
  <2> SUFFICES ASSUME manifest.state = "absent", NEW v \in Volumes \ vouched',
                      NEW n, n = lineage'[v].n, lineage'[v].kind = "name"
               PROVE  Backs(v, n)'
    BY DEF ClaimedByName
  <2>1. lineage[v] \in [kind : {"none", "gen", "name"}, n : Int] /\ lineage'[v] = lineage[v]
    BY DEF TypeInv, TypeOK, DiskOK
  <2>2. n \in Int /\ StampedName(n) /\ Backs(v, n) /\ lineage[v] = LegacyName(n)
    BY <2>1, <1>1 DEF Claimed, ClaimedByName, NamedLineages, LegacyName
  <2> QED
    BY <2>1, <2>2, BacksKept
<1>3. ClaimedNewest'
  <2> SUFFICES ASSUME NEW v \in Volumes \ vouched', NEW e \in Newest(manifest.entries), Owns(v, e)'
               PROVE  Backs(v, e.name)'
    BY DEF ClaimedNewest
  <2>1. Owns(v, e) /\ e.name \in Int /\ StampedName(e.name)
    BY <1>1 DEF Owns, Newest, TypeInv, TypeOK, BucketOK, Entry, NamedEntries
  <2>2. Backs(v, e.name)
    BY <2>1, <1>1 DEF Claimed, ClaimedNewest
  <2> QED
    BY <2>1, <2>2, BacksKept
<1> QED
  BY <1>2, <1>3 DEF Claimed

LEMMA IdleKeeps ==
  ASSUME job'.pc = "idle"
  PROVE  TickServes' /\ Ticking' /\ NextGen' /\ FilledJob'
  BY DEF TickServes, Ticking, Guarded, Dumped, Fresh, PushedNewest, NextGen, FilledJob

LEMMA WriteShape ==
  ASSUME TypeInv, NEW k, WriteLineage(k)
  PROVE  /\ lineage' \in [Volumes -> {lineage[v] : v \in Volumes} \union {k, NoLineage}]
         /\ \A v \in Volumes : v # vol => lineage'[v] = lineage[v]
         /\ lineage'[vol] \in {lineage[vol], k, NoLineage}
  BY DEF WriteLineage, TypeInv, TypeOK, DiskOK, BootOK

(* What the boot leaves alone.                                             *)
BootFrame == UNCHANGED <<objects, manifest, stamps, job, last>>

LEMMA BootKeeps ==
  ASSUME ProofInv, mode # "serving", BootFrame,
         \/ cands' \subseteq cands
         \/ UniqueGens(cands') /\ \A c \in cands' : StampedName(c.name)
  PROVE  /\ NamedObjects' /\ NamedEntries' /\ NamedJob' /\ Unique' /\ Unreadable' /\ FilledObjects'
         /\ TickServes' /\ Ticking' /\ NextGen' /\ FilledJob'
         /\ job.pc = "idle"
<1>1. job'.pc = "idle" /\ job.pc = "idle"
  BY DEF ProofInv, TickServes, BootFrame
<1>2. NamedObjects' /\ NamedEntries' /\ NamedJob'
  BY DEF ProofInv, BootFrame, Named, NamedObjects, NamedEntries, NamedJob, StampedName
<1>3. Unique' /\ Unreadable' /\ FilledObjects'
  BY DEF ProofInv, BootFrame, Numbered, Unique, UniqueGens, Unreadable, Filled, FilledObjects
<1> QED
  BY <1>1, <1>2, <1>3, IdleKeeps

LEMMA AdoptProves ==
  ASSUME TypeInv, ProofInv, AdoptLineage
  PROVE  ProofInv'
<1>1. mode = "adopt" /\ mode' = "restore" /\ BootFrame /\ cands' = cands /\ db' = db
  BY DEF AdoptLineage, BootFrame, bucket
<1>2. job.pc = "idle" /\ job'.pc = "idle"
  BY <1>1, BootKeeps DEF BootFrame
<1>3. vol \in Volumes /\ lineage \in [Volumes -> [kind : {"none", "gen", "name"}, n : Int]]
  BY DEF TypeInv, TypeOK, BootOK, DiskOK
<1>4. CASE UNCHANGED <<lineage, vouched>>
  <2>1. NamedLineages' /\ Recorded' /\ FilledDisk' /\ Importing'
    BY <1>1, <1>4 DEF BootFrame, ProofInv, Named, NamedLineages, StampedName, Numbered, Recorded,
                      Filled, FilledDisk, Importing
  <2>2. Claimed'
    BY <1>1, <1>4, ClaimedKept DEF BootFrame
  <2> QED
    BY <2>1, <2>2, <1>1, BootKeeps DEF ProofInv, Named, Numbered, Filled
<1>5. ASSUME NEW k, k \in [kind : {"gen", "name"}, n : Int],
             WriteLineage(k), vouched' = vouched \union {vol}, db[vol] # {},
             k.kind = "gen" => manifest.state = "ok" /\ k.n <= Latest(manifest.entries),
             k.kind = "name" => StampedName(k.n)
      PROVE  ProofInv'
  <2>1. /\ \A v \in Volumes : v # vol => lineage'[v] = lineage[v]
        /\ lineage'[vol] \in {lineage[vol], k, NoLineage}
    BY <1>5, WriteShape
  <2>2. NamedLineages'
    BY <1>1, <1>2, <1>5, <2>1 DEF BootFrame, ProofInv, Named, NamedLineages, NamedJob, StampedName,
                                  NoLineage
  <2>3. Recorded'
    BY <1>1, <1>2, <1>5, <2>1 DEF BootFrame, ProofInv, Numbered, Recorded, NoLineage
  <2>4. FilledDisk' /\ Importing'
    BY <1>1, <1>5 DEF BootFrame, ProofInv, Filled, FilledDisk, Importing
  <2>5. Claimed'
    BY <1>1, <1>5, <2>1, ClaimedKept DEF BootFrame
  <2> QED
    BY <2>2, <2>3, <2>4, <2>5, <1>1, BootKeeps DEF ProofInv, Named, Numbered, Filled
<1>6. CASE restore /\ usable /\ db[vol] # {} /\ manifest.state # "garbled" /\ Effective # {}
  <2> DEFINE newest == CHOOSE e \in Newest(Effective) : TRUE
             listing == manifest.state = "absent" \/ manifest.entries = {}
             k == IF listing THEN LegacyName(newest.name) ELSE Generation(newest.gen)
  <2>1. WriteLineage(k) /\ vouched' = vouched \union {vol}
    BY <1>6 DEF AdoptLineage
  <2>2. newest \in Effective /\ newest \in Entry /\ newest.gen = Latest(Effective)
    <3>1. Effective \in SUBSET Entry /\ Bounded(Effective)
      BY EffectiveType DEF TypeInv
    <3>2. \E e \in Newest(Effective) : TRUE
      BY <3>1, <1>6, LatestIsGreatest DEF Newest, Entry
    <3>3. newest \in Newest(Effective)
      BY <3>2
    <3> QED
      BY <3>1, <3>3 DEF Newest
  <2>3. listing => newest.name \in DOMAIN objects
    <3>1. listing => manifest.state # "ok"
      BY <1>6 DEF Effective
    <3>2. manifest.state # "ok" => Names(Effective) = DOMAIN objects
      BY ListingType DEF Effective, TypeInv, TypeOK, BucketOK, Finite, BucketFinite
    <3>3. newest.name \in Names(Effective)
      BY <2>2 DEF Names
    <3> QED
      BY <3>1, <3>2, <3>3
  <2>4. ~listing => manifest.state = "ok" /\ newest.gen = Latest(manifest.entries)
    BY <1>6, <2>2 DEF Effective, TypeInv, TypeOK, BucketOK
  <2> HIDE DEF newest, listing
  <2>5. /\ k \in [kind : {"gen", "name"}, n : Int]
        /\ k.kind = "gen" => manifest.state = "ok" /\ k.n <= Latest(manifest.entries)
        /\ k.kind = "name" => StampedName(k.n)
    <3>1. CASE listing
      BY <3>1, <2>2, <2>3 DEF LegacyName, Entry, ProofInv, Named, NamedObjects
    <3>2. CASE ~listing
      BY <3>2, <2>2, <2>4 DEF Generation, Entry
    <3> QED
      BY <3>1, <3>2
  <2> HIDE DEF k
  <2> QED
    BY <2>1, <2>5, <1>5, <1>6
<1> QED
  BY <1>4, <1>6 DEF AdoptLineage

(* Boot steps that touch no volume.                                        *)
LEMMA QuietBootProves ==
  ASSUME TypeInv, ProofInv, mode # "serving", BootFrame, UNCHANGED <<db, lineage, vouched>>,
         \/ cands' \subseteq cands
         \/ UniqueGens(cands') /\ \A c \in cands' : StampedName(c.name),
         Importing'
  PROVE  ProofInv'
<1>1. NamedLineages' /\ Recorded' /\ FilledDisk'
  BY DEF BootFrame, ProofInv, Named, NamedLineages, StampedName, Numbered, Recorded, Filled,
         FilledDisk
<1>2. Claimed'
  BY ClaimedKept DEF BootFrame
<1> QED
  BY <1>1, <1>2, BootKeeps DEF ProofInv, Named, Numbered, Filled

LEMMA RefusedProves ==
  ASSUME TypeInv, ProofInv, AdoptFails \/ RestoreRefused \/ ImportRefused \/ ImportInvalid
  PROVE  ProofInv'
<1>1. /\ mode # "serving" /\ BootFrame /\ UNCHANGED <<db, lineage, vouched, vol>>
      /\ cands' \subseteq cands
  BY DEF AdoptFails, RestoreRefused, ImportRefused, ImportInvalid, BootFrame, bucket, disk, aux
<1>2. mode' \in {"restore", "down"} \/ (mode = "import" /\ mode' = "import")
  BY DEF AdoptFails, RestoreRefused, ImportRefused, ImportInvalid
<1>3. Importing'
  BY <1>1, <1>2 DEF BootFrame, ProofInv, Importing
<1> QED
  BY <1>1, <1>3, QuietBootProves

LEMMA CandidatesProve ==
  ASSUME TypeInv, ProofInv, NEW readable \in BOOLEAN, NEW C, C = Candidates(readable)
  PROVE  /\ UniqueGens(C) /\ \A c \in C : StampedName(c.name)
         /\ \A c \in C : ~c.listed =>
              manifest.state = "ok" /\ [gen |-> c.gen, name |-> c.name] \in manifest.entries
<1>1. CASE readable /\ manifest.state = "ok"
  <2>1. C = {[gen |-> e.gen, name |-> e.name, listed |-> FALSE] : e \in manifest.entries}
    BY <1>1 DEF Candidates
  <2>2. \A e \in manifest.entries : e = [gen |-> e.gen, name |-> e.name]
    BY DEF TypeInv, TypeOK, BucketOK, Entry
  <2>3. UniqueGens(C)
    <3> SUFFICES ASSUME NEW c \in C, NEW d \in C, c.gen = d.gen PROVE c = d
      BY DEF UniqueGens
    <3>1. PICK e \in manifest.entries : c = [gen |-> e.gen, name |-> e.name, listed |-> FALSE]
      BY <2>1
    <3>2. PICK f \in manifest.entries : d = [gen |-> f.gen, name |-> f.name, listed |-> FALSE]
      BY <2>1
    <3>3. e = f
      BY <3>1, <3>2 DEF ProofInv, Numbered, Unique, UniqueGens
    <3> QED
      BY <3>1, <3>2, <3>3
  <2>4. \A c \in C : [gen |-> c.gen, name |-> c.name] \in manifest.entries
    <3> SUFFICES ASSUME NEW c \in C PROVE [gen |-> c.gen, name |-> c.name] \in manifest.entries
      OBVIOUS
    <3>1. PICK e \in manifest.entries : c = [gen |-> e.gen, name |-> e.name, listed |-> FALSE]
      BY <2>1
    <3> QED
      BY <3>1, <2>2
  <2>5. \A c \in C : StampedName(c.name)
    BY <2>1 DEF ProofInv, Named, NamedEntries
  <2> QED
    BY <2>3, <2>4, <2>5, <1>1
<1>2. CASE ~(readable /\ manifest.state = "ok")
  <2> DEFINE L == FromListing(DOMAIN objects)
  <2>1. C = {[gen |-> e.gen, name |-> e.name, listed |-> TRUE] : e \in L}
    BY <1>2 DEF Candidates
  <2>2. DOMAIN objects \in SUBSET Int /\ IsFiniteSet(DOMAIN objects)
    BY DEF TypeInv, TypeOK, BucketOK, Finite, BucketFinite
  <2>3. UniqueGens(L) /\ Names(L) = DOMAIN objects
    BY <2>2, ListingType, ListingUnique
  <2>4. \A e \in L : StampedName(e.name)
    BY <2>3 DEF Names, ProofInv, Named, NamedObjects
  <2> HIDE DEF L
  <2>5. UniqueGens(C)
    <3> SUFFICES ASSUME NEW c \in C, NEW d \in C, c.gen = d.gen PROVE c = d
      BY DEF UniqueGens
    <3>1. PICK e \in L : c = [gen |-> e.gen, name |-> e.name, listed |-> TRUE]
      BY <2>1
    <3>2. PICK f \in L : d = [gen |-> f.gen, name |-> f.name, listed |-> TRUE]
      BY <2>1
    <3>3. e = f
      BY <3>1, <3>2, <2>3 DEF UniqueGens
    <3> QED
      BY <3>1, <3>2, <3>3
  <2>6. \A c \in C : StampedName(c.name) /\ c.listed
    BY <2>1, <2>4
  <2> QED
    BY <2>5, <2>6
<1> QED
  BY <1>1, <1>2

LEMMA RestoreProves ==
  ASSUME TypeInv, ProofInv, RestoreDb
  PROVE  ProofInv'
<1>1. mode = "restore" /\ BootFrame /\ UNCHANGED <<db, lineage, vouched, vol>>
  BY DEF RestoreDb, BootFrame, bucket, disk
<1>2. CASE mode' = "serving" /\ cands' = cands
  <2>1. Importing'
    BY <1>2 DEF Importing
  <2> QED
    BY <1>1, <1>2, <2>1, QuietBootProves
<1>3. ASSUME NEW readable \in BOOLEAN, cands' = Candidates(readable), db[vol] = {},
             mode' \in {"serving", "import"}
      PROVE  ProofInv'
  <2>1. /\ UniqueGens(cands') /\ \A c \in cands' : StampedName(c.name)
        /\ \A c \in cands' : ~c.listed =>
              manifest.state = "ok" /\ [gen |-> c.gen, name |-> c.name] \in manifest.entries
    BY <1>3, CandidatesProve
  <2>2. vol \notin vouched
    BY <1>3 DEF ProofInv, Filled, FilledDisk
  <2>3. Importing'
    BY <2>1, <2>2, <1>1, <1>3 DEF BootFrame, Importing
  <2> QED
    BY <2>1, <2>3, <1>1, QuietBootProves
<1> QED
  BY <1>2, <1>3 DEF RestoreDb

LEMMA ImportProves ==
  ASSUME TypeInv, ProofInv, Import
  PROVE  ProofInv'
<1>1. /\ mode = "import" /\ mode' = "record" /\ BootFrame /\ db[vol] = {}
      /\ UNCHANGED <<lineage, vouched, vol, cands>>
      /\ Candidate.name \in DOMAIN objects
      /\ db' = [db EXCEPT ![vol] = objects[Candidate.name].data]
  BY DEF Import, BootFrame, bucket, aux
<1>2. vol \in Volumes /\ db \in [Volumes -> SUBSET Nat]
  BY DEF TypeInv, TypeOK, BootOK, DiskOK
<1>3. \A v \in Volumes : db[v] \subseteq db'[v]
  BY <1>1, <1>2
<1>4. NamedLineages' /\ Recorded'
  BY <1>1 DEF BootFrame, ProofInv, Named, NamedLineages, StampedName, Numbered, Recorded
<1>5. FilledDisk'
  <2>1. \A v \in Volumes : v # vol => db'[v] = db[v]
    BY <1>1, <1>2
  <2>2. vol \notin vouched /\ last[vol].data = {}
    BY <1>1, <1>2 DEF ProofInv, Filled, FilledDisk
  <2>3. vouched \in SUBSET Volumes
    BY DEF TypeInv, TypeOK, AuxOK
  <2> QED
    BY <1>1, <2>1, <2>2, <2>3 DEF BootFrame, ProofInv, Filled, FilledDisk
<1>6. Claimed'
  BY <1>1, <1>3, ClaimedKept DEF BootFrame
<1>7. Importing'
  <2>1. Candidate' = Candidate
    BY <1>1 DEF Candidate
  <2>2. last[vol].data = {}
    BY <1>1, <1>2 DEF ProofInv, Filled, FilledDisk
  <2>3. Backs(vol, Candidate.name)'
    BY <2>1, <2>2, <1>1, <1>2 DEF Backs, BootFrame
  <2> QED
    BY <2>3, <1>1 DEF BootFrame, ProofInv, Importing
<1> QED
  BY <1>1, <1>4, <1>5, <1>6, <1>7, BootKeeps DEF ProofInv, Named, Numbered, Filled

LEMMA RecordImportProves ==
  ASSUME TypeInv, ProofInv, RecordImport
  PROVE  ProofInv'
<1> DEFINE c == Candidate
           k == IF c.listed THEN LegacyName(c.name) ELSE Generation(c.gen)
<1>1. /\ mode = "record" /\ mode' = "serving" /\ BootFrame /\ db' = db /\ cands' = {}
      /\ vouched' = vouched \ {vol} /\ WriteLineage(k)
  BY DEF RecordImport, BootFrame, bucket
<1>2. c \in cands
  BY <1>1, CandidateType DEF TypeInv, Finite, CandsFinite
<1>3. /\ vol \notin vouched /\ Backs(vol, c.name)
      /\ ~c.listed => \/ manifest.state = "garbled"
                      \/ manifest.state = "ok" /\ [gen |-> c.gen, name |-> c.name] \in manifest.entries
  BY <1>1, <1>2 DEF ProofInv, Importing
<1>4. c.gen \in Nat /\ c.name \in Int /\ c.listed \in BOOLEAN
  BY <1>2 DEF TypeInv, TypeOK, BootOK
<1> HIDE DEF c
<1>5. /\ \A v \in Volumes : v # vol => lineage'[v] = lineage[v]
      /\ lineage'[vol] \in {lineage[vol], k, NoLineage}
      /\ vol \in Volumes /\ vouched' = vouched
  BY <1>1, <1>3, WriteShape DEF TypeInv, TypeOK, BootOK
<1>6. job.pc = "idle" /\ job.name = 0 /\ StampedName(c.name)
  BY <1>1, <1>2, BootKeeps DEF ProofInv, Named, NamedJob, NamedEntries
<1>7. NamedLineages'
  BY <1>1, <1>4, <1>5, <1>6
     DEF BootFrame, ProofInv, Named, NamedLineages, StampedName, NoLineage, LegacyName, Generation
<1>8. Recorded'
  <2>1. manifest.state = "ok" /\ ~c.listed => c.gen <= Latest(manifest.entries)
    BY <1>3, LatestIsGreatest DEF TypeInv, TypeOK, BucketOK, Finite, BucketFinite, Entry
  <2> QED
    BY <1>1, <1>3, <1>5, <1>6, <2>1
       DEF BootFrame, ProofInv, Numbered, Recorded, NoLineage, LegacyName, Generation
<1>9. FilledDisk' /\ Importing'
  BY <1>1, <1>5 DEF BootFrame, ProofInv, Filled, FilledDisk, Importing
<1>10. \A v, n : Backs(v, n) => Backs(v, n)'
  BY <1>1 DEF BootFrame, Backs
<1>11. ClaimedByName'
  <2> SUFFICES ASSUME manifest.state = "absent", NEW v \in Volumes \ vouched,
                      NEW n, n = lineage'[v].n, lineage'[v].kind = "name"
               PROVE  Backs(v, n)'
    BY <1>1, <1>5 DEF ClaimedByName, BootFrame
  <2>1. CASE lineage'[v] = lineage[v]
    BY <2>1, <1>10 DEF ProofInv, Claimed, ClaimedByName
  <2>2. CASE v = vol /\ lineage'[v] = k
    BY <2>2, <1>3, <1>10 DEF LegacyName, Generation
  <2> QED
    BY <2>1, <2>2, <1>5 DEF NoLineage
<1>12. ClaimedNewest'
  <2> SUFFICES ASSUME NEW v \in Volumes \ vouched, NEW e \in Newest(manifest.entries), Owns(v, e)'
               PROVE  Backs(v, e.name)'
    BY <1>1, <1>5 DEF ClaimedNewest, BootFrame
  <2>1. CASE lineage'[v] = lineage[v]
    <3>1. Owns(v, e)
      BY <2>1 DEF Owns
    <3> QED
      BY <3>1, <1>10 DEF ProofInv, Claimed, ClaimedNewest
  <2>2. CASE v = vol /\ lineage'[v] = k
    <3>1. (c.listed /\ c.name = e.name) \/ (~c.listed /\ c.gen = e.gen)
      BY <2>2, <1>4 DEF Owns, LegacyName, Generation
    <3>2. e \in manifest.entries
      BY DEF Newest
    <3>3. c.name = e.name
      BY <3>1, <3>2, <1>3 DEF ProofInv, Numbered, Unique, Unreadable, UniqueGens
    <3> QED
      BY <2>2, <3>3, <1>3, <1>10
  <2>3. lineage'[v] # NoLineage
    BY DEF Owns, NoLineage, Generation, LegacyName
  <2> QED
    BY <2>1, <2>2, <2>3, <1>5
<1> QED
  BY <1>1, <1>7, <1>8, <1>9, <1>11, <1>12, BootKeeps DEF ProofInv, Named, Numbered, Filled, Claimed

-----------------------------------------------------------------------------
(* The tick.                                                               *)

LEMMA IdleEnds ==
  ASSUME TypeInv, ProofInv, job' = Idle, UNCHANGED <<manifest, lineage>>, cands' \subseteq cands,
         stamps' \in Nat, stamps <= stamps'
  PROVE  /\ NamedEntries' /\ NamedLineages' /\ NamedJob' /\ Unique' /\ Unreadable' /\ Recorded'
         /\ TickServes' /\ Ticking' /\ NextGen' /\ FilledJob'
<1>1. job'.pc = "idle" /\ job'.name = 0 /\ job'.man = {}
  BY DEF Idle
<1>2. \A n \in Int : StampedName(n) => StampedName(n)'
  <2>1. \A a, b \in Nat : a <= b => \A n \in Int : -a <= n /\ n <= a => -b <= n /\ n <= b
    OBVIOUS
  <2>2. stamps \in Nat /\ stamps' \in Nat
    BY DEF TypeInv, TypeOK, BucketOK
  <2> QED
    BY <2>1, <2>2 DEF StampedName
<1>3. /\ \A e \in manifest.entries : e.name \in Int
      /\ \A c \in cands : c.name \in Int
      /\ \A v \in Volumes : lineage[v].n \in Int
  BY DEF TypeInv, TypeOK, BucketOK, DiskOK, BootOK, Entry
<1>4. NamedEntries' /\ NamedJob'
  BY <1>1, <1>2, <1>3 DEF ProofInv, Named, NamedEntries, NamedJob
<1>5. NamedLineages'
  <2> SUFFICES ASSUME NEW v \in Volumes, NEW n, n = lineage[v].n, lineage[v].kind = "name"
               PROVE  StampedName(n)' /\ n # 0
    BY <1>1 DEF NamedLineages
  <2>1. StampedName(n) /\ n \in Int
    BY <1>3 DEF ProofInv, Named, NamedLineages
  <2> QED
    BY <2>1, <1>2 DEF StampedName
<1>6. Unique' /\ Unreadable' /\ Recorded'
  BY <1>1 DEF ProofInv, Numbered, Unique, UniqueGens, Unreadable, Recorded
<1> QED
  BY <1>1, <1>4, <1>5, <1>6, IdleKeeps

(* Steps of a tick that change nothing but what it holds in its hand.      *)
LEMMA JobStepKeeps ==
  ASSUME TypeInv, ProofInv, mode = "serving", UNCHANGED <<bucket, disk, boot, vouched>>
  PROVE  /\ TickServes' /\ NamedObjects' /\ Unreadable' /\ FilledObjects' /\ FilledDisk'
         /\ Claimed' /\ Importing'
<1>1. TickServes' /\ Importing'
  BY DEF TickServes, Importing, boot
<1>2. NamedObjects' /\ Unreadable' /\ FilledObjects' /\ FilledDisk'
  BY DEF bucket, disk, ProofInv, Named, NamedObjects, StampedName, Numbered, Unreadable, Filled,
         FilledObjects, FilledDisk
<1>3. Claimed'
  BY ClaimedKept DEF bucket, disk
<1> QED
  BY <1>1, <1>2, <1>3

LEMMA TickGuardsProve ==
  ASSUME TypeInv, ProofInv, TickGuards
  PROVE  ProofInv'
<1>1. /\ mode = "serving" /\ UNCHANGED <<bucket, disk, boot, vouched>>
      /\ db[vol] # {} /\ manifest.state # "garbled"
      /\ Proceeds(ResolveKnown(lineage[vol], Effective), Latest(Effective))
      /\ job'.pc = "dump" /\ job'.man = Effective /\ job'.gen = Latest(Effective) + 1
      /\ job'.name = 0 /\ job.name = 0
  BY DEF TickGuards, Idle, aux, ProofInv, Named, NamedJob
<1>2. 0 \notin DOMAIN objects /\ DOMAIN objects \in SUBSET Int /\ IsFiniteSet(DOMAIN objects)
  BY DEF ProofInv, Named, NamedObjects, StampedName, TypeInv, TypeOK, BucketOK, Finite, BucketFinite
<1>3. Effective = IF manifest.state = "ok" THEN manifest.entries
                  ELSE FromListing(DOMAIN objects \ {job.name})
  <2>1. DOMAIN objects \ {job.name} = DOMAIN objects
    BY <1>1, <1>2
  <2> QED
    BY <2>1 DEF Effective
<1>4. UniqueGens(Effective)
  BY <1>2, ListingUnique DEF Effective, ProofInv, Numbered, Unique
<1>5. \A e \in Effective : StampedName(e.name)
  <2>1. \A e \in FromListing(DOMAIN objects) : StampedName(e.name)
    <3>1. Names(FromListing(DOMAIN objects)) = DOMAIN objects
      BY <1>2, ListingType
    <3> QED
      BY <3>1 DEF Names, ProofInv, Named, NamedObjects
  <2> QED
    BY <2>1 DEF Effective, ProofInv, Named, NamedEntries
<1>6. NamedEntries' /\ NamedJob'
  BY <1>1, <1>5 DEF bucket, boot, ProofInv, Named, NamedEntries, NamedJob, StampedName
<1>7. NamedLineages'
  BY <1>1 DEF bucket, disk, ProofInv, Named, NamedLineages, StampedName
<1>8. Unique' /\ NextGen'
  BY <1>1, <1>4 DEF bucket, boot, ProofInv, Numbered, Unique, NextGen, Effective
<1>9. Recorded'
  <2> SUFFICES ASSUME NEW v \in Volumes, lineage[v].kind = "gen"
               PROVE  /\ manifest.state # "absent"
                      /\ manifest.state = "ok" => lineage[v].n <= Latest(manifest.entries)
                      /\ lineage[v].n < Latest(Effective) + 1
    BY <1>1 DEF bucket, disk, Recorded
  <2>1. manifest.state = "ok" /\ lineage[v].n <= Latest(manifest.entries)
    BY <1>1 DEF ProofInv, Numbered, Recorded, TypeInv, TypeOK, BucketOK
  <2>2. Effective = manifest.entries /\ lineage[v].n \in Int
    BY <2>1 DEF Effective, TypeInv, TypeOK, DiskOK
  <2>3. Latest(Effective) \in Nat
    BY EffectiveType, LatestType DEF TypeInv
  <2> QED
    BY <2>1, <2>2, <2>3
<1>10. FilledJob'
  BY <1>1 DEF disk, boot, FilledJob
<1>11. Guarded'
  <2> SUFFICES ASSUME vol \notin vouched, NEW e \in Newest(Effective) PROVE Backs(vol, e.name)'
    BY <1>1 DEF Guarded, boot
  <2>1. Backs(vol, e.name)
    <3>1. Effective # {} /\ vol \in Volumes \ vouched
      BY DEF Newest, TypeInv, TypeOK, BootOK
    <3> QED
      BY <3>1, <1>1, <1>3, GuardProves
  <2> QED
    BY <2>1, <1>1 DEF Backs, bucket, disk, boot
<1>12. Dumped' /\ Fresh' /\ PushedNewest'
  BY <1>1 DEF Dumped, Fresh, PushedNewest
<1> QED
  BY <1>1, <1>6, <1>7, <1>8, <1>9, <1>10, <1>11, <1>12, JobStepKeeps
     DEF ProofInv, Named, Numbered, Filled, Ticking

LEMMA TickDumpProves ==
  ASSUME TypeInv, ProofInv, TickDump \/ TickDumpFails
  PROVE  ProofInv'
<1>1. /\ job.pc = "dump" /\ mode = "serving" /\ UNCHANGED <<bucket, disk, boot, vouched>>
      /\ job' = Idle \/ job' = [job EXCEPT !.pc = "put", !.data = db[vol]]
  BY DEF TickDump, TickDumpFails, aux, ProofInv, TickServes
<1>2. CASE job' = Idle
  <2>1. stamps' \in Nat /\ stamps <= stamps' /\ UNCHANGED <<manifest, lineage, cands>>
    BY <1>1 DEF bucket, disk, boot, TypeInv, TypeOK, BucketOK
  <2> QED
    BY <1>1, <1>2, <2>1, IdleEnds, JobStepKeeps DEF ProofInv, Named, Numbered, Filled
<1>3. CASE job' = [job EXCEPT !.pc = "put", !.data = db[vol]]
  <2>1. /\ job'.pc = "put" /\ job'.data = db[vol] /\ job'.man = job.man /\ job'.gen = job.gen
        /\ job'.name = job.name
    BY <1>3 DEF TypeInv, TypeOK, JobOK
  <2>2. NamedEntries' /\ NamedLineages' /\ NamedJob'
    BY <1>1, <2>1 DEF bucket, disk, boot, ProofInv, Named, NamedEntries, NamedLineages, NamedJob,
                      StampedName
  <2>3. Unique' /\ Recorded' /\ NextGen'
    BY <1>1, <2>1 DEF bucket, disk, boot, ProofInv, Numbered, Unique, Recorded, NextGen
  <2>4. FilledJob'
    BY <1>1, <2>1 DEF ProofInv, Filled, FilledJob
  <2>5. Ticking'
    <3>1. last[vol].data \subseteq db[vol]
      BY DEF ProofInv, Filled, FilledDisk, TypeInv, TypeOK, BootOK
    <3> QED
      BY <1>1, <2>1, <3>1 DEF disk, boot, Ticking, Guarded, Dumped, Fresh, PushedNewest
  <2> QED
    BY <1>1, <2>2, <2>3, <2>4, <2>5, JobStepKeeps DEF ProofInv, Named, Numbered, Filled
<1> QED
  BY <1>1, <1>2, <1>3

(* A new dump disturbs nothing: its name is beyond all there were.         *)
LEMMA StampFresh ==
  ASSUME TypeInv, NEW name \in {stamps + 1, -(stamps + 1)}, stamps' = stamps + 1
  PROVE  /\ name \in Int /\ StampedName(name)'
         /\ \A n \in Int : StampedName(n) => StampedName(n)' /\ n # name
<1>1. \A s \in Nat : \A m \in {s + 1, -(s + 1)} :
        /\ m \in Int /\ m # 0 /\ -(s + 1) <= m /\ m <= s + 1
        /\ \A n \in Int : -s <= n /\ n <= s => -(s + 1) <= n /\ n <= s + 1 /\ n # m
  OBVIOUS
<1>2. stamps \in Nat
  BY DEF TypeInv, TypeOK, BucketOK
<1> QED
  BY <1>1, <1>2 DEF StampedName

LEMMA StoredProves ==
  ASSUME TypeInv, ProofInv, mode = "serving", NEW name \in {stamps + 1, -(stamps + 1)},
         NEW d, d # {}, objects' = Stored(name, d), stamps' = stamps + 1,
         UNCHANGED <<manifest, disk, boot, vouched>>
  PROVE  /\ TickServes' /\ NamedObjects' /\ Unreadable' /\ FilledObjects' /\ FilledDisk'
         /\ Claimed' /\ Importing'
<1>1. TickServes' /\ Importing'
  BY DEF TickServes, Importing, boot
<1>2. /\ name \in Int /\ StampedName(name)'
      /\ \A n \in Int : StampedName(n) => StampedName(n)' /\ n # name
  BY StampFresh
<1>3. /\ DOMAIN objects' = DOMAIN objects \union {name}
      /\ objects'[name].data = d
      /\ \A n \in DOMAIN objects : n # name => objects'[n] = objects[n]
  BY DEF Stored
<1>4. \A n \in DOMAIN objects : n \in Int /\ StampedName(n)
  BY DEF TypeInv, TypeOK, BucketOK, ProofInv, Named, NamedObjects
<1>5. NamedObjects'
  BY <1>2, <1>3, <1>4 DEF NamedObjects
<1>6. FilledObjects'
  BY <1>2, <1>3, <1>4 DEF ProofInv, Filled, FilledObjects
<1>7. Unreadable' /\ FilledDisk'
  BY DEF disk, ProofInv, Numbered, Unreadable, Filled, FilledDisk
<1>8. Claimed'
  BY <1>2, <1>3, ClaimedKept DEF disk
<1> QED
  BY <1>1, <1>5, <1>6, <1>7, <1>8

LEMMA TickPutProves ==
  ASSUME TypeInv, ProofInv, TickPut
  PROVE  ProofInv'
<1>1. PICK name \in {stamps + 1, -(stamps + 1)} :
        /\ job.pc = "put" /\ stamps' = stamps + 1
        /\ objects' = Stored(name, job.data)
        /\ job' = [job EXCEPT !.pc = "publish", !.name = name]
        /\ UNCHANGED <<manifest, disk, boot, vouched>>
  BY DEF TickPut, Stamp
<1>2. mode = "serving" /\ job.data # {}
  BY <1>1 DEF ProofInv, TickServes, Filled, FilledJob
<1>3. /\ job'.pc = "publish" /\ job'.name = name
      /\ job'.man = job.man /\ job'.gen = job.gen /\ job'.data = job.data
  BY <1>1 DEF TypeInv, TypeOK, JobOK
<1>4. /\ name \in Int /\ StampedName(name)'
      /\ \A n \in Int : StampedName(n) => StampedName(n)' /\ n # name
  BY <1>1, StampFresh
<1>5. /\ \A e \in manifest.entries : e.name \in Int
      /\ \A e \in job.man : e.name \in Int
      /\ \A c \in cands : c.name \in Int
      /\ \A v \in Volumes : lineage[v].n \in Int
  BY DEF TypeInv, TypeOK, BucketOK, DiskOK, BootOK, JobOK, Entry
<1>6. NamedEntries' /\ NamedJob'
  BY <1>1, <1>3, <1>4, <1>5 DEF boot, ProofInv, Named, NamedEntries, NamedJob
<1>7. NamedLineages'
  <2> SUFFICES ASSUME NEW v \in Volumes, NEW n, n = lineage[v].n, lineage[v].kind = "name"
               PROVE  StampedName(n)' /\ n # name
    BY <1>1, <1>3 DEF NamedLineages, disk
  <2>1. StampedName(n) /\ n \in Int
    BY <1>5 DEF ProofInv, Named, NamedLineages
  <2> QED
    BY <2>1, <1>4
<1>8. Unique' /\ Recorded' /\ NextGen'
  BY <1>1, <1>3 DEF disk, boot, ProofInv, Numbered, Unique, Recorded, NextGen
<1>9. FilledJob'
  BY <1>2, <1>3 DEF FilledJob
<1>10. Guarded' /\ PushedNewest'
  BY <1>3 DEF Guarded, PushedNewest
<1>11. Dumped'
  <2>1. name \in DOMAIN objects' /\ objects'[name].data = job.data
    BY <1>1 DEF Stored
  <2> QED
    BY <1>1, <1>3, <2>1 DEF disk, boot, ProofInv, Ticking, Dumped
<1>12. Fresh'
  <2>1. name \notin Names(job.man) /\ name \notin Names(manifest.entries)
    BY <1>4, <1>5 DEF ProofInv, Named, NamedEntries, Names
  <2> QED
    BY <1>1, <1>3, <2>1 DEF Fresh
<1> QED
  BY <1>1, <1>2, <1>6, <1>7, <1>8, <1>9, <1>10, <1>11, <1>12, StoredProves
     DEF ProofInv, Named, Numbered, Filled, Ticking

LEMMA TickPutFailsProves ==
  ASSUME TypeInv, ProofInv, TickPutFails
  PROVE  ProofInv'
<1>1. /\ job.pc = "put" /\ stamps' = stamps + 1 /\ job' = Idle
      /\ UNCHANGED <<manifest, disk, boot, vouched>>
      /\ objects' = objects \/ objects' = Stored(stamps + 1, job.data)
  BY DEF TickPutFails
<1>2. mode = "serving" /\ job.data # {}
  BY <1>1 DEF ProofInv, TickServes, Filled, FilledJob
<1>3. stamps' \in Nat /\ stamps <= stamps' /\ UNCHANGED <<lineage, cands>>
  BY <1>1 DEF disk, boot, TypeInv, TypeOK, BucketOK
<1>4. TickServes' /\ Importing'
  BY <1>1, <1>2 DEF TickServes, Importing, boot
<1>5. CASE objects' = objects
  <2>1. \A n \in Int : StampedName(n) => StampedName(n)'
    BY <1>1, StampFresh
  <2>2. NamedObjects'
    BY <1>5, <2>1 DEF ProofInv, Named, NamedObjects, TypeInv, TypeOK, BucketOK
  <2>3. Unreadable' /\ FilledObjects' /\ FilledDisk'
    BY <1>1, <1>5 DEF disk, ProofInv, Numbered, Unreadable, Filled, FilledObjects, FilledDisk
  <2>4. Claimed'
    BY <1>1, <1>5, ClaimedKept DEF disk
  <2> QED
    BY <1>1, <1>3, <1>4, <2>2, <2>3, <2>4, IdleEnds DEF ProofInv, Named, Numbered, Filled
<1>6. CASE objects' = Stored(stamps + 1, job.data)
  BY <1>1, <1>2, <1>3, <1>6, IdleEnds, StoredProves DEF ProofInv, Named, Numbered, Filled
<1> QED
  BY <1>1, <1>5, <1>6

(* The manifest a tick publishes has the dump in hand as its newest.       *)
LEMMA PushedAhead ==
  ASSUME TypeInv, ProofInv, job.pc = "publish",
         NEW J, J = [gen |-> job.gen, name |-> job.name]
  PROVE  /\ Retained(Pushed) \in SUBSET Pushed /\ J \in Retained(Pushed) /\ J \in Entry
         /\ Newest(Retained(Pushed)) = {J} /\ Latest(Retained(Pushed)) = job.gen
         /\ UniqueGens(Retained(Pushed))
         /\ \A e \in Pushed : e = J \/ (e \in job.man /\ e.gen < job.gen /\ e.name # job.name)
         /\ \A e \in Retained(Pushed) : StampedName(e.name)
<1>1. /\ job.gen \in Nat /\ job.gen # 0 /\ job.name \in Int /\ job.man \in SUBSET Entry
      /\ Bounded(job.man)
  BY DEF TypeInv, TypeOK, JobOK, Finite, JobFinite
<1>2. /\ Pushed \in SUBSET Entry /\ Bounded(Pushed) /\ Retained(Pushed) \in SUBSET Pushed
      /\ Bounded(Retained(Pushed))
  BY <1>1, PushedType DEF TypeInv
<1>3. Pushed = job.man \union {J} /\ J.gen = job.gen /\ J.name = job.name /\ J \in Entry
  BY <1>1 DEF Pushed, Entry
<1>4. \A e \in job.man : e.gen < job.gen
  <2>1. job.gen = Latest(job.man) + 1
    BY DEF ProofInv, Numbered, NextGen
  <2>2. CASE job.man # {}
    <3>1. /\ Latest(job.man) \in Nat \ {0}
          /\ \A e \in job.man : e.gen <= Latest(job.man)
      BY <1>1, <2>2, LatestIsGreatest DEF Entry
    <3> QED
      BY <1>1, <2>1, <3>1 DEF Entry
  <2> QED
    BY <2>2
<1>5. \A e \in job.man : e.name # job.name
  BY DEF ProofInv, Ticking, Fresh, Names
<1>6. \A e \in Pushed : e = J \/ (e \in job.man /\ e.gen < job.gen /\ e.name # job.name)
  BY <1>3, <1>4, <1>5
<1>7. J \in Retained(Pushed)
  <2>1. \A f \in Pushed : ~(f.gen > J.gen)
    BY <1>1, <1>2, <1>3, <1>6 DEF Entry
  <2>2. {f \in Pushed : f.gen > J.gen} = {}
    BY <2>1
  <2>3. Cardinality({f \in Pushed : f.gen > J.gen}) < Keep
    BY <2>2, FS_EmptySet, BackupAssumption
  <2> QED
    BY <1>3, <2>3 DEF Retained
<1>8. Newest(Retained(Pushed)) = {J} /\ Latest(Retained(Pushed)) = job.gen
  <2>1. Retained(Pushed) \in SUBSET Entry
    BY <1>2
  <2>2. \A f \in Retained(Pushed) : f = J \/ f.gen < J.gen
    BY <1>2, <1>3, <1>6
  <2> QED
    BY <1>2, <1>3, <1>7, <2>1, <2>2, NewestAhead
<1>9. UniqueGens(Retained(Pushed))
  <2>1. UniqueGens(job.man)
    BY DEF ProofInv, Numbered, Unique
  <2> SUFFICES ASSUME NEW e \in Retained(Pushed), NEW f \in Retained(Pushed), e.gen = f.gen
               PROVE  e = f
    BY DEF UniqueGens
  <2>2. (e = J \/ (e \in job.man /\ e.gen < job.gen)) /\ (f = J \/ (f \in job.man /\ f.gen < job.gen))
    BY <1>2, <1>6
  <2> QED
    BY <2>1, <2>2, <1>1, <1>3 DEF UniqueGens
<1>10. \A e \in Retained(Pushed) : StampedName(e.name)
  BY <1>2, <1>3, <1>6 DEF ProofInv, Named, NamedEntries, NamedJob
<1> QED
  BY <1>2, <1>3, <1>6, <1>7, <1>8, <1>9, <1>10

(* What holds once that manifest is there, whatever the tick believes.     *)
LEMMA PublishedProves ==
  ASSUME TypeInv, ProofInv, job.pc = "publish", manifest' = Published(Retained(Pushed)),
         UNCHANGED <<objects, stamps, disk, boot, vouched>>,
         NEW p \in {"record", "cleanup"}, job'.pc = p,
         job'.man = job.man, job'.gen = job.gen, job'.name = job.name
  PROVE  /\ Named' /\ Numbered' /\ Filled' /\ Claimed' /\ Importing' /\ TickServes'
         /\ Guarded' /\ manifest'.state # "absent"
         /\ [gen |-> job.gen, name |-> job.name] \in manifest'.entries
         /\ \A e \in Newest(manifest'.entries) : e.gen = job.gen /\ e.name = job.name
         /\ \A e \in manifest'.entries : e.name = job.name => e.gen = job.gen
<1> DEFINE J == [gen |-> job.gen, name |-> job.name]
<1>1. /\ Retained(Pushed) \in SUBSET Pushed /\ J \in Retained(Pushed) /\ J \in Entry
      /\ Newest(Retained(Pushed)) = {J} /\ Latest(Retained(Pushed)) = job.gen
      /\ UniqueGens(Retained(Pushed))
      /\ \A e \in Pushed : e = J \/ (e \in job.man /\ e.gen < job.gen /\ e.name # job.name)
      /\ \A e \in Retained(Pushed) : StampedName(e.name)
  BY PushedAhead
<1>2. J.gen = job.gen /\ J.name = job.name
  OBVIOUS
<1>3. manifest'.state = "ok" /\ manifest'.entries = Retained(Pushed)
  BY DEF Published
<1> HIDE DEF J
<1>4. mode = "serving" /\ TickServes' /\ Importing'
  BY DEF ProofInv, TickServes, Importing, boot
<1>5. \A n : StampedName(n) <=> StampedName(n)'
  BY DEF StampedName
<1>6. NamedObjects' /\ NamedJob'
  BY <1>5 DEF ProofInv, Named, NamedObjects, NamedJob
<1>7. NamedEntries'
  BY <1>1, <1>3, <1>5 DEF boot, ProofInv, Named, NamedEntries
<1>8. NamedLineages'
  BY <1>5 DEF disk, ProofInv, Named, NamedLineages
<1>9. \A v \in Volumes : lineage[v].kind = "gen" => lineage[v].n < job.gen /\ lineage[v].n \in Int
  BY DEF ProofInv, Numbered, Recorded, TypeInv, TypeOK, DiskOK
<1>10. job.gen \in Nat
  BY DEF TypeInv, TypeOK, JobOK
<1>11. Numbered'
  <2>1. Unique' /\ Unreadable' /\ NextGen'
    BY <1>1, <1>3 DEF boot, ProofInv, Numbered, Unique, Unreadable, NextGen
  <2>2. Recorded'
    BY <1>1, <1>3, <1>9, <1>10 DEF disk, Recorded
  <2> QED
    BY <2>1, <2>2 DEF Numbered
<1>12. Filled'
  BY <1>3 DEF disk, boot, ProofInv, Filled, FilledObjects, FilledJob, FilledDisk
<1>13. Claimed'
  <2>1. ClaimedByName'
    BY <1>3 DEF ClaimedByName
  <2>2. ASSUME NEW v \in Volumes, NEW e, e = J
        PROVE  ~Owns(v, e)'
    <3> SUFFICES ASSUME lineage[v] = Generation(e.gen) \/ lineage[v] = LegacyName(e.name)
                 PROVE  FALSE
      BY DEF Owns, disk
    <3>1. CASE lineage[v] = Generation(e.gen)
      <4>1. lineage[v].kind = "gen" /\ lineage[v].n = job.gen
        BY <3>1, <2>2, <1>2 DEF Generation
      <4> QED
        BY <4>1, <1>9, <1>10
    <3>2. CASE lineage[v] = LegacyName(e.name)
      <4>1. lineage[v].kind = "name" /\ lineage[v].n = job.name
        BY <3>2, <2>2, <1>2 DEF LegacyName
      <4> QED
        BY <4>1 DEF ProofInv, Named, NamedLineages
    <3> QED
      BY <3>1, <3>2
  <2>3. ClaimedNewest'
    <3>1. \A e \in Newest(manifest'.entries) : e = J
      BY <1>1, <1>3
    <3>2. Newest(manifest.entries)' = Newest(manifest'.entries)
      BY DEF Newest, Latest
    <3> QED
      BY <2>2, <3>1, <3>2 DEF ClaimedNewest
  <2> QED
    BY <2>1, <2>3 DEF Claimed
<1>14. Guarded'
  BY DEF Guarded
<1>15. \A e \in Newest(manifest'.entries) : e.gen = job.gen /\ e.name = job.name
  BY <1>1, <1>2, <1>3
<1>16. \A e \in manifest'.entries : e.name = job.name => e.gen = job.gen
  BY <1>1, <1>2, <1>3
<1>17. [gen |-> job.gen, name |-> job.name] \in manifest'.entries
  BY <1>1, <1>3 DEF J
<1> QED
  BY <1>3, <1>4, <1>6, <1>7, <1>8, <1>11, <1>12, <1>13, <1>14, <1>15, <1>16, <1>17 DEF Named

LEMMA TickPublishProves ==
  ASSUME TypeInv, ProofInv, TickPublish
  PROVE  ProofInv'
<1>1. /\ job.pc = "publish" /\ manifest' = Published(Retained(Pushed))
      /\ UNCHANGED <<objects, stamps, disk, boot, vouched>>
      /\ job' = [job EXCEPT !.pc = "record", !.evicted = Pushed \ Retained(Pushed)]
  BY DEF TickPublish, aux
<1>2. /\ job'.pc = "record" /\ job'.evicted = Pushed \ Retained(Pushed) /\ job'.man = job.man
      /\ job'.gen = job.gen /\ job'.name = job.name /\ job'.data = job.data
  BY <1>1 DEF TypeInv, TypeOK, JobOK
<1>3. /\ Named' /\ Numbered' /\ Filled' /\ Claimed' /\ Importing' /\ TickServes'
      /\ Guarded' /\ manifest'.state # "absent"
      /\ [gen |-> job.gen, name |-> job.name] \in manifest'.entries
      /\ \A e \in Newest(manifest'.entries) : e.gen = job.gen /\ e.name = job.name
  BY <1>1, <1>2, PublishedProves
<1>4. job.name \notin Names(Pushed \ Retained(Pushed))
  BY <1>1, PushedAhead DEF Names
<1>5. Dumped' /\ Fresh'
  BY <1>1, <1>2 DEF disk, boot, ProofInv, Ticking, Dumped, Fresh
<1>6. PushedNewest'
  BY <1>2, <1>3, <1>4 DEF PushedNewest
<1> QED
  BY <1>3, <1>5, <1>6 DEF ProofInv, Ticking

LEMMA TickPublishFailsProves ==
  ASSUME TypeInv, ProofInv, TickPublishFails
  PROVE  ProofInv'
<1>1. /\ job.pc = "publish" /\ UNCHANGED <<objects, stamps, disk, boot, vouched>>
      /\ job' = [job EXCEPT !.pc = "cleanup"]
      /\ manifest' = manifest \/ manifest' = Published(Retained(Pushed))
  BY DEF TickPublishFails
<1>2. /\ job'.pc = "cleanup" /\ job'.man = job.man
      /\ job'.gen = job.gen /\ job'.name = job.name /\ job'.data = job.data
  BY <1>1 DEF TypeInv, TypeOK, JobOK
<1>3. Guarded' /\ Dumped' /\ PushedNewest'
  BY <1>2 DEF Guarded, Dumped, PushedNewest
<1>4. CASE manifest' = manifest
  <2>1. mode = "serving" /\ UNCHANGED <<bucket, disk, boot, vouched>>
    BY <1>1, <1>4 DEF bucket, ProofInv, TickServes
  <2>2. NamedEntries' /\ NamedLineages' /\ NamedJob'
    BY <1>1, <1>2, <1>4 DEF disk, boot, ProofInv, Named, NamedEntries, NamedLineages, NamedJob,
                            StampedName
  <2>3. Unique' /\ Recorded' /\ NextGen' /\ FilledJob'
    BY <1>1, <1>2, <1>4 DEF disk, boot, ProofInv, Numbered, Unique, Recorded, NextGen, FilledJob
  <2>4. Fresh'
    BY <1>1, <1>2, <1>4 DEF ProofInv, Ticking, Fresh, Names
  <2> QED
    BY <1>3, <2>1, <2>2, <2>3, <2>4, JobStepKeeps DEF ProofInv, Named, Numbered, Filled, Ticking
<1>5. CASE manifest' = Published(Retained(Pushed))
  <2>1. /\ Named' /\ Numbered' /\ Filled' /\ Claimed' /\ Importing' /\ TickServes'
        /\ \A e \in manifest'.entries : e.name = job.name => e.gen = job.gen
    BY <1>1, <1>2, <1>5, PublishedProves
  <2>2. Fresh'
    BY <1>2, <2>1 DEF Fresh
  <2> QED
    BY <1>3, <2>1, <2>2 DEF ProofInv, Ticking
<1> QED
  BY <1>1, <1>4, <1>5

(* A dump is deleted that no lineage can claim.                            *)
LEMMA WithoutProves ==
  ASSUME TypeInv, ProofInv, mode = "serving", NEW name, objects' = Without(name),
         UNCHANGED <<manifest, stamps, disk, boot, vouched>>,
         \A v \in Volumes \ vouched, e \in Newest(manifest.entries) :
           Owns(v, e) => e.name # name,
         manifest.state = "absent" => \A v \in Volumes \ vouched : lineage[v] # LegacyName(name)
  PROVE  /\ TickServes' /\ NamedObjects' /\ Unreadable' /\ FilledObjects' /\ FilledDisk'
         /\ Claimed' /\ Importing'
<1>1. TickServes' /\ Importing'
  BY DEF TickServes, Importing, boot
<1>2. /\ DOMAIN objects' = DOMAIN objects \ {name}
      /\ \A n \in DOMAIN objects' : objects'[n] = objects[n]
  BY DEF Without
<1>3. NamedObjects' /\ FilledObjects'
  BY <1>2 DEF ProofInv, Named, NamedObjects, StampedName, Filled, FilledObjects
<1>4. Unreadable' /\ FilledDisk'
  BY DEF disk, ProofInv, Numbered, Unreadable, Filled, FilledDisk
<1>5. Claimed'
  <2>1. \A v \in Volumes \ vouched' :
          /\ v \notin vouched /\ lineage'[v] = lineage[v]
          /\ db[v] \subseteq db'[v] /\ last'[v] = last[v]
    BY DEF disk
  <2>2. \A n \in Int : n \in DOMAIN objects' => n \in DOMAIN objects /\ objects'[n].data = objects[n].data
    BY <1>2
  <2>3. \A n \in Int : n \in DOMAIN objects /\ n \notin DOMAIN objects' => n = name
    BY <1>2
  <2> QED
    BY <2>1, <2>2, <2>3, ClaimedKept
<1> QED
  BY <1>1, <1>3, <1>4, <1>5

LEMMA TickCleanupProves ==
  ASSUME TypeInv, ProofInv, TickCleanup
  PROVE  ProofInv'
<1>1. /\ job.pc = "cleanup" /\ job' = Idle /\ mode = "serving"
      /\ UNCHANGED <<manifest, stamps, disk, boot, vouched>>
      /\ objects' = objects \/ objects' = Without(job.name)
  BY DEF TickCleanup, ProofInv, TickServes
<1>2. stamps' \in Nat /\ stamps <= stamps' /\ UNCHANGED <<lineage, cands>>
  BY <1>1 DEF disk, boot, TypeInv, TypeOK, BucketOK
<1>3. CASE objects' = objects
  <2>1. UNCHANGED <<bucket, disk, boot, vouched>>
    BY <1>1, <1>3 DEF bucket
  <2> QED
    BY <1>1, <1>2, <2>1, IdleEnds, JobStepKeeps DEF ProofInv, Named, Numbered, Filled
<1>4. CASE objects' = Without(job.name)
  <2>1. \A v \in Volumes \ vouched : lineage[v] # LegacyName(job.name)
    BY DEF ProofInv, Named, NamedLineages, LegacyName
  <2>2. ASSUME NEW v \in Volumes \ vouched, NEW e \in Newest(manifest.entries), Owns(v, e),
               e.name = job.name
        PROVE  FALSE
    <3>1. e \in manifest.entries /\ e.gen = job.gen
      BY <1>1, <2>2 DEF Newest, ProofInv, Ticking, Fresh
    <3>2. lineage[v] = Generation(job.gen)
      BY <2>1, <2>2, <3>1 DEF Owns
    <3>3. lineage[v].kind = "gen" /\ lineage[v].n = job.gen /\ job.gen \in Nat
      BY <3>2 DEF Generation, TypeInv, TypeOK, JobOK
    <3> QED
      BY <1>1, <3>3 DEF ProofInv, Numbered, Recorded
  <2> QED
    BY <1>1, <1>2, <1>4, <2>1, <2>2, IdleEnds, WithoutProves DEF ProofInv, Named, Numbered, Filled
<1> QED
  BY <1>1, <1>3, <1>4

LEMMA TickRecordProves ==
  ASSUME TypeInv, ProofInv, TickRecord
  PROVE  ProofInv'
<1>1. /\ job.pc = "record" /\ mode = "serving" /\ WriteLineage(Generation(job.gen))
      /\ vouched' = vouched \ {vol} /\ job' = [job EXCEPT !.pc = "retain"]
      /\ UNCHANGED <<bucket, db, last, boot>>
  BY DEF TickRecord, ProofInv, TickServes
<1>2. /\ job'.pc = "retain" /\ job'.man = job.man /\ job'.evicted = job.evicted
      /\ job'.gen = job.gen /\ job'.name = job.name /\ job'.data = job.data
  BY <1>1 DEF TypeInv, TypeOK, JobOK
<1>3. /\ \A v \in Volumes : v # vol => lineage'[v] = lineage[v]
      /\ lineage'[vol] \in {lineage[vol], Generation(job.gen), NoLineage}
      /\ vol \in Volumes
  BY <1>1, WriteShape DEF TypeInv, TypeOK, BootOK
<1>4. /\ manifest.state # "absent"
      /\ manifest.state = "ok" => [gen |-> job.gen, name |-> job.name] \in manifest.entries
      /\ \A e \in Newest(manifest.entries) : e.gen = job.gen /\ e.name = job.name
      /\ job.name \notin Names(job.evicted)
  BY <1>1 DEF ProofInv, Ticking, PushedNewest
<1>5. NamedObjects' /\ NamedEntries' /\ NamedJob'
  BY <1>1, <1>2 DEF bucket, boot, ProofInv, Named, NamedObjects, NamedEntries, NamedJob, StampedName
<1>6. NamedLineages'
  BY <1>1, <1>2, <1>3
     DEF bucket, ProofInv, Named, NamedLineages, StampedName, NoLineage, Generation
<1>7. Unique' /\ Unreadable' /\ NextGen'
  BY <1>1, <1>2 DEF bucket, boot, ProofInv, Numbered, Unique, Unreadable, NextGen
<1>8. Recorded'
  <2>1. manifest.state = "ok" => job.gen <= Latest(manifest.entries)
    <3> SUFFICES ASSUME manifest.state = "ok" PROVE job.gen <= Latest(manifest.entries)
      OBVIOUS
    <3>1. PICK e \in manifest.entries : e.gen = job.gen
      BY <1>4
    <3>2. /\ manifest.entries # {} /\ Bounded(manifest.entries)
          /\ \A f \in manifest.entries : f.gen \in Nat \ {0}
      BY <3>1 DEF TypeInv, TypeOK, BucketOK, Finite, BucketFinite, Entry
    <3> QED
      BY <3>1, <3>2, LatestIsGreatest
  <2> QED
    BY <1>1, <1>2, <1>3, <1>4, <2>1
       DEF bucket, ProofInv, Numbered, Recorded, NoLineage, Generation
<1>9. FilledObjects' /\ FilledDisk' /\ FilledJob'
  BY <1>1, <1>2 DEF bucket, ProofInv, Filled, FilledObjects, FilledDisk, FilledJob
<1>10. \A v, n : Backs(v, n) => Backs(v, n)'
  BY <1>1 DEF bucket, Backs
<1>11. Backs(vol, job.name)
  BY <1>1 DEF ProofInv, Ticking, Dumped, Backs
<1>12. Claimed'
  <2>1. ClaimedByName'
    BY <1>1, <1>4 DEF bucket, ClaimedByName
  <2>2. ClaimedNewest'
    <3> SUFFICES ASSUME NEW v \in Volumes \ vouched', NEW e \in Newest(manifest.entries), Owns(v, e)'
                 PROVE  Backs(v, e.name)'
      BY <1>1 DEF ClaimedNewest, bucket
    <3>1. CASE v = vol
      BY <3>1, <1>4, <1>10, <1>11
    <3>2. CASE v # vol
      <4>1. v \in Volumes \ vouched /\ Owns(v, e)
        BY <3>2, <1>1, <1>3 DEF Owns
      <4> QED
        BY <4>1, <1>10 DEF ProofInv, Claimed, ClaimedNewest
    <3> QED
      BY <3>1, <3>2
  <2> QED
    BY <2>1, <2>2 DEF Claimed
<1>13. TickServes' /\ Importing'
  BY <1>1 DEF boot, TickServes, Importing
<1>14. Guarded' /\ Fresh'
  BY <1>2 DEF Guarded, Fresh
<1>15. Dumped'
  BY <1>1, <1>2 DEF bucket, boot, ProofInv, Ticking, Dumped
<1>16. PushedNewest'
  BY <1>1, <1>2, <1>4 DEF bucket, PushedNewest
<1> QED
  BY <1>5, <1>6, <1>7, <1>8, <1>9, <1>12, <1>13, <1>14, <1>15, <1>16
     DEF ProofInv, Named, Numbered, Filled, Ticking

LEMMA TickRetainProves ==
  ASSUME TypeInv, ProofInv, TickRetain
  PROVE  ProofInv'
<1>1. /\ job.pc = "retain" /\ mode = "serving"
      /\ job' = [job EXCEPT !.pc = "prune"]
      /\ UNCHANGED <<bucket, db, lineage, boot, vouched>>
      /\ last' = last \/ last' = [last EXCEPT ![vol] = Dump(job.data)]
  BY DEF TickRetain, ProofInv, TickServes
<1>2. /\ job'.pc = "prune" /\ job'.man = job.man /\ job'.evicted = job.evicted
      /\ job'.gen = job.gen /\ job'.name = job.name /\ job'.data = job.data
  BY <1>1 DEF TypeInv, TypeOK, JobOK
<1>3. /\ manifest.state # "absent"
      /\ manifest.state = "ok" => [gen |-> job.gen, name |-> job.name] \in manifest.entries
      /\ \A e \in Newest(manifest.entries) : e.gen = job.gen /\ e.name = job.name
      /\ job.name \notin Names(job.evicted)
  BY <1>1 DEF ProofInv, Ticking, PushedNewest
<1>4. /\ last[vol].data \subseteq job.data /\ job.data \subseteq db[vol]
      /\ IF job.name \in DOMAIN objects
         THEN objects[job.name].data = job.data ELSE "lose" \in Faults
  BY <1>1 DEF ProofInv, Ticking, Dumped
<1>5. /\ vol \in Volumes /\ last \in [Volumes -> [kind : {"none", "dump"}, data : SUBSET Nat]]
  BY DEF TypeInv, TypeOK, DiskOK, BootOK
<1>6. /\ \A v \in Volumes : v # vol => last'[v] = last[v]
      /\ last'[vol].data \subseteq job.data
  BY <1>1, <1>4, <1>5 DEF Dump
<1>7. Named'
  BY <1>1, <1>2 DEF bucket, boot, ProofInv, Named, NamedObjects, NamedEntries, NamedLineages,
                    NamedJob, StampedName
<1>8. Numbered'
  BY <1>1, <1>2 DEF bucket, boot, ProofInv, Numbered, Unique, Unreadable, Recorded, NextGen
<1>9. FilledObjects' /\ FilledJob'
  BY <1>1, <1>2 DEF bucket, ProofInv, Filled, FilledObjects, FilledJob
<1>10. FilledDisk'
  <2>1. \A v \in Volumes : last'[v].data \subseteq db[v]
    BY <1>4, <1>6 DEF ProofInv, Filled, FilledDisk
  <2> QED
    BY <1>1, <1>3, <2>1 DEF bucket, ProofInv, Filled, FilledDisk
<1>11. Claimed'
  <2>1. ClaimedByName'
    BY <1>1, <1>3 DEF bucket, ClaimedByName
  <2>2. ClaimedNewest'
    <3> SUFFICES ASSUME NEW v \in Volumes \ vouched, NEW e \in Newest(manifest.entries), Owns(v, e)
                 PROVE  Backs(v, e.name)'
      BY <1>1 DEF ClaimedNewest, bucket, Owns
    <3>1. CASE v = vol
      BY <3>1, <1>1, <1>3, <1>4, <1>6 DEF bucket, Backs
    <3>2. CASE v # vol
      BY <3>2, <1>1, <1>6 DEF bucket, Backs, ProofInv, Claimed, ClaimedNewest
    <3> QED
      BY <3>1, <3>2
  <2> QED
    BY <2>1, <2>2 DEF Claimed
<1>12. TickServes' /\ Importing'
  BY <1>1 DEF boot, TickServes, Importing
<1>13. Guarded' /\ Fresh' /\ Dumped'
  BY <1>2 DEF Guarded, Fresh, Dumped
<1>14. PushedNewest'
  BY <1>1, <1>2, <1>3 DEF bucket, PushedNewest
<1> QED
  BY <1>7, <1>8, <1>9, <1>10, <1>11, <1>12, <1>13, <1>14 DEF ProofInv, Filled, Ticking

LEMMA TickPruneProves ==
  ASSUME TypeInv, ProofInv, TickPrune
  PROVE  ProofInv'
<1>1. /\ job.pc = "prune" /\ mode = "serving"
      /\ UNCHANGED <<manifest, stamps, disk, boot, vouched>>
  BY DEF TickPrune, ProofInv, TickServes
<1>2. CASE job' = Idle /\ objects' = objects
  <2>1. stamps' \in Nat /\ stamps <= stamps' /\ UNCHANGED <<lineage, cands>>
    BY <1>1 DEF disk, boot, TypeInv, TypeOK, BucketOK
  <2>2. UNCHANGED <<bucket, disk, boot, vouched>>
    BY <1>1, <1>2 DEF bucket
  <2> QED
    BY <1>1, <1>2, <2>1, <2>2, IdleEnds, JobStepKeeps DEF ProofInv, Named, Numbered, Filled
<1>3. CASE \E e \in job.evicted :
             /\ job' = [job EXCEPT !.evicted = @ \ {e}]
             /\ objects' = objects \/ objects' = Without(e.name)
  <2>1. PICK e \in job.evicted : /\ job' = [job EXCEPT !.evicted = @ \ {e}]
                                 /\ objects' = objects \/ objects' = Without(e.name)
    BY <1>3
  <2>2. /\ job'.pc = "prune" /\ job'.man = job.man /\ job'.evicted \subseteq job.evicted
        /\ job'.gen = job.gen /\ job'.name = job.name /\ job'.data = job.data
    BY <1>1, <2>1 DEF TypeInv, TypeOK, JobOK
  <2>3. /\ manifest.state # "absent"
        /\ manifest.state = "ok" => [gen |-> job.gen, name |-> job.name] \in manifest.entries
        /\ \A f \in Newest(manifest.entries) : f.gen = job.gen /\ f.name = job.name
        /\ job.name \notin Names(job.evicted)
    BY <1>1 DEF ProofInv, Ticking, PushedNewest
  <2>4. /\ TickServes' /\ NamedObjects' /\ Unreadable' /\ FilledObjects' /\ FilledDisk'
        /\ Claimed' /\ Importing'
    <3>1. CASE objects' = objects
      <4>1. UNCHANGED <<bucket, disk, boot, vouched>>
        BY <1>1, <3>1 DEF bucket
      <4> QED
        BY <1>1, <4>1, JobStepKeeps
    <3>2. CASE objects' = Without(e.name)
      <4>1. \A f \in Newest(manifest.entries) : f.name # e.name
        BY <2>3 DEF Names
      <4> QED
        BY <1>1, <3>2, <4>1, <2>3, WithoutProves
    <3> QED
      BY <2>1, <3>1, <3>2
  <2>5. NamedEntries' /\ NamedLineages' /\ NamedJob'
    BY <1>1, <2>2 DEF disk, boot, ProofInv, Named, NamedEntries, NamedLineages, NamedJob, StampedName
  <2>6. Unique' /\ Recorded' /\ NextGen' /\ FilledJob'
    BY <1>1, <2>2 DEF disk, boot, ProofInv, Numbered, Unique, Recorded, NextGen, FilledJob
  <2>7. Guarded' /\ Fresh' /\ Dumped'
    BY <2>2 DEF Guarded, Fresh, Dumped
  <2>8. PushedNewest'
    BY <1>1, <2>2, <2>3 DEF PushedNewest, Names
  <2> QED
    BY <2>4, <2>5, <2>6, <2>7, <2>8 DEF ProofInv, Named, Numbered, Filled, Ticking
<1> QED
  BY <1>2, <1>3 DEF TickPrune

-----------------------------------------------------------------------------
(* The vault, the container's end, and the world outside.                  *)

LEMMA CommitProves ==
  ASSUME TypeInv, ProofInv, Commit
  PROVE  ProofInv'
<1>1. /\ mode = "serving" /\ db' = [db EXCEPT ![vol] = @ \union {commits + 1}]
      /\ UNCHANGED <<bucket, lineage, last, boot, job, vouched>>
  BY DEF Commit
<1>2. vol \in Volumes /\ db \in [Volumes -> SUBSET Nat] /\ commits \in Nat
  BY DEF TypeInv, TypeOK, DiskOK, BootOK, AuxOK
<1>3. \A v \in Volumes : db[v] \subseteq db'[v]
  BY <1>1, <1>2
<1>4. Named' /\ Numbered'
  BY <1>1 DEF bucket, boot, ProofInv, Named, NamedObjects, NamedEntries, NamedLineages, NamedJob,
              StampedName, Numbered, Unique, Unreadable, Recorded, NextGen
<1>5. Filled'
  <2>1. FilledObjects' /\ FilledJob'
    <3>1. db'[vol] # {}
      BY <1>1, <1>2
    <3> QED
      BY <1>1, <3>1 DEF bucket, boot, ProofInv, Filled, FilledObjects, FilledJob
  <2>2. \A v \in vouched : db'[v] # {}
    <3>1. \A v \in vouched : v \in Volumes /\ db[v] # {}
      BY DEF TypeInv, TypeOK, AuxOK, ProofInv, Filled, FilledDisk
    <3> QED
      BY <1>3, <3>1
  <2>3. \A v \in Volumes : last[v].data \subseteq db'[v]
    BY <1>3 DEF ProofInv, Filled, FilledDisk
  <2>4. FilledDisk'
    BY <1>1, <2>2, <2>3 DEF bucket, ProofInv, Filled, FilledDisk
  <2> QED
    BY <2>1, <2>4 DEF Filled
<1>6. Claimed'
  BY <1>1, <1>3, ClaimedKept DEF bucket
<1>7. TickServes' /\ Importing'
  BY <1>1 DEF boot, TickServes, Importing
<1>8. Guarded'
  BY <1>1, <1>2, <1>3 DEF bucket, boot, ProofInv, Ticking, Guarded, Backs
<1>9. Dumped'
  BY <1>1, <1>2, <1>3 DEF bucket, boot, ProofInv, Ticking, Dumped
<1>10. Fresh' /\ PushedNewest'
  BY <1>1 DEF bucket, ProofInv, Ticking, Fresh, PushedNewest
<1> QED
  BY <1>4, <1>5, <1>6, <1>7, <1>8, <1>9, <1>10 DEF ProofInv, Ticking

(* The container stops or dies, or is started again.                       *)
LEMMA LifeProves ==
  ASSUME TypeInv, ProofInv, Boot \/ Stop \/ Crash
  PROVE  ProofInv'
<1>1. /\ UNCHANGED <<bucket, disk, vouched>> /\ cands' \subseteq cands
      /\ mode' \in {"adopt", "down"}
      /\ job' = job \/ job' = Idle
  BY DEF Boot, Stop, Crash, aux, boot
<1>2. job'.pc = "idle"
  BY DEF Boot, Stop, Crash, ProofInv, TickServes, Idle
<1>3. Importing' /\ Unreadable' /\ FilledDisk'
  <2>1. Importing'
    BY <1>1 DEF Importing
  <2>2. Unreadable'
    BY <1>1 DEF bucket, ProofInv, Numbered, Unreadable
  <2>3. FilledDisk'
    BY <1>1 DEF bucket, disk, ProofInv, Filled, FilledDisk
  <2> QED
    BY <2>1, <2>2, <2>3
<1>4. NamedObjects' /\ FilledObjects'
  BY <1>1 DEF bucket, ProofInv, Named, NamedObjects, StampedName, Filled, FilledObjects
<1>5. Claimed'
  BY <1>1, ClaimedKept DEF bucket, disk
<1>6. TickServes' /\ Ticking' /\ NextGen' /\ FilledJob'
  BY <1>2, IdleKeeps
<1>7. NamedEntries' /\ NamedLineages' /\ NamedJob' /\ Unique' /\ Recorded'
  <2>1. CASE job' = Idle
    <3>1. stamps' \in Nat /\ stamps <= stamps' /\ UNCHANGED <<manifest, lineage>>
      BY <1>1 DEF bucket, disk, TypeInv, TypeOK, BucketOK
    <3> QED
      BY <1>1, <2>1, <3>1, IdleEnds
  <2>2. CASE job' = job
    <3>1. NamedEntries' /\ NamedLineages' /\ NamedJob'
      BY <1>1, <2>2 DEF bucket, disk, ProofInv, Named, NamedEntries, NamedLineages, NamedJob,
                        StampedName
    <3>2. Unique' /\ Recorded'
      BY <1>1, <2>2 DEF bucket, disk, ProofInv, Numbered, Unique, UniqueGens, Recorded
    <3> QED
      BY <3>1, <3>2
  <2> QED
    BY <1>1, <2>1, <2>2
<1> QED
  BY <1>3, <1>4, <1>5, <1>6, <1>7 DEF ProofInv, Named, Numbered, Filled

LEMMA WipeProves ==
  ASSUME TypeInv, ProofInv, NEW w \in Volumes, Wipe(w)
  PROVE  ProofInv'
<1>1. /\ mode = "down" /\ UNCHANGED <<bucket, boot, job>>
      /\ db' = [db EXCEPT ![w] = {}] /\ lineage' = [lineage EXCEPT ![w] = NoLineage]
      /\ last' = [last EXCEPT ![w] = NoDump] /\ vouched' = vouched \ {w}
  BY DEF Wipe
<1>2. /\ job.pc = "idle" /\ db \in [Volumes -> SUBSET Nat] /\ vouched \in SUBSET Volumes
      /\ lineage \in [Volumes -> [kind : {"none", "gen", "name"}, n : Int]]
      /\ last \in [Volumes -> [kind : {"none", "dump"}, data : SUBSET Nat]]
  BY <1>1 DEF ProofInv, TickServes, TypeInv, TypeOK, DiskOK, AuxOK
<1>3. /\ \A v \in Volumes : v # w => db'[v] = db[v] /\ lineage'[v] = lineage[v] /\ last'[v] = last[v]
      /\ db'[w] = {} /\ lineage'[w] = NoLineage /\ last'[w].data = {}
  BY <1>1, <1>2 DEF NoDump
<1>4. NamedObjects' /\ NamedEntries' /\ NamedJob'
  BY <1>1 DEF bucket, boot, ProofInv, Named, NamedObjects, NamedEntries, NamedJob, StampedName
<1>5. NamedLineages' /\ Recorded'
  BY <1>1, <1>3 DEF bucket, NoLineage, ProofInv, Named, NamedLineages, StampedName, Numbered, Recorded
<1>6. Unique' /\ Unreadable' /\ FilledObjects'
  BY <1>1 DEF bucket, boot, ProofInv, Numbered, Unique, Unreadable, Filled, FilledObjects
<1>7. FilledDisk'
  <2>1. \A v \in vouched' : v # w /\ v \in vouched /\ v \in Volumes
    BY <1>1, <1>2
  <2>2. \A v \in vouched' : db'[v] # {}
    BY <2>1, <1>3 DEF ProofInv, Filled, FilledDisk
  <2>3. \A v \in Volumes : last'[v].data \subseteq db'[v]
    BY <1>3 DEF ProofInv, Filled, FilledDisk
  <2>4. manifest'.state = "absent" => \A v \in Volumes : last'[v].data = {}
    BY <1>1, <1>3 DEF bucket, ProofInv, Filled, FilledDisk
  <2> QED
    BY <2>2, <2>3, <2>4 DEF FilledDisk
<1>8. \A v \in Volumes : \A n : v # w /\ Backs(v, n) => Backs(v, n)'
  BY <1>1, <1>3 DEF bucket, Backs
<1>9. ClaimedByName'
  <2> SUFFICES ASSUME manifest.state = "absent", NEW v \in Volumes \ vouched',
                      NEW n, n = lineage'[v].n, lineage'[v].kind = "name"
               PROVE  Backs(v, n)'
    BY <1>1 DEF bucket, ClaimedByName
  <2>1. v # w /\ v \notin vouched /\ lineage'[v] = lineage[v]
    BY <1>1, <1>3 DEF NoLineage
  <2> QED
    BY <2>1, <1>8 DEF ProofInv, Claimed, ClaimedByName
<1>10. ClaimedNewest'
  <2> SUFFICES ASSUME NEW v \in Volumes \ vouched', NEW e \in Newest(manifest.entries), Owns(v, e)'
               PROVE  Backs(v, e.name)'
    BY <1>1 DEF bucket, ClaimedNewest
  <2>1. v # w
    BY <1>3 DEF Owns, NoLineage, Generation, LegacyName
  <2>2. v \notin vouched /\ Owns(v, e)
    BY <2>1, <1>1, <1>3 DEF Owns
  <2> QED
    BY <2>1, <2>2, <1>8 DEF ProofInv, Claimed, ClaimedNewest
<1>11. Importing'
  BY <1>1 DEF boot, Importing
<1>12. TickServes' /\ Ticking' /\ NextGen' /\ FilledJob'
  BY <1>1, <1>2, IdleKeeps
<1> QED
  BY <1>4, <1>5, <1>6, <1>7, <1>9, <1>10, <1>11, <1>12 DEF ProofInv, Named, Numbered, Filled, Claimed

(* A dump is damaged or deleted by somebody else.                          *)
LEMMA DamageProves ==
  ASSUME TypeInv, ProofInv, NEW m \in DOMAIN objects, CorruptObject(m) \/ LoseObject(m)
  PROVE  ProofInv'
<1>1. UNCHANGED <<manifest, stamps, disk, boot, job, vouched>>
  BY DEF CorruptObject, LoseObject
<1>2. /\ \A n \in DOMAIN objects' : n \in DOMAIN objects /\ objects'[n].data = objects[n].data
      /\ \A n \in DOMAIN objects : n \in DOMAIN objects' \/ "lose" \in Faults
  <2>1. CASE CorruptObject(m)
    <3>1. objects' = [objects EXCEPT ![m].good = FALSE] /\ objects[m] \in [data : SUBSET Nat, good : BOOLEAN]
      BY <2>1 DEF CorruptObject, TypeInv, TypeOK, BucketOK
    <3> QED
      BY <3>1
  <2>2. CASE LoseObject(m)
    BY <2>2 DEF LoseObject, Without, Fault
  <2> QED
    BY <2>1, <2>2
<1>3. \A v, n : Backs(v, n) => Backs(v, n)'
  BY <1>1, <1>2 DEF disk, Backs
<1>4. Named'
  BY <1>1, <1>2 DEF disk, boot, ProofInv, Named, NamedObjects, NamedEntries, NamedLineages,
                    NamedJob, StampedName
<1>5. Numbered'
  BY <1>1 DEF disk, boot, ProofInv, Numbered, Unique, Unreadable, Recorded, NextGen
<1>6. Filled'
  BY <1>1, <1>2 DEF disk, boot, ProofInv, Filled, FilledObjects, FilledJob, FilledDisk
<1>7. Claimed'
  BY <1>1, <1>3 DEF disk, ProofInv, Claimed, ClaimedByName, ClaimedNewest, Owns
<1>8. TickServes' /\ Importing'
  <2>1. Candidate' = Candidate
    BY <1>1 DEF boot, Candidate
  <2> QED
    BY <1>1, <1>3, <2>1 DEF boot, ProofInv, TickServes, Importing
<1>9. Guarded'
  BY <1>1, <1>3 DEF boot, ProofInv, Ticking, Guarded
<1>10. Dumped'
  BY <1>1, <1>2 DEF disk, boot, ProofInv, Ticking, Dumped
<1>11. Fresh' /\ PushedNewest'
  BY <1>1 DEF ProofInv, Ticking, Fresh, PushedNewest
<1> QED
  BY <1>4, <1>5, <1>6, <1>7, <1>8, <1>9, <1>10, <1>11 DEF ProofInv, Ticking

LEMMA GarbleProves ==
  ASSUME TypeInv, ProofInv, GarbleManifest
  PROVE  ProofInv'
<1>1. /\ UNCHANGED <<objects, stamps, disk, boot, job, vouched>>
      /\ manifest' = [state |-> "garbled", entries |-> {}] /\ manifest.state = "ok"
  BY DEF GarbleManifest
<1>2. manifest'.state = "garbled" /\ manifest'.entries = {}
  BY <1>1
<1>3. Named'
  BY <1>1, <1>2 DEF disk, boot, ProofInv, Named, NamedObjects, NamedEntries, NamedLineages,
                    NamedJob, StampedName
<1>4. Numbered'
  BY <1>1, <1>2 DEF disk, boot, ProofInv, Numbered, Unique, UniqueGens, Unreadable, Recorded, NextGen
<1>5. Filled'
  BY <1>1, <1>2 DEF disk, boot, ProofInv, Filled, FilledObjects, FilledJob, FilledDisk
<1>6. Newest(manifest.entries)' = {}
  BY <1>2 DEF Newest
<1>7. Claimed'
  BY <1>2, <1>6 DEF Claimed, ClaimedByName, ClaimedNewest
<1>8. \A v, n : Backs(v, n) => Backs(v, n)'
  BY <1>1 DEF disk, Backs
<1>9. TickServes' /\ Importing'
  <2>1. Candidate' = Candidate
    BY <1>1 DEF boot, Candidate
  <2> QED
    BY <1>1, <1>2, <1>8, <2>1 DEF boot, ProofInv, TickServes, Importing
<1>10. Guarded'
  BY <1>1, <1>8 DEF boot, ProofInv, Ticking, Guarded
<1>11. Dumped' /\ Fresh'
  BY <1>1, <1>2 DEF disk, boot, ProofInv, Ticking, Dumped, Fresh, Names
<1>12. PushedNewest'
  BY <1>1, <1>2, <1>6 DEF ProofInv, Ticking, PushedNewest
<1> QED
  BY <1>3, <1>4, <1>5, <1>7, <1>9, <1>10, <1>11, <1>12 DEF ProofInv, Ticking

-----------------------------------------------------------------------------
(* The invariant.                                                          *)

LEMMA ProofInit == Init => ProofInv
<1> SUFFICES ASSUME Init PROVE ProofInv
  OBVIOUS
<1>1. PICK k \in 0..LegacyDumps, v0 \in Volumes :
        /\ objects = [n \in 1..k |-> [data |-> 1..n, good |-> TRUE]]
        /\ manifest = [state |-> "absent", entries |-> {}]
        /\ stamps = k
        /\ db = [v \in Volumes |-> IF v = v0 THEN 1..k ELSE {}]
        /\ lineage = [v \in Volumes |-> IF v = v0 /\ k > 0 THEN LegacyName(k) ELSE NoLineage]
        /\ last = [v \in Volumes |-> NoDump]
        /\ mode = "down" /\ cands = {} /\ job = Idle /\ vouched = {}
  BY DEF Init
<1>2. /\ k \in Nat /\ job.pc = "idle" /\ job.name = 0 /\ job.man = {}
      /\ manifest.state = "absent" /\ manifest.entries = {}
  BY <1>1, BackupAssumption DEF Idle
<1>3. /\ DOMAIN objects = 1..k
      /\ \A n \in 1..k : objects[n].data = 1..n
      /\ \A v \in Volumes : last[v].data = {}
      /\ \A v \in Volumes : v # v0 => lineage[v] = NoLineage
      /\ lineage[v0] \in {LegacyName(k), NoLineage} /\ (lineage[v0] = LegacyName(k) => k > 0)
      /\ db[v0] = 1..k
  BY <1>1 DEF NoDump, NoLineage, LegacyName
<1>4. Named
  BY <1>1, <1>2, <1>3
     DEF Named, NamedObjects, NamedEntries, NamedLineages, NamedJob, StampedName, NoLineage, LegacyName
<1>5. Numbered
  <2>1. \A v \in Volumes : lineage[v].kind # "gen"
    BY <1>3 DEF NoLineage, LegacyName
  <2> QED
    BY <1>1, <1>2, <2>1 DEF Numbered, Unique, UniqueGens, Unreadable, Recorded, NextGen
<1>6. Filled
  <2>1. \A n \in 1..k : 1..n # {}
    BY <1>2
  <2> QED
    BY <1>1, <1>2, <1>3, <2>1 DEF Filled, FilledObjects, FilledJob, FilledDisk
<1>7. Claimed
  <2>1. ASSUME NEW v \in Volumes, lineage[v].kind = "name"
        PROVE  Backs(v, lineage[v].n)
    <3>1. v = v0 /\ lineage[v].n = k /\ k > 0
      BY <2>1, <1>3 DEF NoLineage, LegacyName
    <3>2. objects[k].data = 1..k /\ k \in DOMAIN objects /\ last[v].data = {}
      BY <3>1, <1>2, <1>3
    <3> QED
      BY <3>1, <3>2, <1>3 DEF Backs
  <2>2. Newest(manifest.entries) = {}
    BY <1>2 DEF Newest
  <2> QED
    BY <2>1, <2>2 DEF Claimed, ClaimedByName, ClaimedNewest
<1>8. TickServes /\ Importing /\ Ticking
  BY <1>1, <1>2 DEF TickServes, Importing, Ticking, Guarded, Dumped, Fresh, PushedNewest
<1> QED
  BY <1>4, <1>5, <1>6, <1>7, <1>8 DEF ProofInv

LEMMA ProofStutters ==
  ASSUME TypeInv, ProofInv, UNCHANGED vars
  PROVE  ProofInv'
<1>1. UNCHANGED <<bucket, disk, boot, job, vouched>>
  BY DEF vars, aux
<1>2. \A v, n : Backs(v, n) => Backs(v, n)'
  BY <1>1 DEF bucket, disk, Backs
<1>3. Named' /\ Numbered'
  BY <1>1 DEF bucket, disk, boot, ProofInv, Named, NamedObjects, NamedEntries, NamedLineages,
              NamedJob, StampedName, Numbered, Unique, Unreadable, Recorded, NextGen
<1>4. Filled'
  BY <1>1 DEF bucket, disk, boot, ProofInv, Filled, FilledObjects, FilledJob, FilledDisk
<1>5. Claimed'
  BY <1>1, ClaimedKept DEF bucket, disk
<1>6. TickServes' /\ Importing'
  <2>1. Candidate' = Candidate
    BY <1>1 DEF boot, Candidate
  <2> QED
    BY <1>1, <1>2, <2>1 DEF bucket, boot, ProofInv, TickServes, Importing
<1>7. Ticking'
  BY <1>1, <1>2 DEF bucket, disk, boot, ProofInv, Ticking, Guarded, Dumped, Fresh, PushedNewest
<1> QED
  BY <1>3, <1>4, <1>5, <1>6, <1>7 DEF ProofInv

(* Nobody empties the bucket.  A bucket that was cleared and filled again  *)
(* has a newest generation an older lineage can equal.                     *)
Uncleared == "clear" \notin Faults

LEMMA ProofStep ==
  ASSUME Uncleared, TypeInv, ProofInv, [Next]_vars
  PROVE  ProofInv'
<1>1. CASE BootStep
  BY <1>1, AdoptProves, RefusedProves, RestoreProves, ImportProves, RecordImportProves DEF BootStep
<1>2. CASE TickStep
  BY <1>2, TickGuardsProve, TickDumpProves, TickPutProves, TickPutFailsProves, TickPublishProves,
     TickPublishFailsProves, TickCleanupProves, TickRecordProves, TickRetainProves, TickPruneProves
     DEF TickStep
<1>3. CASE World
  <2>1. ~ClearBucket
    BY DEF ClearBucket, Fault, Uncleared
  <2> QED
    BY <1>3, <2>1, CommitProves, LifeProves, WipeProves, DamageProves, GarbleProves DEF World
<1>4. CASE UNCHANGED vars
  BY <1>4, ProofStutters
<1> QED
  BY <1>1, <1>2, <1>3, <1>4 DEF Next

LEMMA Proofs ==
  ASSUME Uncleared
  PROVE  Spec => [](TypeInv /\ ProofInv)
<1>1. TypeInv /\ ProofInv /\ [Next]_vars => ProofInv'
  BY ProofStep
<1> QED
  BY <1>1, InitType, NextType, ProofInit, PTL DEF Spec

-----------------------------------------------------------------------------
(* A volume that passes the shadow guard holds every commit of the newest  *)
(* backup, whichever volumes were booted, crashed, wiped and restored      *)
(* before, unless the operator vouched for it (lineage.rs:1-9) - for every *)
(* fault but the clearing of the bucket.                                   *)
THEOREM LineageProves ==
  ASSUME Uncleared
  PROVE  Spec => []LineageIsProof
<1>1. ASSUME TypeInv, ProofInv PROVE LineageIsProof
  <2> SUFFICES ASSUME NEW v \in Volumes \ vouched, Shown # {}, manifest.state # "garbled",
                      Proceeds(ResolveKnown(lineage[v], Shown), Latest(Shown)),
                      NEW e \in Newest(Shown), e.name \in DOMAIN objects
               PROVE  objects[e.name].data \subseteq db[v]
    BY DEF LineageIsProof, Covers
  <2>1. Backs(v, e.name)
    BY <1>1, GuardProves DEF Shown
  <2> QED
    BY <2>1 DEF Backs
<1>2. Spec => [](TypeInv /\ ProofInv)
  BY Proofs
<1>3. TypeInv /\ ProofInv => LineageIsProof
  BY <1>1
<1> QED
  BY <1>2, <1>3, PTL

(* A tick that skips its upload does so only when the newest backup is     *)
(* there and holds exactly what the database holds (unchanged.rs:1-11), on *)
(* a volume nobody vouched for - unless somebody clears the bucket or      *)
(* deletes dumps behind the supervisor's back.                             *)
THEOREM SkipsAreSafe ==
  ASSUME Uncleared, "lose" \notin Faults
  PROVE  Spec => []SkipOnlyWhenBackedUp
<1>1. ASSUME TypeInv, ProofInv PROVE SkipOnlyWhenBackedUp
  <2> SUFFICES ASSUME job.pc = "dump", last[vol] = Dump(db[vol]), vol \notin vouched,
                      NEW e \in Newest(job.man)
               PROVE  e.name \in DOMAIN objects /\ objects[e.name].data = db[vol]
    BY DEF SkipOnlyWhenBackedUp, Skips, UploadIsRedundant
  <2>1. Backs(vol, e.name)
    BY <1>1 DEF ProofInv, Ticking, Guarded
  <2>2. last[vol].data = db[vol]
    BY DEF Dump
  <2> QED
    BY <2>1, <2>2 DEF Backs
<1>2. Spec => [](TypeInv /\ ProofInv)
  BY Proofs
<1>3. TypeInv /\ ProofInv => SkipOnlyWhenBackedUp
  BY <1>1
<1> QED
  BY <1>2, <1>3, PTL

-----------------------------------------------------------------------------
(* No dump is empty, whatever happens.                                     *)
FillInv == TickServes /\ FilledObjects /\ FilledJob

LEMMA FillStep ==
  ASSUME TypeInv, FillInv, [Next]_vars
  PROVE  FillInv'
<1>0. /\ vol \in Volumes /\ db \in [Volumes -> SUBSET Nat] /\ commits \in Nat
      /\ job.pc # "idle" => mode = "serving"
      /\ \A n \in DOMAIN objects : objects[n].data # {}
      /\ job.pc = "dump" => db[vol] # {}
      /\ job.pc \in {"put", "publish"} => job.data # {}
  BY DEF TypeInv, TypeOK, BootOK, DiskOK, AuxOK, FillInv, TickServes, FilledObjects, FilledJob
<1>1. ASSUME job.pc = "idle", objects' = objects, job' = job
      PROVE  FillInv'
  BY <1>0, <1>1 DEF FillInv, TickServes, FilledObjects, FilledJob
<1>2. ASSUME job' = Idle, \A n \in DOMAIN objects' : objects'[n].data # {}
      PROVE  FillInv'
  BY <1>2 DEF Idle, FillInv, TickServes, FilledObjects, FilledJob
<1>3. ASSUME mode = "serving", UNCHANGED boot, \A n \in DOMAIN objects' : objects'[n].data # {},
             FilledJob'
      PROVE  FillInv'
  BY <1>3 DEF boot, FillInv, TickServes, FilledObjects
<1>4. ASSUME NEW n, NEW d, d # {}, objects' = Stored(n, d)
      PROVE  \A m \in DOMAIN objects' : objects'[m].data # {}
  BY <1>0, <1>4 DEF Stored
<1>5. ASSUME NEW n, objects' = Without(n)
      PROVE  \A m \in DOMAIN objects' : objects'[m].data # {}
  BY <1>0, <1>5 DEF Without
<1>6. CASE BootStep
  <2>1. mode # "serving" /\ objects' = objects /\ job' = job
    BY <1>6 DEF BootStep, AdoptLineage, AdoptFails, RestoreDb, RestoreRefused, Import,
       ImportInvalid, ImportRefused, RecordImport, bucket, aux
  <2> QED
    BY <2>1, <1>0, <1>1
<1>7. CASE TickGuards
  <2>1. /\ mode = "serving" /\ UNCHANGED <<boot, objects, db, vol>> /\ db[vol] # {}
        /\ job'.pc = "dump"
    BY <1>7 DEF TickGuards, bucket, disk, boot, Idle
  <2> QED
    BY <2>1, <1>0, <1>3 DEF FilledJob
<1>8. CASE TickDump \/ TickDumpFails
  <2>1. /\ job.pc = "dump" /\ UNCHANGED <<boot, objects, db>>
        /\ job' = Idle \/ job' = [job EXCEPT !.pc = "put", !.data = db[vol]]
    BY <1>8 DEF TickDump, TickDumpFails, bucket, disk
  <2>2. CASE job' = Idle
    BY <2>1, <2>2, <1>0, <1>2
  <2>3. CASE job' = [job EXCEPT !.pc = "put", !.data = db[vol]]
    <3>1. job'.pc = "put" /\ job'.data = db[vol]
      BY <2>3 DEF TypeInv, TypeOK, JobOK
    <3> QED
      BY <2>1, <3>1, <1>0, <1>3 DEF FilledJob
  <2> QED
    BY <2>1, <2>2, <2>3
<1>9. CASE TickPut
  <2>1. PICK n : /\ job.pc = "put" /\ objects' = Stored(n, job.data) /\ UNCHANGED boot
                 /\ job' = [job EXCEPT !.pc = "publish", !.name = n]
    BY <1>9 DEF TickPut
  <2>2. job'.pc = "publish" /\ job'.data = job.data
    BY <2>1 DEF TypeInv, TypeOK, JobOK
  <2> QED
    BY <2>1, <2>2, <1>0, <1>3, <1>4 DEF FilledJob
<1>10. CASE TickPutFails
  <2>1. /\ job.pc = "put" /\ job' = Idle
        /\ objects' = objects \/ objects' = Stored(stamps + 1, job.data)
    BY <1>10 DEF TickPutFails
  <2> QED
    BY <2>1, <1>0, <1>2, <1>4
<1>11. CASE TickPublish \/ TickPublishFails \/ TickRecord \/ TickRetain
  <2>1. /\ job.pc \in {"publish", "record", "retain"} /\ UNCHANGED <<objects, boot>>
        /\ job'.pc \in {"record", "cleanup", "retain", "prune"}
    BY <1>11 DEF TickPublish, TickPublishFails, TickRecord, TickRetain, bucket, TypeInv, TypeOK, JobOK
  <2> QED
    BY <2>1, <1>0, <1>3 DEF FilledJob
<1>12. CASE TickCleanup
  <2>1. /\ job' = Idle
        /\ objects' = objects \/ objects' = Without(job.name)
    BY <1>12 DEF TickCleanup
  <2> QED
    BY <2>1, <1>0, <1>2, <1>5
<1>13. CASE TickPrune
  <2>1. job.pc = "prune" /\ UNCHANGED boot
    BY <1>13 DEF TickPrune
  <2>2. CASE job' = Idle /\ objects' = objects
    BY <2>2, <1>0, <1>2
  <2>3. CASE \E e \in job.evicted :
               /\ job' = [job EXCEPT !.evicted = @ \ {e}]
               /\ objects' = objects \/ objects' = Without(e.name)
    <3>1. job'.pc = "prune"
      BY <2>1, <2>3 DEF TypeInv, TypeOK, JobOK
    <3>2. \A n \in DOMAIN objects' : objects'[n].data # {}
      BY <2>3, <1>0, <1>5
    <3> QED
      BY <2>1, <3>1, <3>2, <1>0, <1>3 DEF FilledJob
  <2> QED
    BY <1>13, <2>2, <2>3 DEF TickPrune
<1>14. CASE Commit
  <2>1. /\ mode = "serving" /\ UNCHANGED <<boot, objects, job, vol>>
        /\ db' = [db EXCEPT ![vol] = @ \union {commits + 1}]
    BY <1>14 DEF Commit, bucket, boot
  <2>2. db'[vol] # {}
    BY <2>1, <1>0
  <2>3. FilledJob'
    BY <2>1, <2>2, <1>0 DEF FilledJob
  <2> QED
    BY <2>1, <2>3, <1>0, <1>3
<1>15. CASE Boot \/ Stop \/ \E v \in Volumes : Wipe(v)
  <2>1. job.pc = "idle" /\ objects' = objects /\ job' = job
    BY <1>15, <1>0 DEF Boot, Stop, Wipe, bucket
  <2> QED
    BY <2>1, <1>1
<1>16. CASE Crash
  <2>1. job' = Idle /\ objects' = objects
    BY <1>16 DEF Crash, bucket
  <2> QED
    BY <2>1, <1>0, <1>2
<1>17. CASE GarbleManifest \/ ClearBucket \/ \E n \in DOMAIN objects : CorruptObject(n) \/ LoseObject(n)
  <2>1. /\ UNCHANGED <<mode, vol, db, job>>
    BY <1>17 DEF GarbleManifest, ClearBucket, CorruptObject, LoseObject, boot, disk
  <2>2. \A n \in DOMAIN objects' : objects'[n].data # {}
    <3>1. CASE GarbleManifest
      BY <3>1, <1>0 DEF GarbleManifest
    <3>2. CASE ClearBucket
      BY <3>2 DEF ClearBucket
    <3>3. ASSUME NEW n \in DOMAIN objects, CorruptObject(n)
          PROVE  \A m \in DOMAIN objects' : objects'[m].data # {}
      <4>1. /\ objects' = [objects EXCEPT ![n].good = FALSE]
            /\ objects[n] \in [data : SUBSET Nat, good : BOOLEAN]
        BY <3>3 DEF CorruptObject, TypeInv, TypeOK, BucketOK
      <4> QED
        BY <4>1, <1>0
    <3>4. ASSUME NEW n \in DOMAIN objects, LoseObject(n)
          PROVE  \A m \in DOMAIN objects' : objects'[m].data # {}
      BY <3>4, <1>5 DEF LoseObject
    <3> QED
      BY <1>17, <3>1, <3>2, <3>3, <3>4
  <2> QED
    BY <2>1, <2>2, <1>0 DEF FillInv, TickServes, FilledObjects, FilledJob
<1>18. CASE UNCHANGED vars
  BY <1>18, <1>0 DEF vars, bucket, disk, boot, FillInv, TickServes, FilledObjects, FilledJob
<1> QED
  BY <1>6, <1>7, <1>8, <1>9, <1>10, <1>11, <1>12, <1>13, <1>14, <1>15, <1>16, <1>17, <1>18
     DEF Next, TickStep, World

(* An empty database is never published as a backup (dump.rs:24-26),       *)
(* whatever the faults, a cleared bucket among them.                       *)
THEOREM NeverPublishesEmpty == Spec => []NoEmptyBackup
<1>1. Init => FillInv
  BY ProofInit DEF FillInv, ProofInv, Filled
<1>2. TypeInv /\ FillInv /\ [Next]_vars => FillInv'
  BY FillStep
<1>3. FillInv => NoEmptyBackup
  BY DEF FillInv, FilledObjects, NoEmptyBackup
<1> QED
  BY <1>1, <1>2, <1>3, InitType, NextType, PTL DEF Spec

-----------------------------------------------------------------------------
(* What a restore brings back.                                             *)

Entered(e) == [gen |-> e.gen, name |-> e.name, listed |-> FALSE]
Damaged(n) == n \in DOMAIN objects /\ ~objects[n].good

(* While a candidate of the manifest is left, every entry of the manifest  *)
(* is still to be tried or was found damaged.                              *)
Passed ==
  mode = "import" =>
    \A c \in cands : ~c.listed =>
      \A e \in manifest.entries : Entered(e) \in cands \/ Damaged(e.name)

(* What was imported is not empty.                                         *)
Brought == mode = "record" => db[vol] # {}

RestoreInv == FillInv /\ Passed /\ Brought

LEMMA PassedKept ==
  ASSUME RestoreInv, UNCHANGED <<mode, vol, db>>,
         mode = "import" => /\ cands' = cands /\ manifest'.entries \subseteq manifest.entries
                            /\ \A n : Damaged(n) => Damaged(n)'
  PROVE  Passed' /\ Brought'
  BY DEF RestoreInv, Passed, Brought, Entered

LEMMA RestoreStep ==
  ASSUME TypeInv, RestoreInv, [Next]_vars
  PROVE  Passed' /\ Brought'
<1>0. TickServes /\ FilledObjects
  BY DEF RestoreInv, FillInv
<1>1. ASSUME mode' \notin {"import", "record"} PROVE Passed' /\ Brought'
  BY <1>1 DEF Passed, Brought
<1>2. CASE AdoptLineage \/ AdoptFails \/ RestoreRefused \/ ImportRefused \/ RecordImport
             \/ Boot \/ Stop \/ Crash
  BY <1>1, <1>2 DEF AdoptLineage, AdoptFails, RestoreRefused, ImportRefused, RecordImport,
     Boot, Stop, Crash
<1>3. CASE RestoreDb
  <2>1. CASE mode' = "serving"
    BY <1>1, <2>1
  <2>2. CASE mode' # "serving"
    <3>1. PICK readable \in BOOLEAN : cands' = Candidates(readable)
      BY <1>3, <2>2 DEF RestoreDb
    <3>2. mode' = "import" /\ manifest' = manifest
      BY <1>3, <2>2 DEF RestoreDb, bucket
    <3>3. CASE readable /\ manifest.state = "ok"
      BY <3>1, <3>2, <3>3 DEF Candidates, Passed, Brought, Entered
    <3>4. CASE ~(readable /\ manifest.state = "ok")
      <4>1. \A c \in cands' : c.listed
        BY <3>1, <3>4 DEF Candidates
      <4> QED
        BY <3>2, <4>1 DEF Passed, Brought
    <3> QED
      BY <3>3, <3>4
  <2> QED
    BY <2>1, <2>2
<1>4. CASE Import
  <2>1. /\ Candidate.name \in DOMAIN objects /\ mode' = "record" /\ vol' = vol
        /\ db' = [db EXCEPT ![vol] = objects[Candidate.name].data]
    BY <1>4 DEF Import
  <2>2. objects[Candidate.name].data # {}
    BY <2>1, <1>0 DEF FilledObjects
  <2>3. db'[vol] # {}
    BY <2>1, <2>2 DEF TypeInv, TypeOK, DiskOK, BootOK
  <2> QED
    BY <2>1, <2>3 DEF Passed, Brought
<1>5. CASE ImportInvalid
  <2>1. /\ mode = "import" /\ mode' = mode /\ UNCHANGED <<objects, manifest>>
        /\ cands' = cands \ {Candidate} /\ Damaged(Candidate.name)
    BY <1>5 DEF ImportInvalid, bucket, Damaged
  <2> SUFFICES ASSUME NEW c \in cands', ~c.listed, NEW e \in manifest.entries
               PROVE  Entered(e) \in cands' \/ Damaged(e.name)
    BY <2>1 DEF Passed, Brought, Entered, Damaged
  <2>2. Entered(e) \in cands \/ Damaged(e.name)
    BY <2>1 DEF RestoreInv, Passed
  <2>3. Entered(e) = Candidate => e.name = Candidate.name
    BY DEF Entered
  <2> QED
    BY <2>1, <2>2, <2>3
<1>6. CASE TickStep \/ Commit
  <2>1. mode = "serving" /\ mode' = mode
    BY <1>0, <1>6 DEF TickStep, Commit, TickServes, TickGuards, TickDump, TickDumpFails, TickPut,
       TickPutFails, TickPublish, TickPublishFails, TickCleanup, TickRecord, TickRetain,
       TickPrune, boot
  <2> QED
    BY <2>1, <1>1
<1>7. CASE ClearBucket \/ \E v \in Volumes : Wipe(v)
  <2>1. mode' = "down"
    BY <1>7 DEF ClearBucket, Wipe, boot
  <2> QED
    BY <2>1, <1>1
<1>8. CASE GarbleManifest
  BY <1>8, PassedKept DEF GarbleManifest, boot, disk, Damaged
<1>9. ASSUME NEW n \in DOMAIN objects, CorruptObject(n) \/ LoseObject(n)
      PROVE  Passed' /\ Brought'
  <2>1. UNCHANGED <<mode, vol, db, cands, manifest>> /\ objects[n].good
    BY <1>9 DEF CorruptObject, LoseObject, boot, disk
  <2>2. ASSUME NEW m, Damaged(m) PROVE Damaged(m)'
    <3>1. CASE CorruptObject(n)
      <4>1. /\ objects' = [objects EXCEPT ![n].good = FALSE]
            /\ objects[n] \in [data : SUBSET Nat, good : BOOLEAN]
        BY <3>1 DEF CorruptObject, TypeInv, TypeOK, BucketOK
      <4> QED
        BY <4>1, <2>2 DEF Damaged
    <3>2. CASE LoseObject(n)
      <4>1. objects' = Without(n) /\ m # n
        BY <2>1, <2>2, <3>2 DEF LoseObject, Damaged
      <4> QED
        BY <4>1, <2>2 DEF Without, Damaged
    <3> QED
      BY <1>9, <3>1, <3>2
  <2> QED
    BY <2>1, <2>2, PassedKept
<1>10. CASE UNCHANGED vars
  BY <1>10, PassedKept DEF vars, bucket, boot, disk, Damaged
<1> QED
  BY <1>2, <1>3, <1>4, <1>5, <1>6, <1>7, <1>8, <1>9, <1>10 DEF Next, BootStep, World

LEMMA CandidateNewest ==
  ASSUME TypeInv, cands # {}
  PROVE  Candidate \in cands /\ \A c \in cands : c.gen <= Candidate.gen
<1>1. \A c \in cands : c.gen \in Nat \ {0}
  BY DEF TypeInv, TypeOK, BootOK
<1>2. \E c \in cands : \A d \in cands : d.gen <= c.gen
  BY <1>1, LatestIsGreatest DEF TypeInv, Finite, CandsFinite
<1> QED
  BY <1>2 DEF Candidate

LEMMA Restores == Spec => [](TypeInv /\ RestoreInv)
<1>1. Init => RestoreInv
  <2>1. Init => Passed /\ Brought
    BY DEF Init, Passed, Brought
  <2> QED
    BY <2>1, ProofInit DEF RestoreInv, FillInv, ProofInv, Filled
<1>2. TypeInv /\ RestoreInv /\ [Next]_vars => RestoreInv'
  BY FillStep, RestoreStep DEF RestoreInv
<1> QED
  BY <1>1, <1>2, InitType, NextType, PTL DEF Spec

(* A restore from the manifest passes over an entry only if its dump was    *)
(* fetched whole and proved damaged (restore.rs:1-7), under every fault.    *)
THEOREM RestoresTheNewest == Spec => RestoreNeverDowngrades
<1>1. ASSUME TypeInv, RestoreInv, [Next]_vars
      PROVE  [Imports /\ ~Candidate.listed =>
                \A e \in manifest.entries :
                  e.gen > Candidate.gen =>
                    e.name \in DOMAIN objects /\ ~objects[e.name].good]_vars
  <2> SUFFICES ASSUME Imports, ~Candidate.listed, NEW e \in manifest.entries,
                      e.gen > Candidate.gen, vars' # vars
               PROVE  Damaged(e.name)
    BY DEF Damaged
  <2>1. Import
    BY <1>1 DEF Imports, Next, BootStep, World, AdoptLineage, AdoptFails,
       RestoreDb, RestoreRefused, Import, ImportInvalid, ImportRefused, RecordImport,
       TickStep, Commit, TickGuards, TickDump, TickDumpFails, TickPut,
       TickPutFails, TickPublish, TickPublishFails, TickCleanup, TickRecord, TickRetain,
       TickPrune, Boot, Stop, Crash, Wipe, CorruptObject, LoseObject, GarbleManifest,
       ClearBucket, boot
  <2>2. Candidate \in cands /\ \A c \in cands : c.gen <= Candidate.gen
    BY <1>1, <2>1, CandidateNewest DEF Import
  <2>3. Entered(e) \in cands \/ Damaged(e.name)
    BY <1>1, <2>2 DEF RestoreInv, Passed, Imports
  <2>4. Entered(e) \notin cands
    <3>1. Entered(e).gen = e.gen /\ e.gen \in Nat /\ Candidate.gen \in Nat
      BY <1>1, <2>2 DEF Entered, TypeInv, TypeOK, BucketOK, BootOK, Entry
    <3> QED
      BY <2>2, <3>1
  <2> QED
    BY <2>3, <2>4
<1> QED
  BY <1>1, Restores, PTL DEF Spec, RestoreNeverDowngrades

(* A boot asked to restore whose S3 settings build a client never begins   *)
(* to serve an empty database over backups, under every fault; only        *)
(* RestoreDb without a client does (restore.rs:44-52, 72-82).              *)
THEOREM NothingIsPassedOver == Spec => NeverFreshOverBackups
<1>1. ASSUME TypeInv, RestoreInv, [Next]_vars
      PROVE  [FreshOverBackups => ~usable]_vars
  <2> SUFFICES ASSUME mode # "serving", mode' = "serving", restore, db'[vol] = {}, usable
               PROVE  Effective = {} \/ DOMAIN objects = {}
    BY DEF FreshOverBackups
  <2>1. RestoreDb \/ RecordImport
    BY <1>1 DEF Next, BootStep, World, AdoptLineage, AdoptFails,
       RestoreDb, RestoreRefused, Import, ImportInvalid, ImportRefused, RecordImport,
       TickStep, Commit, TickGuards, TickDump, TickDumpFails, TickPut,
       TickPutFails, TickPublish, TickPublishFails, TickCleanup, TickRecord, TickRetain,
       TickPrune, Boot, Stop, Crash, Wipe, CorruptObject, LoseObject, GarbleManifest,
       ClearBucket, boot, vars
  <2>2. CASE RecordImport
    BY <1>1, <2>2 DEF RecordImport, RestoreInv, Brought
  <2>3. CASE RestoreDb
    <3>1. PICK readable \in BOOLEAN : Candidates(readable) = {}
      BY <2>3 DEF RestoreDb, disk
    <3>2. CASE readable /\ manifest.state = "ok"
      BY <3>1, <3>2 DEF Candidates, Effective
    <3>3. CASE ~(readable /\ manifest.state = "ok")
      <4>1. FromListing(DOMAIN objects) = {}
        BY <3>1, <3>3 DEF Candidates
      <4> QED
        BY <4>1 DEF FromListing
    <3> QED
      BY <3>2, <3>3
  <2> QED
    BY <2>1, <2>2, <2>3
<1> QED
  BY <1>1, Restores, PTL DEF Spec, NeverFreshOverBackups

-----------------------------------------------------------------------------
(* The backup keeps its promise.                                           *)

(* What the refinement needs of an instance: nobody meddles with the       *)
(* bucket, no restore is asked for over a database that is not empty, and  *)
(* the bound on commits covers what a pre-manifest bucket holds.           *)
Orderly ==
  /\ Unmeddled /\ Uncleared /\ "garble" \notin Faults
  /\ "any" \notin RestoreBoots
  /\ LegacyDumps <= MaxCommits

Unvouched == vouched = {} /\ (mode = "adopt" /\ restore => db[vol] = {})

(* Commits come from the vault alone.                                      *)
Within ==
  /\ \A v \in Volumes : db[v] \subseteq 1..MaxCommits
  /\ \A n \in DOMAIN objects : objects[n].data \subseteq 1..MaxCommits
  /\ job.pc \in {"put", "publish"} => job.data \subseteq 1..MaxCommits

(* The dump in hand holds every commit of the backup it will replace.      *)
Carried ==
  job.pc \in {"put", "publish"} =>
    \A e \in Newest(job.man) :
      e.name \in DOMAIN objects => objects[e.name].data \subseteq job.data

PushInv == Unvouched /\ Within /\ Carried

AllInv == TypeInv /\ DangleInv /\ ProofInv /\ PushInv

LEMMA UnvouchedStep ==
  ASSUME Orderly, TypeInv, ProofInv, Unvouched, [Next]_vars
  PROVE  Unvouched'
<1>1. CASE Boot
  <2>1. /\ restore' => db[vol'] = {}
        /\ db' = db /\ vouched' = vouched
    <3>1. PICK v \in Volumes, flag \in RestoreBoots :
            /\ flag = "empty" => db[v] = {}
            /\ vol' = v /\ restore' = (flag # "off")
      BY <1>1 DEF Boot
    <3>2. flag # "off" => flag = "empty"
      BY BackupAssumption DEF Orderly
    <3> QED
      BY <3>1, <3>2, <1>1 DEF Boot, disk, aux
  <2> QED
    BY <2>1 DEF Unvouched
<1>2. CASE AdoptLineage
  <2>1. mode = "adopt" /\ mode' = "restore" /\ vouched' = vouched
    BY <1>2 DEF AdoptLineage, Unvouched
  <2> QED
    BY <2>1 DEF Unvouched
<1>3. CASE BootStep /\ ~AdoptLineage
  <2>1. mode' # "adopt" /\ vouched' \subseteq vouched
    BY <1>3 DEF BootStep, AdoptFails, RestoreDb, RestoreRefused, Import, ImportInvalid,
       ImportRefused, RecordImport, aux
  <2> QED
    BY <2>1 DEF Unvouched
<1>4. CASE TickStep
  <2>1. mode = "serving"
    BY <1>4 DEF ProofInv, TickServes, TickStep, TickGuards, TickDump, TickDumpFails, TickPut,
       TickPutFails, TickPublish, TickPublishFails, TickCleanup, TickRecord, TickRetain, TickPrune
  <2>2. mode' = mode /\ vouched' \subseteq vouched
    BY <1>4 DEF TickStep, TickGuards, TickDump, TickDumpFails, TickPut, TickPutFails, TickPublish,
       TickPublishFails, TickCleanup, TickRecord, TickRetain, TickPrune, boot, aux
  <2> QED
    BY <2>1, <2>2 DEF Unvouched
<1>5. CASE Commit \/ Stop \/ Crash \/ \E v \in Volumes : Wipe(v)
  <2>1. mode' # "adopt" /\ vouched' \subseteq vouched
    BY <1>5 DEF Commit, Stop, Crash, Wipe, boot, aux
  <2> QED
    BY <2>1 DEF Unvouched
<1>6. CASE GarbleManifest \/ ClearBucket \/ \E n \in DOMAIN objects : CorruptObject(n) \/ LoseObject(n)
  <2>1. UNCHANGED <<mode, vol, restore, db, vouched>>
    BY <1>6 DEF GarbleManifest, ClearBucket, CorruptObject, LoseObject, boot, disk
  <2> QED
    BY <2>1 DEF Unvouched
<1>7. CASE UNCHANGED vars
  BY <1>7 DEF vars, disk, boot, aux, Unvouched
<1> QED
  BY <1>1, <1>2, <1>3, <1>4, <1>5, <1>6, <1>7 DEF Next, World

(* What the bucket shows as published stays as it is.                      *)
LEMMA PublishedKept ==
  ASSUME manifest' = manifest,
         \A e \in manifest.entries :
           /\ e.name \in DOMAIN objects' <=> e.name \in DOMAIN objects
           /\ e.name \in DOMAIN objects => objects'[e.name].data = objects[e.name].data
  PROVE  PublishedData' = PublishedData
<1> DEFINE found == {e \in Newest(manifest.entries) : e.name \in DOMAIN objects}
           later == {e \in Newest(manifest.entries) : e.name \in DOMAIN objects'}
<1>1. later = found /\ \A e \in found : objects'[e.name].data = objects[e.name].data
  BY DEF Newest
<1>2. PublishedData = UNION {objects[e.name].data : e \in found}
  BY DEF PublishedData
<1>3. PublishedData' = UNION {objects'[e.name].data : e \in later}
  BY DEF PublishedData
<1> HIDE DEF found, later
<1>4. {objects'[e.name].data : e \in later} = {objects[e.name].data : e \in found}
  BY <1>1
<1> QED
  BY <1>2, <1>3, <1>4

(* How a step that leaves the manifest alone may change the dumps, the     *)
(* databases and the tick.                                                 *)
Gentle ==
  /\ manifest' = manifest
  /\ \A n \in DOMAIN objects' : objects'[n].data \subseteq 1..MaxCommits
  /\ \A e \in manifest.entries :
       /\ e.name \in DOMAIN objects' <=> e.name \in DOMAIN objects
       /\ e.name \in DOMAIN objects => objects'[e.name].data = objects[e.name].data
  /\ \A v \in Volumes : db'[v] \subseteq 1..MaxCommits
  /\ job'.pc \in {"put", "publish"} =>
       /\ job'.data \subseteq 1..MaxCommits
       /\ \A e \in Newest(job'.man) :
            e.name \in DOMAIN objects' => objects'[e.name].data \subseteq job'.data

LEMMA GentleKeeps ==
  ASSUME Gentle
  PROVE  Within' /\ Carried' /\ PublishedData' = PublishedData
<1>1. Within'
  BY DEF Gentle, Within
<1>2. Carried'
  <2>1. Newest(job.man)' = Newest(job'.man)
    BY DEF Newest, Latest
  <2> QED
    BY <2>1 DEF Gentle, Carried
<1> QED
  BY <1>1, <1>2, PublishedKept DEF Gentle

(* Steps that add, take and rename no dump.                                *)
LEMMA SameDumpsGentle ==
  ASSUME Within, manifest' = manifest, objects' = objects,
         \A v \in Volumes : db'[v] \subseteq 1..MaxCommits,
         job'.pc \notin {"put", "publish"} \/ (job' = job /\ Carried)
  PROVE  Gentle
BY DEF Gentle, Within, Carried

LEMMA BootGentle ==
  ASSUME TypeInv, Within, Carried, BootStep
  PROVE  Gentle
<1>1. UNCHANGED <<manifest, objects, job>>
  BY DEF BootStep, AdoptLineage, AdoptFails, RestoreDb, RestoreRefused, Import, ImportInvalid,
     ImportRefused, RecordImport, bucket, aux
<1>2. CASE Import
  <2>1. /\ Candidate.name \in DOMAIN objects
        /\ db' = [db EXCEPT ![vol] = objects[Candidate.name].data]
        /\ db \in [Volumes -> SUBSET Nat]
    BY <1>2 DEF Import, TypeInv, TypeOK, DiskOK
  <2>2. \A v \in Volumes : db'[v] \subseteq 1..MaxCommits
    BY <2>1 DEF Within
  <2> QED
    BY <1>1, <2>2, SameDumpsGentle
<1>3. CASE ~Import
  <2>1. db' = db
    BY <1>3 DEF BootStep, AdoptLineage, AdoptFails, RestoreDb, RestoreRefused, ImportInvalid,
       ImportRefused, RecordImport, disk
  <2> QED
    BY <1>1, <2>1, SameDumpsGentle DEF Within
<1> QED
  BY <1>2, <1>3

LEMMA DumpGentle ==
  ASSUME AllInv, TickGuards \/ TickDump \/ TickDumpFails
  PROVE  Gentle
<1>1. UNCHANGED <<manifest, objects, db>> /\ Within
  BY DEF TickGuards, TickDump, TickDumpFails, bucket, disk, AllInv, PushInv
<1>2. CASE job'.pc \notin {"put", "publish"}
  BY <1>1, <1>2, SameDumpsGentle DEF Within
<1>3. CASE job.pc = "dump" /\ job' = [job EXCEPT !.pc = "put", !.data = db[vol]]
  <2>1. job'.pc = "put" /\ job'.data = db[vol] /\ job'.man = job.man
    BY <1>3 DEF AllInv, TypeInv, TypeOK, JobOK
  <2>2. vol \in Volumes /\ vol \notin vouched
    BY DEF AllInv, PushInv, Unvouched, TypeInv, TypeOK, BootOK
  <2>3. \A e \in Newest(job.man) : e.name \in DOMAIN objects => objects[e.name].data \subseteq db[vol]
    BY <1>3, <2>2 DEF AllInv, ProofInv, Ticking, Guarded, Backs
  <2> QED
    BY <1>1, <2>1, <2>2, <2>3 DEF Within, Gentle
<1>4. TickGuards \/ TickDumpFails => job'.pc \notin {"put", "publish"}
  <2>1. TickGuards => job'.pc = "dump"
    BY DEF TickGuards, Idle
  <2>2. TickDumpFails => job'.pc = "idle"
    BY DEF TickDumpFails, Idle
  <2> QED
    BY <2>1, <2>2
<1>5. TickDump => job' = Idle \/ (job.pc = "dump" /\ job' = [job EXCEPT !.pc = "put", !.data = db[vol]])
  BY DEF TickDump
<1>6. Idle.pc = "idle"
  BY DEF Idle
<1> QED
  BY <1>2, <1>3, <1>4, <1>5, <1>6

LEMMA PutGentle ==
  ASSUME Orderly, AllInv, TickPut \/ TickPutFails
  PROVE  Gentle
<1>1. Within /\ Carried
  BY DEF AllInv, PushInv
<1>2. CASE TickPut
  <2>1. PICK name \in {stamps + 1, -(stamps + 1)} :
          /\ job.pc = "put" /\ stamps' = stamps + 1
          /\ objects' = Stored(name, job.data)
          /\ job' = [job EXCEPT !.pc = "publish", !.name = name]
          /\ UNCHANGED <<manifest, db>>
    BY <1>2 DEF TickPut, Stamp, disk
  <2>2. job'.pc = "publish" /\ job'.data = job.data /\ job'.man = job.man
    BY <2>1 DEF AllInv, TypeInv, TypeOK, JobOK
  <2>3. \A n \in Int : StampedName(n) => n # name
    BY <2>1, StampFresh DEF AllInv
  <2>4. \A e \in manifest.entries : e.name # name
    BY <2>3 DEF AllInv, ProofInv, Named, NamedEntries, TypeInv, TypeOK, BucketOK, Entry
  <2>5. \A e \in job.man : e.name # name
    BY <2>3 DEF AllInv, ProofInv, Named, NamedEntries, TypeInv, TypeOK, JobOK, Entry
  <2>6. /\ DOMAIN objects' = DOMAIN objects \union {name}
        /\ objects'[name].data = job.data
        /\ \A n \in DOMAIN objects : n # name => objects'[n] = objects[n]
    BY <2>1 DEF Stored
  <2>7. job.data \subseteq 1..MaxCommits /\ \A n \in DOMAIN objects' : objects'[n].data \subseteq 1..MaxCommits
    BY <1>1, <2>1, <2>6 DEF Within
  <2>8. \A e \in Newest(job.man) : e.name \in DOMAIN objects' => objects'[e.name].data \subseteq job.data
    BY <1>1, <2>1, <2>5, <2>6 DEF Carried, Newest
  <2> QED
    BY <1>1, <2>1, <2>2, <2>4, <2>6, <2>7, <2>8 DEF Gentle, Within
<1>3. CASE TickPutFails
  <2>1. /\ UNCHANGED <<manifest, objects, db>> /\ job'.pc = "idle"
    BY <1>3 DEF TickPutFails, Fault, Orderly, Unmeddled, Idle, disk
  <2> QED
    BY <1>1, <2>1, SameDumpsGentle DEF Within
<1> QED
  BY <1>2, <1>3

LEMMA WithoutGentle ==
  ASSUME Within, NEW n, objects' = objects \/ objects' = Without(n), n \notin Names(manifest.entries),
         manifest' = manifest, db' = db, job'.pc \notin {"put", "publish"}
  PROVE  Gentle
<1>1. CASE objects' = objects
  BY <1>1, SameDumpsGentle DEF Within
<1>2. CASE objects' = Without(n)
  <2>1. /\ DOMAIN objects' = DOMAIN objects \ {n}
        /\ \A m \in DOMAIN objects' : objects'[m] = objects[m]
    BY <1>2 DEF Without
  <2> QED
    BY <2>1 DEF Within, Gentle, Names
<1> QED
  BY <1>1, <1>2

LEMMA TickEndGentle ==
  ASSUME Orderly, AllInv,
         TickPublishFails \/ TickCleanup \/ TickRecord \/ TickRetain \/ TickPrune
  PROVE  Gentle
<1>1. Within /\ JobOK
  BY DEF AllInv, PushInv, TypeInv, TypeOK
<1>2. CASE TickPublishFails
  <2>1. UNCHANGED <<manifest, objects, db>> /\ job'.pc = "cleanup"
    BY <1>1, <1>2 DEF TickPublishFails, Fault, Orderly, Unmeddled, disk, JobOK
  <2> QED
    BY <1>1, <2>1, SameDumpsGentle DEF Within
<1>3. CASE TickRecord \/ TickRetain
  <2>1. UNCHANGED <<manifest, objects, db>> /\ job'.pc \in {"retain", "prune"}
    BY <1>1, <1>3 DEF TickRecord, TickRetain, bucket, JobOK
  <2> QED
    BY <1>1, <2>1, SameDumpsGentle DEF Within
<1>4. CASE TickCleanup
  <2>1. /\ job.pc = "cleanup" /\ job'.pc = "idle" /\ UNCHANGED <<manifest, db>>
        /\ objects' = objects \/ objects' = Without(job.name)
    BY <1>4 DEF TickCleanup, Idle, disk
  <2>2. job.name \notin Names(manifest.entries)
    BY <2>1 DEF AllInv, DangleInv, Unpublished
  <2> QED
    BY <1>1, <2>1, <2>2, WithoutGentle
<1>5. CASE TickPrune
  <2>1. job.pc = "prune" /\ UNCHANGED <<manifest, db>>
    BY <1>5 DEF TickPrune, disk
  <2>2. CASE job' = Idle /\ objects' = objects
    BY <1>1, <2>1, <2>2, SameDumpsGentle DEF Idle, Within
  <2>3. CASE \E e \in job.evicted :
               /\ job' = [job EXCEPT !.evicted = @ \ {e}]
               /\ objects' = objects \/ objects' = Without(e.name)
    <3>1. PICK e \in job.evicted : /\ job' = [job EXCEPT !.evicted = @ \ {e}]
                                   /\ objects' = objects \/ objects' = Without(e.name)
      BY <2>3
    <3>2. job'.pc = "prune"
      BY <1>1, <2>1, <3>1 DEF JobOK
    <3>3. e.name \notin Names(manifest.entries)
      BY <2>1 DEF AllInv, DangleInv, EvictedUnnamed
    <3> QED
      BY <1>1, <2>1, <3>1, <3>2, <3>3, WithoutGentle
  <2> QED
    BY <1>5, <2>2, <2>3 DEF TickPrune
<1> QED
  BY <1>2, <1>3, <1>4, <1>5

LEMMA WorldGentle ==
  ASSUME Orderly, TypeInv, Within, Carried, World
  PROVE  Gentle
<1>0. /\ vol \in Volumes /\ db \in [Volumes -> SUBSET Nat] /\ commits \in Nat
      /\ \A n \in DOMAIN objects : objects[n] \in [data : SUBSET Nat, good : BOOLEAN]
  BY DEF TypeInv, TypeOK, BootOK, DiskOK, AuxOK, BucketOK
<1>1. CASE Commit
  <2>1. /\ commits < MaxCommits /\ db' = [db EXCEPT ![vol] = @ \union {commits + 1}]
        /\ UNCHANGED <<manifest, objects, job>>
    BY <1>1 DEF Commit, bucket
  <2>2. commits + 1 \in 1..MaxCommits
    BY <2>1, <1>0, BackupAssumption
  <2>3. \A v \in Volumes : db'[v] \subseteq 1..MaxCommits
    BY <2>1, <2>2, <1>0 DEF Within
  <2> QED
    BY <2>1, <2>3, SameDumpsGentle
<1>2. CASE Boot \/ Stop \/ Crash
  <2>1. /\ UNCHANGED <<manifest, objects, db>>
        /\ job' = job \/ job' = Idle
    BY <1>2 DEF Boot, Stop, Crash, bucket, disk
  <2> QED
    BY <2>1, SameDumpsGentle DEF Idle, Within
<1>3. CASE \E v \in Volumes : Wipe(v)
  <2>1. PICK w \in Volumes : db' = [db EXCEPT ![w] = {}] /\ UNCHANGED <<manifest, objects, job>>
    BY <1>3 DEF Wipe, bucket
  <2>2. \A v \in Volumes : db'[v] \subseteq 1..MaxCommits
    BY <2>1, <1>0 DEF Within
  <2> QED
    BY <2>1, <2>2, SameDumpsGentle
<1>4. CASE \E n \in DOMAIN objects : CorruptObject(n)
  <2>1. PICK n \in DOMAIN objects : /\ objects' = [objects EXCEPT ![n].good = FALSE]
                                    /\ UNCHANGED <<manifest, db, job>>
    BY <1>4 DEF CorruptObject, disk
  <2>2. /\ DOMAIN objects' = DOMAIN objects
        /\ \A m \in DOMAIN objects : objects'[m].data = objects[m].data
    BY <2>1, <1>0
  <2> QED
    BY <2>1, <2>2 DEF Within, Carried, Gentle
<1>5. ~ClearBucket /\ ~GarbleManifest /\ \A n : ~LoseObject(n)
  BY DEF ClearBucket, GarbleManifest, LoseObject, Fault, Orderly, Unmeddled, Uncleared
<1> QED
  BY <1>1, <1>2, <1>3, <1>4, <1>5 DEF World

(* A push puts the dump in hand in the place of the newest backup.         *)
LEMMA PublishGrows ==
  ASSUME AllInv, TickPublish
  PROVE  /\ Within' /\ Carried'
         /\ PublishedData \subseteq PublishedData' /\ PublishedData' \subseteq 1..MaxCommits
<1>1. /\ job.pc = "publish" /\ manifest' = Published(Retained(Pushed))
      /\ UNCHANGED <<objects, db>>
      /\ job' = [job EXCEPT !.pc = "record", !.evicted = Pushed \ Retained(Pushed)]
  BY DEF TickPublish, disk
<1>2. job'.pc = "record"
  BY <1>1 DEF AllInv, TypeInv, TypeOK, JobOK
<1>3. Within' /\ Carried'
  BY <1>1, <1>2 DEF AllInv, PushInv, Within, Carried
<1>4. PublishedData' = job.data
  <2>1. job.name \in DOMAIN objects /\ objects[job.name].data = job.data
    BY <1>1 DEF AllInv, DangleInv, Uploaded, ProofInv, Ticking, Dumped
  <2>2. Newest(Retained(Pushed)) = {[gen |-> job.gen, name |-> job.name]}
    BY <1>1, PushedAhead DEF AllInv
  <2>3. Newest(manifest.entries)' = Newest(Retained(Pushed))
    BY <1>1 DEF Newest, Latest, Published
  <2> DEFINE J == [gen |-> job.gen, name |-> job.name]
             found == {e \in {J} : e.name \in DOMAIN objects}
  <2>4. J.name = job.name
    OBVIOUS
  <2>5. PublishedData' = UNION {objects[e.name].data : e \in found}
    BY <1>1, <2>2, <2>3 DEF PublishedData
  <2> HIDE DEF J
  <2>6. found = {J}
    BY <2>1, <2>4
  <2>7. {objects[e.name].data : e \in {J}} = {job.data}
    BY <2>1, <2>4
  <2> QED
    BY <2>5, <2>6, <2>7
<1>5. PublishedData \subseteq job.data
  <2>1. manifest.entries = job.man \/ manifest.entries = {}
    BY <1>1 DEF AllInv, ProofInv, Numbered, NextGen, Unreadable
  <2>2. \A e \in Newest(manifest.entries) :
          e.name \in DOMAIN objects => objects[e.name].data \subseteq job.data
    <3>1. CASE manifest.entries = job.man
      BY <1>1, <3>1 DEF AllInv, PushInv, Carried
    <3>2. CASE manifest.entries = {}
      BY <3>2 DEF Newest
    <3> QED
      BY <2>1, <3>1, <3>2
  <2> QED
    BY <2>2 DEF PublishedData
<1>6. job.data \subseteq 1..MaxCommits
  BY <1>1 DEF AllInv, PushInv, Within
<1> QED
  BY <1>3, <1>4, <1>5, <1>6

LEMMA PushStep ==
  ASSUME Orderly, AllInv, [Next]_vars
  PROVE  PushInv' /\ [Promise!Push]_PublishedData
<1>1. TypeInv /\ ProofInv /\ Unvouched /\ Within /\ Carried
  BY DEF AllInv, PushInv
<1>2. Unvouched'
  BY <1>1, UnvouchedStep
<1>3. ASSUME Gentle PROVE PushInv' /\ [Promise!Push]_PublishedData
  BY <1>2, <1>3, GentleKeeps DEF PushInv
<1>4. CASE BootStep
  BY <1>1, <1>3, <1>4, BootGentle
<1>5. CASE TickStep /\ ~TickPublish
  BY <1>3, <1>5, DumpGentle, PutGentle, TickEndGentle DEF TickStep
<1>6. CASE TickPublish
  <2>1. Within' /\ Carried' /\ PublishedData \subseteq PublishedData'
        /\ PublishedData' \subseteq 1..MaxCommits
    BY <1>6, PublishGrows
  <2>2. Promise!Push
    BY <2>1 DEF Promise!Push
  <2> QED
    BY <1>2, <2>1, <2>2 DEF PushInv
<1>7. CASE World
  BY <1>1, <1>3, <1>7, WorldGentle
<1>8. CASE UNCHANGED vars
  <2>1. UNCHANGED <<manifest, objects, db, job>>
    BY <1>8 DEF vars, bucket, disk
  <2> QED
    BY <1>1, <1>3, <2>1, SameDumpsGentle DEF Within
<1> QED
  BY <1>4, <1>5, <1>6, <1>7, <1>8 DEF Next

LEMMA PushInit ==
  ASSUME Orderly, Init
  PROVE  PushInv /\ Promise!Init
<1>1. PICK k \in 0..LegacyDumps, v0 \in Volumes :
        /\ objects = [n \in 1..k |-> [data |-> 1..n, good |-> TRUE]]
        /\ manifest = [state |-> "absent", entries |-> {}]
        /\ db = [v \in Volumes |-> IF v = v0 THEN 1..k ELSE {}]
        /\ mode = "down" /\ job = Idle /\ vouched = {}
  BY DEF Init
<1>2. k \in Nat /\ k <= MaxCommits /\ MaxCommits \in Nat
  BY BackupAssumption DEF Orderly
<1>3. Within
  <2>1. \A n \in 0..k : 1..n \subseteq 1..MaxCommits
    BY <1>2
  <2>2. \A v \in Volumes : db[v] \subseteq 1..MaxCommits
    BY <1>1, <1>2, <2>1
  <2>3. \A n \in DOMAIN objects : objects[n].data \subseteq 1..MaxCommits
    BY <1>1, <1>2, <2>1
  <2> QED
    BY <1>1, <2>2, <2>3 DEF Within, Idle
<1>4. Unvouched /\ Carried
  BY <1>1 DEF Unvouched, Carried, Idle
<1>5. PublishedData = {}
  <2>1. Newest(manifest.entries) = {}
    BY <1>1 DEF Newest
  <2> QED
    BY <2>1 DEF PublishedData
<1> QED
  BY <1>3, <1>4, <1>5 DEF PushInv, Promise!Init

(* The backup implements BackupPromise: a push never publishes a backup    *)
(* that lacks a commit of the one before, and nothing else touches what is *)
(* published - as long as nobody meddles with the bucket and no restore is *)
(* asked for over a database that is not empty.                            *)
THEOREM BackupKeepsItsPromise ==
  ASSUME Orderly
  PROVE  Spec => PublishedNeverShrinks
<1>1. AllInv /\ [Next]_vars => AllInv'
  <2> SUFFICES ASSUME AllInv, [Next]_vars PROVE AllInv'
    OBVIOUS
  <2>1. TypeInv /\ DangleInv /\ ProofInv /\ Unmeddled /\ Uncleared
    BY DEF AllInv, Orderly
  <2> QED
    BY <2>1, NextType, DangleNext, ProofStep, PushStep DEF AllInv
<1>2. AllInv /\ [Next]_vars => [Promise!Push]_PublishedData
  BY PushStep
<1>3. Init => AllInv /\ Promise!Init
  BY InitType, DangleInit, ProofInit, PushInit DEF AllInv
<1> QED
  BY <1>1, <1>2, <1>3, PTL DEF Spec, PublishedNeverShrinks, Promise!Spec

=============================================================================
