--------------------------- MODULE DbBackupProofs ---------------------------
(* Theorems about DbBackup, for every value of its constants.              *)
EXTENDS DbBackup, FiniteSetTheorems, WellFoundedInduction, TLAPS

-----------------------------------------------------------------------------
(* Every non-empty set of naturals has a least element.                    *)
LEMMA LeastNat ==
  ASSUME NEW S \in SUBSET Nat, S # {}
  PROVE  \E m \in S : \A k \in S : m <= k
<1>1. PICK m \in S : \A k \in S : ~(<<k, m>> \in OpToRel(<, Nat))
  BY NatLessThanWellFounded, WFMin
<1>2. \A k \in S : ~(k < m)
  BY <1>1 DEF OpToRel
<1> QED
  BY <1>2

(* A bound on the generations of a set of entries.                         *)
Bounded(E) == \E b \in Nat : \A e \in E : e.gen <= b

LEMMA BoundedEmpty == Bounded({})
  BY DEF Bounded

LEMMA BoundedSubset ==
  ASSUME NEW E, Bounded(E), NEW F \in SUBSET E
  PROVE  Bounded(F)
  BY DEF Bounded

(* Latest is the greatest generation of a non-empty bounded set of entries.*)
LEMMA LatestIsGreatest ==
  ASSUME NEW E, \A e \in E : e.gen \in Nat \ {0}, E # {}, Bounded(E)
  PROVE  /\ Latest(E) \in Nat \ {0}
         /\ \A e \in E : e.gen <= Latest(E)
         /\ \E e \in E : e.gen = Latest(E)
<1> DEFINE B == {b \in Nat : \A e \in E : e.gen <= b}
<1>1. PICK b \in B : \A k \in B : b <= k
  <2>1. B # {} /\ B \in SUBSET Nat
    BY DEF Bounded
  <2> QED BY <2>1, LeastNat
<1>2. \E e \in E : e.gen = b
  <2> SUFFICES ASSUME \A e \in E : e.gen # b PROVE FALSE
    OBVIOUS
  <2>1. \A e \in E : e.gen \in Nat /\ e.gen >= 1 /\ e.gen <= b - 1
    BY <1>1
  <2>2. b - 1 \in B
    BY <2>1, <1>1
  <2> QED BY <2>2, <1>1
<1>3. b \in {e.gen : e \in E} /\ \A e \in E : e.gen <= b
  BY <1>1, <1>2
<1>4. Latest(E) \in {e.gen : e \in E} /\ \A e \in E : e.gen <= Latest(E)
  BY <1>3 DEF Latest
<1> QED BY <1>4

LEMMA LatestType ==
  ASSUME NEW E \in SUBSET Entry, Bounded(E)
  PROVE  Latest(E) \in Nat
<1>1. CASE E = {} BY <1>1 DEF Latest
<1>2. CASE E # {} BY <1>2, LatestIsGreatest DEF Entry
<1> QED BY <1>1, <1>2

(* What a listing of finitely many names is converted to.                  *)
LEMMA ListingType ==
  ASSUME NEW names \in SUBSET Int, IsFiniteSet(names)
  PROVE  /\ FromListing(names) \in SUBSET Entry
         /\ Bounded(FromListing(names))
         /\ Names(FromListing(names)) = names
         /\ \A e, f \in FromListing(names) : e.name = f.name => e = f
<1>1. \A n \in names :
        /\ Cardinality({m \in names : m <= n}) \in Nat \ {0}
        /\ Cardinality({m \in names : m <= n}) <= Cardinality(names)
  <2> TAKE n \in names
  <2> DEFINE T == {m \in names : m <= n}
  <2>1. T \in SUBSET names /\ n \in T
    OBVIOUS
  <2>2. IsFiniteSet(T) /\ Cardinality(T) <= Cardinality(names)
    BY <2>1, FS_Subset
  <2>3. Cardinality(T) # 0
    BY <2>1, <2>2, FS_EmptySet
  <2> QED BY <2>2, <2>3, FS_CardinalityType
<1>2. Cardinality(names) \in Nat
  BY FS_CardinalityType
<1> DEFINE rank(n) == Cardinality({m \in names : m <= n})
<1>3. FromListing(names) = {[gen |-> rank(n), name |-> n] : n \in names}
  BY DEF FromListing
<1>4. \A n \in names : rank(n) \in Nat \ {0} /\ rank(n) <= Cardinality(names)
  BY <1>1
<1> HIDE DEF rank
<1>5. FromListing(names) \in SUBSET Entry
  BY <1>3, <1>4 DEF Entry
<1>6. Bounded(FromListing(names))
  BY <1>2, <1>3, <1>4 DEF Bounded
<1>7. Names(FromListing(names)) = names
  <2>1. \A e \in FromListing(names) : e.name \in names
    BY <1>3
  <2>2. \A n \in names : \E e \in FromListing(names) : e.name = n
    <3> TAKE n \in names
    <3>1. [gen |-> rank(n), name |-> n] \in FromListing(names)
      BY <1>3
    <3> QED BY <3>1
  <2>3. \A x : x \in Names(FromListing(names)) <=> \E e \in FromListing(names) : e.name = x
    BY DEF Names
  <2>4. \A x : x \in Names(FromListing(names)) <=> x \in names
    BY <2>1, <2>2, <2>3
  <2> QED BY <2>4
<1>8. \A e, f \in FromListing(names) : e.name = f.name => e = f
  BY <1>3
<1> QED BY <1>5, <1>6, <1>7, <1>8

-----------------------------------------------------------------------------
(* Type correctness.  The greatest generation exists because every set of  *)
(* entries in play is bounded, which is part of what is inductive.         *)
BucketFinite == IsFiniteSet(DOMAIN objects) /\ Bounded(manifest.entries)

CandsFinite == Bounded(cands) /\ (mode = "record" => cands # {})

JobFinite == Bounded(job.man) /\ (job.pc # "idle" => job.gen # 0)

Finite == BucketFinite /\ CandsFinite /\ JobFinite

TypeInv == TypeOK /\ Finite

LEMMA EffectiveType ==
  ASSUME TypeOK, Finite
  PROVE  Effective \in SUBSET Entry /\ Bounded(Effective)
<1>1. DOMAIN objects \in SUBSET Int /\ IsFiniteSet(DOMAIN objects)
  BY DEF TypeOK, BucketOK, Finite, BucketFinite
<1>2. manifest.entries \in SUBSET Entry /\ Bounded(manifest.entries)
  BY DEF TypeOK, BucketOK, Finite, BucketFinite
<1> QED BY <1>1, <1>2, ListingType DEF Effective

LEMMA NewestType ==
  ASSUME TypeOK, Finite, Effective # {}
  PROVE  (CHOOSE e \in Newest(Effective) : TRUE) \in Effective
<1>1. \E e \in Effective : e.gen = Latest(Effective)
  BY EffectiveType, LatestIsGreatest DEF Entry
<1> QED BY <1>1 DEF Newest

LEMMA CandidateType ==
  ASSUME TypeOK, Finite, cands # {}
  PROVE  Candidate \in cands
<1>1. \E c \in cands : \A d \in cands : d.gen <= c.gen
  <2>1. \A c \in cands : c.gen \in Nat \ {0}
    BY DEF TypeOK, BootOK
  <2> QED BY <2>1, LatestIsGreatest DEF Finite, CandsFinite
<1> QED BY <1>1 DEF Candidate

LEMMA KnownType ==
  ASSUME NEW E \in SUBSET Entry, NEW v \in Volumes, TypeOK
  PROVE  ResolveKnown(lineage[v], E) \in Int
<1>1. CASE lineage[v].kind = "name" /\ lineage[v].n \in Names(E)
  <2>1. \E e \in E : e.name = lineage[v].n
    BY <1>1 DEF Names
  <2>2. (CHOOSE e \in E : e.name = lineage[v].n) \in E
    BY <2>1
  <2> QED BY <1>1, <2>2 DEF ResolveKnown, Entry
<1>2. CASE ~(lineage[v].kind = "name" /\ lineage[v].n \in Names(E))
  BY <1>2 DEF ResolveKnown, TypeOK, DiskOK
<1> QED BY <1>1, <1>2

LEMMA StoredType ==
  ASSUME TypeOK, Finite, NEW n \in Int, NEW d \in SUBSET Nat
  PROVE  /\ DOMAIN Stored(n, d) = DOMAIN objects \cup {n}
         /\ IsFiniteSet(DOMAIN Stored(n, d))
         /\ \A m \in DOMAIN Stored(n, d) :
              m \in Int /\ Stored(n, d)[m] \in [data : SUBSET Nat, good : BOOLEAN]
<1>1. DOMAIN Stored(n, d) = DOMAIN objects \cup {n}
  BY DEF Stored
<1>2. IsFiniteSet(DOMAIN objects \cup {n})
  BY FS_AddElement DEF Finite, BucketFinite
<1> QED BY <1>1, <1>2 DEF Stored, TypeOK, BucketOK

LEMMA WithoutType ==
  ASSUME TypeOK, Finite, NEW n
  PROVE  /\ DOMAIN Without(n) = DOMAIN objects \ {n}
         /\ IsFiniteSet(DOMAIN Without(n))
         /\ \A m \in DOMAIN Without(n) :
              m \in Int /\ Without(n)[m] \in [data : SUBSET Nat, good : BOOLEAN]
<1>1. DOMAIN Without(n) = DOMAIN objects \ {n}
  BY DEF Without
<1>2. IsFiniteSet(DOMAIN objects \ {n})
  BY FS_RemoveElement DEF Finite, BucketFinite
<1> QED BY <1>1, <1>2 DEF Without, TypeOK, BucketOK

LEMMA PushedType ==
  ASSUME TypeOK, Finite, job.gen # 0
  PROVE  /\ Pushed \in SUBSET Entry /\ Bounded(Pushed)
         /\ Retained(Pushed) \in SUBSET Pushed
         /\ Bounded(Retained(Pushed))
<1>1. Pushed \in SUBSET Entry
  BY DEF Pushed, TypeOK, JobOK, Entry
<1>2. Bounded(Pushed)
  <2>1. PICK b \in Nat : \A e \in job.man : e.gen <= b
    BY DEF Finite, JobFinite, Bounded
  <2>2. b + job.gen \in Nat /\ \A e \in Pushed : e.gen <= b + job.gen
    BY <2>1 DEF Pushed, TypeOK, JobOK, Entry
  <2> QED BY <2>2 DEF Bounded
<1>3. Retained(Pushed) \in SUBSET Pushed
  BY DEF Retained
<1> QED BY <1>1, <1>2, <1>3 DEF Bounded

LEMMA IdleType ==
  ASSUME job = Idle
  PROVE  JobOK /\ JobFinite
<1>1. /\ job.pc = "idle" /\ job.man = {} /\ job.known = 0 /\ job.gen = 0
      /\ job.name = 0 /\ job.data = {} /\ job.evicted = {}
  BY DEF Idle
<1>2. {} \in SUBSET Entry /\ {} \in SUBSET Nat /\ 0 \in Int /\ 0 \in Nat
  OBVIOUS
<1>3. JobOK
  BY <1>2 DEF Idle, JobOK
<1> QED BY <1>1, <1>3, BoundedEmpty DEF JobFinite

LEMMA IdlePrimed ==
  ASSUME job' = Idle
  PROVE  JobOK' /\ JobFinite'
<1>1. /\ job'.pc = "idle" /\ job'.man = {} /\ job'.known = 0 /\ job'.gen = 0
      /\ job'.name = 0 /\ job'.data = {} /\ job'.evicted = {}
  BY DEF Idle
<1>2. {} \in SUBSET Entry /\ {} \in SUBSET Nat /\ 0 \in Int /\ 0 \in Nat
  OBVIOUS
<1>3. JobOK'
  BY <1>2 DEF Idle, JobOK
<1> QED BY <1>1, <1>3, BoundedEmpty DEF JobFinite

LEMMA WriteLineageType ==
  ASSUME DiskOK, AuxOK, NEW k \in [kind : {"none", "gen", "name"}, n : Int],
         WriteLineage(k)
  PROVE  /\ lineage' \in [Volumes -> [kind : {"none", "gen", "name"}, n : Int]]
         /\ faults' \in Nat
<1>1. NoLineage \in [kind : {"none", "gen", "name"}, n : Int]
  BY DEF NoLineage
<1>2. faults' \in Nat
  BY DEF WriteLineage, Fault, AuxOK
<1>3. \/ lineage' = lineage
      \/ lineage' = [lineage EXCEPT ![vol] = k]
      \/ lineage' = [lineage EXCEPT ![vol] = NoLineage]
  BY DEF WriteLineage
<1> QED BY <1>1, <1>2, <1>3 DEF DiskOK

LEMMA InitType == Init => TypeInv
<1> SUFFICES ASSUME Init PROVE TypeInv
  OBVIOUS
<1>1. PICK k \in 0..LegacyDumps, v0 \in Volumes :
        /\ objects = [n \in 1..k |-> [data |-> 1..n, good |-> TRUE]]
        /\ manifest = [state |-> "absent", entries |-> {}]
        /\ stamps = k
        /\ db = [v \in Volumes |-> IF v = v0 THEN 1..k ELSE {}]
        /\ lineage = [v \in Volumes |->
                        IF v = v0 /\ k > 0 THEN LegacyName(k) ELSE NoLineage]
        /\ last = [v \in Volumes |-> NoDump]
        /\ mode = "down" /\ vol = v0 /\ restore = FALSE /\ usable = TRUE /\ cands = {}
        /\ job = Idle
        /\ commits = k /\ faults = 0 /\ vouched = {}
  BY DEF Init
<1>2. k \in Nat /\ IsFiniteSet(1..k)
  BY FS_Interval, BackupAssumption
<1>3. BucketOK
  BY <1>1, <1>2 DEF BucketOK
<1>4. DiskOK
  BY <1>1, <1>2 DEF DiskOK, LegacyName, NoLineage, NoDump
<1>5. BootOK /\ AuxOK
  BY <1>1, <1>2 DEF BootOK, AuxOK
<1>8. JobOK
  BY <1>1, IdleType
<1>6. BucketFinite
  BY <1>1, <1>2, BoundedEmpty DEF BucketFinite
<1>7. CandsFinite /\ JobFinite
  BY <1>1, BoundedEmpty DEF CandsFinite, JobFinite, Idle
<1> QED BY <1>3, <1>4, <1>5, <1>6, <1>7, <1>8 DEF TypeInv, TypeOK, Finite

LEMMA CandidatesType ==
  ASSUME TypeOK, Finite, NEW readable \in BOOLEAN
  PROVE  /\ Candidates(readable) \in SUBSET [gen : Nat \ {0}, name : Int, listed : BOOLEAN]
         /\ Bounded(Candidates(readable))
<1>1. /\ manifest.entries \in SUBSET Entry /\ Bounded(manifest.entries)
      /\ FromListing(DOMAIN objects) \in SUBSET Entry
      /\ Bounded(FromListing(DOMAIN objects))
  BY ListingType DEF TypeOK, BucketOK, Finite, BucketFinite
<1>2. ASSUME NEW E \in SUBSET Entry, Bounded(E), NEW flag \in BOOLEAN
      PROVE  LET C == {[gen |-> e.gen, name |-> e.name, listed |-> flag] : e \in E}
             IN /\ C \in SUBSET [gen : Nat \ {0}, name : Int, listed : BOOLEAN]
                /\ Bounded(C)
  BY <1>2 DEF Entry, Bounded
<1> QED BY <1>1, <1>2 DEF Candidates

(* Every action, one type part at a time; parts it leaves alone together.  *)
LEMMA NextType == TypeInv /\ [Next]_vars => TypeInv'
<1> SUFFICES ASSUME TypeOK, Finite, [Next]_vars PROVE TypeOK' /\ Finite'
  BY DEF TypeInv
<1>0. /\ BucketOK /\ DiskOK /\ BootOK /\ JobOK /\ AuxOK
      /\ BucketFinite /\ CandsFinite /\ JobFinite
  BY DEF TypeOK, Finite
<1>1. CASE AdoptLineage
  <2>1. restore /\ usable /\ db[vol] # {} /\ manifest.state # "garbled" /\ Effective # {} =>
            (CHOOSE e \in Newest(Effective) : TRUE) \in Entry
    BY <1>1, <1>0, EffectiveType, NewestType DEF TypeOK, Finite
  <2>2. DiskOK' /\ AuxOK'
    <3>1. CASE restore /\ usable /\ db[vol] # {} /\ manifest.state # "garbled" /\ Effective # {}
      <4> DEFINE newest == CHOOSE e \in Newest(Effective) : TRUE
                 listing == manifest.state = "absent" \/ manifest.entries = {}
                 k == IF listing THEN LegacyName(newest.name) ELSE Generation(newest.gen)
      <4>1. WriteLineage(k) /\ vouched' = vouched \cup {vol}
        BY <1>1, <3>1 DEF AdoptLineage
      <4>2. newest.name \in Int /\ newest.gen \in Int
        BY <2>1, <3>1 DEF Entry
      <4> HIDE DEF newest, listing
      <4>3. k \in [kind : {"none", "gen", "name"}, n : Int]
        BY <4>2 DEF LegacyName, Generation
      <4> HIDE DEF k
      <4>4. /\ lineage' \in [Volumes -> [kind : {"none", "gen", "name"}, n : Int]]
            /\ faults' \in Nat
        BY <4>1, <4>3, <1>0, WriteLineageType
      <4> QED BY <4>1, <4>4, <1>1, <1>0 DEF AdoptLineage, DiskOK, AuxOK, BootOK
    <3>2. CASE ~(restore /\ usable /\ db[vol] # {} /\ manifest.state # "garbled" /\ Effective # {})
      BY <1>1, <1>0, <3>2 DEF AdoptLineage, DiskOK, AuxOK
    <3> QED BY <3>1, <3>2
  <2>3. BootOK' /\ CandsFinite'
    BY <1>1, <1>0 DEF AdoptLineage, BootOK, CandsFinite
  <2>4. BucketOK' /\ BucketFinite' /\ JobOK' /\ JobFinite'
    BY <1>1, <1>0 DEF AdoptLineage, bucket, BucketOK, BucketFinite, JobOK, JobFinite
  <2> QED BY <2>2, <2>3, <2>4 DEF TypeOK, Finite
<1>2. CASE AdoptFails
  <2>1. BootOK' /\ CandsFinite'
    BY <1>2, <1>0 DEF AdoptFails, BootOK, CandsFinite
  <2>2. AuxOK'
    BY <1>2, <1>0 DEF AdoptFails, Fault, AuxOK
  <2>3. BucketOK' /\ BucketFinite' /\ DiskOK' /\ JobOK' /\ JobFinite'
    BY <1>2, <1>0 DEF AdoptFails, bucket, disk, BucketOK, BucketFinite, DiskOK, JobOK, JobFinite
  <2> QED BY <2>1, <2>2, <2>3 DEF TypeOK, Finite
<1>3. CASE RestoreDb
  <2>1. \A readable \in BOOLEAN :
            /\ Candidates(readable) \in SUBSET [gen : Nat \ {0}, name : Int, listed : BOOLEAN]
            /\ Bounded(Candidates(readable))
    BY <1>3, <1>0, CandidatesType
  <2>2. BootOK' /\ CandsFinite'
    BY <1>3, <1>0, <2>1 DEF RestoreDb, BootOK, CandsFinite
  <2>3. AuxOK'
    BY <1>3, <1>0 DEF RestoreDb, Fault, AuxOK
  <2>4. BucketOK' /\ BucketFinite' /\ DiskOK' /\ JobOK' /\ JobFinite'
    BY <1>3, <1>0 DEF RestoreDb, bucket, disk, BucketOK, BucketFinite, DiskOK, JobOK, JobFinite
  <2> QED BY <2>2, <2>3, <2>4 DEF TypeOK, Finite
<1>4. CASE RestoreRefused
  <2>1. BootOK' /\ CandsFinite'
    BY <1>4, <1>0 DEF RestoreRefused, BootOK, CandsFinite
  <2>2. AuxOK'
    BY <1>4, <1>0 DEF RestoreRefused, Fault, AuxOK
  <2>3. BucketOK' /\ BucketFinite' /\ DiskOK' /\ JobOK' /\ JobFinite'
    BY <1>4, <1>0 DEF RestoreRefused, bucket, disk, BucketOK, BucketFinite, DiskOK, JobOK, JobFinite
  <2> QED BY <2>1, <2>2, <2>3 DEF TypeOK, Finite
<1>5. CASE Import
  <2>1. DiskOK'
    BY <1>5, <1>0 DEF Import, BucketOK, DiskOK
  <2>2. BootOK' /\ CandsFinite'
    BY <1>5, <1>0 DEF Import, BootOK, CandsFinite
  <2>3. BucketOK' /\ BucketFinite' /\ JobOK' /\ JobFinite' /\ AuxOK'
    BY <1>5, <1>0 DEF Import, bucket, aux, BucketOK, BucketFinite, JobOK, JobFinite, AuxOK
  <2> QED BY <2>1, <2>2, <2>3 DEF TypeOK, Finite
<1>6. CASE ImportInvalid
  <2>1. BootOK' /\ CandsFinite'
    BY <1>6, <1>0, BoundedSubset DEF ImportInvalid, BootOK, CandsFinite
  <2>2. BucketOK' /\ BucketFinite' /\ DiskOK' /\ JobOK' /\ JobFinite' /\ AuxOK'
    BY <1>6, <1>0 DEF ImportInvalid, bucket, disk, aux, BucketOK, BucketFinite, DiskOK, JobOK, JobFinite, AuxOK
  <2> QED BY <2>1, <2>2 DEF TypeOK, Finite
<1>7. CASE ImportRefused
  <2>1. BootOK' /\ CandsFinite'
    BY <1>7, <1>0, BoundedEmpty DEF ImportRefused, BootOK, CandsFinite
  <2>2. AuxOK'
    BY <1>7, <1>0 DEF ImportRefused, Fault, AuxOK
  <2>3. BucketOK' /\ BucketFinite' /\ DiskOK' /\ JobOK' /\ JobFinite'
    BY <1>7, <1>0 DEF ImportRefused, bucket, disk, BucketOK, BucketFinite, DiskOK, JobOK, JobFinite
  <2> QED BY <2>1, <2>2, <2>3 DEF TypeOK, Finite
<1>8. CASE RecordImport
  <2>1. Candidate \in cands
    BY <1>8, <1>0, CandidateType DEF RecordImport, Finite, CandsFinite
  <2>2. DiskOK' /\ AuxOK'
    <3> DEFINE k == IF Candidate.listed THEN LegacyName(Candidate.name)
                                        ELSE Generation(Candidate.gen)
    <3>1. Candidate.gen \in Int /\ Candidate.name \in Int
      BY <2>1, <1>0 DEF BootOK
    <3>2. k \in [kind : {"none", "gen", "name"}, n : Int]
      BY <3>1 DEF LegacyName, Generation
    <3>3. WriteLineage(k)
      BY <1>8 DEF RecordImport
    <3> HIDE DEF k
    <3>4. /\ lineage' \in [Volumes -> [kind : {"none", "gen", "name"}, n : Int]]
          /\ faults' \in Nat
      BY <3>2, <3>3, <1>0, WriteLineageType
    <3> QED BY <3>4, <1>8, <1>0 DEF RecordImport, DiskOK, AuxOK
  <2>3. BootOK' /\ CandsFinite'
    BY <1>8, <1>0, BoundedEmpty DEF RecordImport, BootOK, CandsFinite
  <2>5. BucketOK' /\ BucketFinite' /\ JobOK' /\ JobFinite'
    BY <1>8, <1>0 DEF RecordImport, bucket, BucketOK, BucketFinite, JobOK, JobFinite
  <2> QED BY <2>2, <2>3, <2>5 DEF TypeOK, Finite
<1>9. CASE TickGuards
  <2>1. /\ Effective \in SUBSET Entry /\ Bounded(Effective)
       /\ Latest(Effective) \in Nat
       /\ ResolveKnown(lineage[vol], Effective) \in Int
    BY <1>9, <1>0, EffectiveType, KnownType, LatestType DEF BootOK
  <2>2. JobOK' /\ JobFinite'
    <3>1. PICK g \in Nat \ {0}, known \in Int, man \in SUBSET Entry :
            /\ Bounded(man)
            /\ job' = [pc |-> "dump", man |-> man, known |-> known, gen |-> g, name |-> 0,
                       data |-> {}, evicted |-> {}]
      <4>1. job' = [Idle EXCEPT !.pc = "dump", !.man = Effective,
                      !.known = ResolveKnown(lineage[vol], Effective),
                      !.gen = Latest(Effective) + 1]
        BY <1>9 DEF TickGuards
      <4>2. Latest(Effective) + 1 \in Nat \ {0}
        BY <2>1
      <4> QED BY <4>1, <4>2, <2>1 DEF Idle
    <3>2. {} \in SUBSET Nat /\ {} \in SUBSET Entry /\ 0 \in Int
      OBVIOUS
    <3> QED BY <3>1, <3>2 DEF JobOK, JobFinite
  <2>3. BucketOK' /\ BucketFinite' /\ DiskOK' /\ BootOK' /\ CandsFinite' /\ AuxOK'
    BY <1>9, <1>0 DEF TickGuards, bucket, disk, boot, aux, BucketOK, BucketFinite, DiskOK, BootOK, CandsFinite, AuxOK
  <2> QED BY <2>2, <2>3 DEF TypeOK, Finite
<1>10. CASE TickDump
  <2>1. JobOK' /\ JobFinite'
    <3>1. CASE job' = Idle
      <4>1. job' = Idle => JobOK' /\ JobFinite'
        BY IdlePrimed
      <4> QED BY <4>1, <3>1
    <3>2. CASE job' = [job EXCEPT !.pc = "put", !.data = db[vol]]
      <4>1. db[vol] \in SUBSET Nat
        BY <1>0 DEF DiskOK, BootOK
      <4> QED BY <4>1, <3>2, <1>10, <1>0 DEF TickDump, JobOK, JobFinite
    <3> QED BY <3>1, <3>2, <1>10 DEF TickDump
  <2>2. BucketOK' /\ BucketFinite' /\ DiskOK' /\ BootOK' /\ CandsFinite' /\ AuxOK'
    BY <1>10, <1>0 DEF TickDump, bucket, disk, boot, aux, BucketOK, BucketFinite, DiskOK, BootOK, CandsFinite, AuxOK
  <2> QED BY <2>1, <2>2 DEF TypeOK, Finite
<1>11. CASE TickDumpFails
  <2>1. JobOK' /\ JobFinite'
    BY <1>11, <1>0, BoundedEmpty DEF TickDumpFails, Idle, JobOK, JobFinite
  <2>2. AuxOK'
    BY <1>11, <1>0 DEF TickDumpFails, Fault, AuxOK
  <2>3. BucketOK' /\ BucketFinite' /\ DiskOK' /\ BootOK' /\ CandsFinite'
    BY <1>11, <1>0 DEF TickDumpFails, bucket, disk, boot, BucketOK, BucketFinite, DiskOK, BootOK, CandsFinite
  <2> QED BY <2>1, <2>2, <2>3 DEF TypeOK, Finite
<1>12. CASE TickPut
  <2>1. stamps + 1 \in Int /\ -(stamps + 1) \in Int /\ job.data \in SUBSET Nat /\ job.gen # 0
    BY <1>12, <1>0 DEF BucketOK, JobOK, JobFinite, TickPut
  <2>2. BucketOK' /\ BucketFinite'
    <3>1. PICK name \in Int : objects' = Stored(name, job.data)
      BY <1>12, <2>1 DEF TickPut
    <3>2. /\ IsFiniteSet(DOMAIN objects')
          /\ \A m \in DOMAIN objects' :
               m \in Int /\ objects'[m] \in [data : SUBSET Nat, good : BOOLEAN]
      BY <3>1, <2>1, StoredType
    <3>3. stamps' \in Nat /\ manifest' = manifest
      BY <1>12, <1>0 DEF TickPut, Stamp, BucketOK
    <3> QED BY <3>2, <3>3, <1>0 DEF BucketOK, BucketFinite
  <2>3. JobOK' /\ JobFinite'
    <3>1. PICK name \in Int : job' = [job EXCEPT !.pc = "publish", !.name = name]
      BY <1>12, <2>1 DEF TickPut
    <3> QED BY <3>1, <2>1, <1>0 DEF JobOK, JobFinite
  <2>4. AuxOK'
    BY <1>12, <1>0 DEF TickPut, Stamp, Fault, AuxOK
  <2>5. DiskOK' /\ BootOK' /\ CandsFinite'
    BY <1>12, <1>0 DEF TickPut, disk, boot, DiskOK, BootOK, CandsFinite
  <2> QED BY <2>2, <2>3, <2>4, <2>5 DEF TypeOK, Finite
<1>13. CASE TickPutFails
  <2>1. stamps + 1 \in Int /\ job.data \in SUBSET Nat
    BY <1>13, <1>0 DEF BucketOK, JobOK
  <2>2. BucketOK' /\ BucketFinite'
    <3>1. objects' = objects \/ objects' = Stored(stamps + 1, job.data)
      BY <1>13 DEF TickPutFails
    <3>2. /\ IsFiniteSet(DOMAIN objects')
          /\ \A m \in DOMAIN objects' :
               m \in Int /\ objects'[m] \in [data : SUBSET Nat, good : BOOLEAN]
      BY <3>1, <2>1, <1>0, StoredType DEF BucketOK, BucketFinite
    <3>3. stamps' \in Nat /\ manifest' = manifest
      BY <1>13, <1>0 DEF TickPutFails, BucketOK
    <3> QED BY <3>2, <3>3, <1>0 DEF BucketOK, BucketFinite
  <2>3. JobOK' /\ JobFinite'
    BY <1>13, <1>0, BoundedEmpty DEF TickPutFails, Idle, JobOK, JobFinite
  <2>4. AuxOK'
    BY <1>13, <1>0 DEF TickPutFails, Fault, AuxOK
  <2>5. DiskOK' /\ BootOK' /\ CandsFinite'
    BY <1>13, <1>0 DEF TickPutFails, disk, boot, DiskOK, BootOK, CandsFinite
  <2> QED BY <2>2, <2>3, <2>4, <2>5 DEF TypeOK, Finite
<1>14. CASE TickPublish
  <2>1. Retained(Pushed) \in SUBSET Entry /\ Bounded(Retained(Pushed)) /\ Pushed \in SUBSET Entry
    BY <1>14, <1>0, PushedType DEF JobFinite, TickPublish
  <2>2. BucketOK' /\ BucketFinite'
    BY <1>14, <1>0, <2>1 DEF TickPublish, Published, BucketOK, BucketFinite
  <2>3. JobOK' /\ JobFinite'
    BY <1>14, <1>0, <2>1 DEF TickPublish, JobOK, JobFinite
  <2>4. DiskOK' /\ BootOK' /\ CandsFinite' /\ AuxOK'
    BY <1>14, <1>0 DEF TickPublish, disk, boot, aux, DiskOK, BootOK, CandsFinite, AuxOK
  <2> QED BY <2>2, <2>3, <2>4 DEF TypeOK, Finite
<1>15. CASE TickPublishFails
  <2>1. Retained(Pushed) \in SUBSET Entry /\ Bounded(Retained(Pushed))
    BY <1>15, <1>0, PushedType DEF JobFinite, TickPublishFails
  <2>2. BucketOK' /\ BucketFinite'
    BY <1>15, <1>0, <2>1 DEF TickPublishFails, Published, BucketOK, BucketFinite
  <2>3. JobOK' /\ JobFinite'
    BY <1>15, <1>0 DEF TickPublishFails, JobOK, JobFinite
  <2>4. AuxOK'
    BY <1>15, <1>0 DEF TickPublishFails, Fault, AuxOK
  <2>5. DiskOK' /\ BootOK' /\ CandsFinite'
    BY <1>15, <1>0 DEF TickPublishFails, disk, boot, DiskOK, BootOK, CandsFinite
  <2> QED BY <2>2, <2>3, <2>4, <2>5 DEF TypeOK, Finite
<1>16. CASE TickCleanup
  <2>1. BucketOK' /\ BucketFinite'
    BY <1>16, <1>0, WithoutType DEF TickCleanup, BucketOK, BucketFinite
  <2>2. JobOK' /\ JobFinite'
    BY <1>16, <1>0, BoundedEmpty DEF TickCleanup, Idle, JobOK, JobFinite
  <2>3. AuxOK'
    BY <1>16, <1>0 DEF TickCleanup, Fault, AuxOK
  <2>4. DiskOK' /\ BootOK' /\ CandsFinite'
    BY <1>16, <1>0 DEF TickCleanup, disk, boot, DiskOK, BootOK, CandsFinite
  <2> QED BY <2>1, <2>2, <2>3, <2>4 DEF TypeOK, Finite
<1>17. CASE TickRecord
  <2>1. DiskOK'
    <3>1. Generation(job.gen) \in [kind : {"none", "gen", "name"}, n : Int]
      BY <1>0 DEF Generation, JobOK
    <3>2. lineage' \in [Volumes -> [kind : {"none", "gen", "name"}, n : Int]]
      BY <3>1, <1>17, <1>0, WriteLineageType DEF TickRecord
    <3> QED BY <3>2, <1>17, <1>0 DEF TickRecord, DiskOK
  <2>2. JobOK' /\ JobFinite'
    BY <1>17, <1>0 DEF TickRecord, JobOK, JobFinite
  <2>3. AuxOK'
    BY <1>17, <1>0 DEF TickRecord, WriteLineage, Fault, BootOK, AuxOK
  <2>4. BucketOK' /\ BucketFinite' /\ BootOK' /\ CandsFinite'
    BY <1>17, <1>0 DEF TickRecord, bucket, boot, BucketOK, BucketFinite, BootOK, CandsFinite
  <2> QED BY <2>1, <2>2, <2>3, <2>4 DEF TypeOK, Finite
<1>18. CASE TickRetain
  <2>1. DiskOK'
    <3>1. Dump(job.data) \in [kind : {"none", "dump"}, data : SUBSET Nat]
      BY <1>0 DEF Dump, JobOK
    <3>2. last' = last \/ last' = [last EXCEPT ![vol] = Dump(job.data)]
      BY <1>18 DEF TickRetain
    <3>3. db' = db /\ lineage' = lineage
      BY <1>18 DEF TickRetain
    <3> QED BY <3>1, <3>2, <3>3, <1>0 DEF DiskOK
  <2>2. JobOK' /\ JobFinite'
    BY <1>18, <1>0 DEF TickRetain, JobOK, JobFinite
  <2>3. AuxOK'
    BY <1>18, <1>0 DEF TickRetain, Fault, AuxOK
  <2>4. BucketOK' /\ BucketFinite' /\ BootOK' /\ CandsFinite'
    BY <1>18, <1>0 DEF TickRetain, bucket, boot, BucketOK, BucketFinite, BootOK, CandsFinite
  <2> QED BY <2>1, <2>2, <2>3, <2>4 DEF TypeOK, Finite
<1>19. CASE TickPrune
  <2>1. BucketOK' /\ BucketFinite'
    BY <1>19, <1>0, WithoutType DEF TickPrune, BucketOK, BucketFinite
  <2>2. JobOK' /\ JobFinite'
    BY <1>19, <1>0, BoundedEmpty DEF TickPrune, Idle, JobOK, JobFinite
  <2>3. AuxOK'
    BY <1>19, <1>0 DEF TickPrune, Fault, AuxOK
  <2>4. DiskOK' /\ BootOK' /\ CandsFinite'
    BY <1>19, <1>0 DEF TickPrune, disk, boot, DiskOK, BootOK, CandsFinite
  <2> QED BY <2>1, <2>2, <2>3, <2>4 DEF TypeOK, Finite
<1>20. CASE Commit
  <2>1. DiskOK'
    BY <1>20, <1>0 DEF Commit, AuxOK, BootOK, DiskOK
  <2>2. AuxOK'
    BY <1>20, <1>0 DEF Commit, AuxOK
  <2>3. BucketOK' /\ BucketFinite' /\ BootOK' /\ CandsFinite' /\ JobOK' /\ JobFinite'
    BY <1>20, <1>0 DEF Commit, bucket, boot, BucketOK, BucketFinite, BootOK, CandsFinite, JobOK, JobFinite
  <2> QED BY <2>1, <2>2, <2>3 DEF TypeOK, Finite
<1>21. CASE Boot
  <2>1. BootOK' /\ CandsFinite'
    BY <1>21, <1>0 DEF Boot, BootOK, CandsFinite
  <2>2. BucketOK' /\ BucketFinite' /\ DiskOK' /\ JobOK' /\ JobFinite'
    BY <1>21, <1>0 DEF Boot, bucket, disk, BucketOK, BucketFinite, DiskOK, JobOK, JobFinite
  <2>3. AuxOK'
    BY <1>21, <1>0 DEF Boot, Fault, AuxOK
  <2> QED BY <2>1, <2>2, <2>3 DEF TypeOK, Finite
<1>22. CASE Stop
  <2>1. BootOK' /\ CandsFinite'
    BY <1>22, <1>0 DEF Stop, BootOK, CandsFinite
  <2>2. BucketOK' /\ BucketFinite' /\ DiskOK' /\ JobOK' /\ JobFinite' /\ AuxOK'
    BY <1>22, <1>0 DEF Stop, bucket, disk, aux, BucketOK, BucketFinite, DiskOK, JobOK, JobFinite, AuxOK
  <2> QED BY <2>1, <2>2 DEF TypeOK, Finite
<1>23. CASE Crash
  <2>1. BootOK' /\ CandsFinite'
    BY <1>23, <1>0, BoundedEmpty DEF Crash, BootOK, CandsFinite
  <2>2. JobOK' /\ JobFinite'
    BY <1>23, <1>0, BoundedEmpty DEF Crash, Idle, JobOK, JobFinite
  <2>3. AuxOK'
    BY <1>23, <1>0 DEF Crash, Fault, AuxOK
  <2>4. BucketOK' /\ BucketFinite' /\ DiskOK'
    BY <1>23, <1>0 DEF Crash, bucket, disk, BucketOK, BucketFinite, DiskOK
  <2> QED BY <2>1, <2>2, <2>3, <2>4 DEF TypeOK, Finite
<1>24. CASE GarbleManifest
  <2>1. BucketOK' /\ BucketFinite'
    BY <1>24, <1>0, BoundedEmpty DEF GarbleManifest, BucketOK, BucketFinite
  <2>2. AuxOK'
    BY <1>24, <1>0 DEF GarbleManifest, Fault, AuxOK
  <2>3. DiskOK' /\ BootOK' /\ CandsFinite' /\ JobOK' /\ JobFinite'
    BY <1>24, <1>0 DEF GarbleManifest, disk, boot, DiskOK, BootOK, CandsFinite, JobOK, JobFinite
  <2> QED BY <2>1, <2>2, <2>3 DEF TypeOK, Finite
<1>25. CASE ClearBucket
  <2>1. BucketOK' /\ BucketFinite'
    BY <1>25, <1>0, BoundedEmpty, FS_EmptySet DEF ClearBucket, BucketOK, BucketFinite
  <2>2. AuxOK'
    BY <1>25, <1>0 DEF ClearBucket, Fault, AuxOK
  <2>3. DiskOK' /\ BootOK' /\ CandsFinite' /\ JobOK' /\ JobFinite'
    BY <1>25, <1>0 DEF ClearBucket, disk, boot, DiskOK, BootOK, CandsFinite, JobOK, JobFinite
  <2> QED BY <2>1, <2>2, <2>3 DEF TypeOK, Finite
<1>26. ASSUME NEW v \in Volumes, Wipe(v) PROVE TypeOK' /\ Finite'
  <2>1. DiskOK'
    BY <1>26, <1>0 DEF Wipe, NoLineage, NoDump, DiskOK
  <2>2. AuxOK'
    BY <1>26, <1>0 DEF Wipe, Fault, AuxOK
  <2>3. BucketOK' /\ BucketFinite' /\ BootOK' /\ CandsFinite' /\ JobOK' /\ JobFinite'
    BY <1>26, <1>0 DEF Wipe, bucket, boot, BucketOK, BucketFinite, BootOK, CandsFinite, JobOK, JobFinite
  <2> QED BY <2>1, <2>2, <2>3 DEF TypeOK, Finite
<1>27. ASSUME NEW n \in DOMAIN objects, CorruptObject(n) PROVE TypeOK' /\ Finite'
  <2>1. BucketOK' /\ BucketFinite'
    BY <1>27, <1>0 DEF CorruptObject, BucketOK, BucketFinite
  <2>2. AuxOK'
    BY <1>27, <1>0 DEF CorruptObject, Fault, AuxOK
  <2>3. DiskOK' /\ BootOK' /\ CandsFinite' /\ JobOK' /\ JobFinite'
    BY <1>27, <1>0 DEF CorruptObject, disk, boot, DiskOK, BootOK, CandsFinite, JobOK, JobFinite
  <2> QED BY <2>1, <2>2, <2>3 DEF TypeOK, Finite
<1>28. ASSUME NEW n \in DOMAIN objects, LoseObject(n) PROVE TypeOK' /\ Finite'
  <2>1. BucketOK' /\ BucketFinite'
    BY <1>28, <1>0, WithoutType DEF LoseObject, BucketOK, BucketFinite
  <2>2. AuxOK'
    BY <1>28, <1>0 DEF LoseObject, Fault, AuxOK
  <2>3. DiskOK' /\ BootOK' /\ CandsFinite' /\ JobOK' /\ JobFinite'
    BY <1>28, <1>0 DEF LoseObject, disk, boot, DiskOK, BootOK, CandsFinite, JobOK, JobFinite
  <2> QED BY <2>1, <2>2, <2>3 DEF TypeOK, Finite
<1>29. CASE UNCHANGED vars
  BY <1>29, <1>0 DEF vars, bucket, disk, boot, aux, TypeOK, Finite, BucketOK, DiskOK,
     BootOK, JobOK, AuxOK, BucketFinite, CandsFinite, JobFinite
<1> QED BY <1>1, <1>2, <1>3, <1>4, <1>5, <1>6, <1>7, <1>8, <1>9, <1>10, <1>11, <1>12, <1>13, <1>14, <1>15, <1>16, <1>17, <1>18, <1>19, <1>20, <1>21, <1>22, <1>23, <1>24, <1>25, <1>26, <1>27, <1>28, <1>29
  DEF Next, BootStep, TickStep, World

(* Every variable keeps its type: in particular the newest generation of   *)
(* whatever a tick or a boot reads is always defined.                      *)
THEOREM TypeCorrect == Spec => []TypeOK
<1>1. Spec => []TypeInv
  BY InitType, NextType, PTL DEF Spec
<1> QED BY <1>1, PTL DEF TypeInv


-----------------------------------------------------------------------------
(* The manifest never dangles, as long as nobody deletes dumps behind the  *)
(* supervisor's back and no PUT that took effect is reported as failed     *)
(* (the README gives the instance that shows the second is needed).        *)
Unmeddled == Faults \cap {"landed", "lose"} = {}

(* Two entries never share a dump.                                         *)
Distinct(E) == \A e, f \in E : e.name = f.name => e = f

TickServes == job.pc # "idle" => mode = "serving"

(* Every dump was named by the counter, so the next name is fresh.         *)
Stamped == \A n \in DOMAIN objects : -stamps <= n /\ n <= stamps

ManBacked ==
  job.pc \in {"dump", "put", "publish"} =>
    Names(job.man) \subseteq DOMAIN objects /\ Distinct(job.man)

Uploaded ==
  job.pc = "publish" => job.name \in DOMAIN objects /\ job.name \notin Names(job.man)

(* Until it is published, the dump a tick uploaded is in no manifest, so a *)
(* failed publish may delete it.                                           *)
Unpublished ==
  job.pc \in {"publish", "cleanup"} => job.name \notin Names(manifest.entries)

(* What a tick has left to prune is in no manifest.                        *)
EvictedUnnamed ==
  job.pc \in {"record", "retain", "prune"} =>
    \A e \in job.evicted : e.name \notin Names(manifest.entries)

DangleInv ==
  /\ ManifestNeverDangles /\ Distinct(manifest.entries)
  /\ TickServes /\ Stamped /\ ManBacked /\ Uploaded /\ Unpublished /\ EvictedUnnamed

LEMMA DangleInit == Init => DangleInv
<1> SUFFICES ASSUME Init PROVE DangleInv
  OBVIOUS
<1>1. PICK k \in 0..LegacyDumps :
        /\ objects = [n \in 1..k |-> [data |-> 1..n, good |-> TRUE]]
        /\ manifest = [state |-> "absent", entries |-> {}]
        /\ stamps = k
        /\ job = Idle
  BY DEF Init
<1>2. Stamped
  BY <1>1, BackupAssumption DEF Stamped
<1>3. Names(manifest.entries) = {} /\ job.pc = "idle"
  BY <1>1 DEF Names, Idle
<1> QED
  BY <1>1, <1>2, <1>3 DEF DangleInv, ManifestNeverDangles, Distinct, TickServes, ManBacked,
     Uploaded, Unpublished, EvictedUnnamed

(* A step that changes none of the bucket and the job, and leaves serving  *)
(* only while no tick is under way.                                        *)
LEMMA DangleIdle ==
  ASSUME DangleInv, UNCHANGED <<objects, manifest, stamps, job>>,
         mode' = mode \/ job.pc = "idle"
  PROVE  DangleInv'
BY DEF DangleInv, ManifestNeverDangles, Names, Distinct, TickServes, Stamped, ManBacked,
   Uploaded, Unpublished, EvictedUnnamed

(* A step that ends the tick and takes nothing a manifest names.           *)
LEMMA DangleEnds ==
  ASSUME DangleInv, job' = Idle, Stamped', ManifestNeverDangles', manifest' = manifest
  PROVE  DangleInv'
<1>1. job'.pc = "idle"
  BY DEF Idle
<1> QED
  BY <1>1 DEF DangleInv, Distinct, TickServes, ManBacked, Uploaded, Unpublished, EvictedUnnamed

LEMMA DangleNext ==
  ASSUME Unmeddled, TypeInv, DangleInv, [Next]_vars
  PROVE  DangleInv'
<1>0. /\ ManifestNeverDangles /\ Distinct(manifest.entries)
      /\ TickServes /\ Stamped /\ ManBacked /\ Uploaded /\ Unpublished /\ EvictedUnnamed
  BY DEF DangleInv
<1>1. ASSUME BootStep PROVE DangleInv'
  <2>1. mode # "serving" /\ job.pc = "idle"
    BY <1>1, <1>0 DEF BootStep, AdoptLineage, AdoptFails, RestoreDb, RestoreRefused, Import,
       ImportInvalid, ImportRefused, RecordImport, TickServes
  <2>2. UNCHANGED <<objects, manifest, stamps, job>>
    BY <1>1 DEF BootStep, AdoptLineage, AdoptFails, RestoreDb, RestoreRefused, Import,
       ImportInvalid, ImportRefused, RecordImport, bucket, aux
  <2> QED BY <2>1, <2>2, DangleIdle
<1>2. CASE TickGuards
  <2>1. /\ job'.pc = "dump" /\ job'.man = Effective
        /\ UNCHANGED <<objects, manifest, stamps, mode>> /\ mode = "serving"
    BY <1>2 DEF TickGuards, Idle, bucket, boot
  <2>2. Names(Effective) \subseteq DOMAIN objects /\ Distinct(Effective)
    <3>1. CASE manifest.state = "ok"
      BY <3>1, <1>0 DEF Effective, ManifestNeverDangles
    <3>2. CASE manifest.state # "ok"
      <4>1. DOMAIN objects \in SUBSET Int /\ IsFiniteSet(DOMAIN objects)
        BY DEF TypeInv, TypeOK, BucketOK, Finite, BucketFinite
      <4> QED BY <3>2, <4>1, ListingType DEF Effective, Distinct
    <3> QED BY <3>1, <3>2
  <2>3. ManBacked'
    BY <2>1, <2>2 DEF ManBacked, Names, Distinct
  <2> QED
    BY <2>1, <2>3, <1>0 DEF DangleInv, ManifestNeverDangles, Names, Distinct, TickServes, Stamped,
       Uploaded, Unpublished, EvictedUnnamed
<1>3. CASE TickDump
  <2>1. UNCHANGED <<objects, manifest, stamps, mode>> /\ job.pc = "dump"
    BY <1>3 DEF TickDump, bucket, boot
  <2>2. CASE job' = Idle
    BY <2>1, <2>2, <1>0, DangleEnds DEF Stamped, ManifestNeverDangles, Names
  <2>3. CASE job' = [job EXCEPT !.pc = "put", !.data = db[vol]]
    <3>1. job'.pc = "put" /\ job'.man = job.man
      BY <2>3 DEF TypeInv, TypeOK, JobOK
    <3> QED
      BY <2>1, <3>1, <1>0 DEF DangleInv, ManifestNeverDangles, Names, Distinct, TickServes, Stamped,
         ManBacked, Uploaded, Unpublished, EvictedUnnamed
  <2> QED BY <1>3, <2>2, <2>3 DEF TickDump
<1>4. CASE TickDumpFails
  <2>1. UNCHANGED <<objects, manifest, stamps>> /\ job' = Idle
    BY <1>4 DEF TickDumpFails, bucket
  <2> QED BY <2>1, <1>0, DangleEnds DEF Stamped, ManifestNeverDangles, Names
<1>5. CASE TickPut
  <2>1. PICK name \in {stamps + 1, -(stamps + 1)} :
          /\ Stamp(name)
          /\ objects' = Stored(name, job.data)
          /\ job' = [job EXCEPT !.pc = "publish", !.name = name]
    BY <1>5 DEF TickPut
  <2>2. stamps \in Nat /\ stamps' = stamps + 1 /\ UNCHANGED <<manifest, mode>>
    BY <1>5, <2>1 DEF TickPut, Stamp, boot, TypeInv, TypeOK, BucketOK
  <2>3. DOMAIN objects' = DOMAIN objects \cup {name} /\ DOMAIN objects \in SUBSET Int
    BY <2>1 DEF Stored, TypeInv, TypeOK, BucketOK
  <2>4. name \notin DOMAIN objects
    BY <1>0, <2>2 DEF Stamped
  <2>5. job'.pc = "publish" /\ job'.name = name /\ job'.man = job.man /\ job.pc = "put"
    BY <1>5, <2>1 DEF TickPut, TypeInv, TypeOK, JobOK
  <2>6. Stamped'
    BY <1>0, <2>2, <2>3 DEF Stamped
  <2>7. ManifestNeverDangles' /\ Distinct(manifest.entries)' /\ TickServes'
    BY <1>0, <2>2, <2>3, <2>5 DEF ManifestNeverDangles, Names, Distinct, TickServes
  <2>8. ManBacked' /\ Uploaded' /\ Unpublished' /\ EvictedUnnamed'
    BY <1>0, <2>2, <2>3, <2>4, <2>5 DEF ManifestNeverDangles, Names, Distinct, ManBacked, Uploaded,
       Unpublished, EvictedUnnamed
  <2> QED BY <2>6, <2>7, <2>8 DEF DangleInv
<1>6. CASE TickPutFails
  <2>1. /\ job' = Idle /\ UNCHANGED <<manifest, objects>> /\ stamps \in Nat
        /\ stamps' = stamps + 1 /\ DOMAIN objects \in SUBSET Int
    BY <1>6 DEF TickPutFails, Fault, Unmeddled, TypeInv, TypeOK, BucketOK
  <2>2. Stamped' /\ ManifestNeverDangles'
    BY <1>0, <2>1 DEF Stamped, ManifestNeverDangles, Names
  <2> QED BY <2>1, <2>2, DangleEnds
<1>7. CASE TickPublish
  <2>1. /\ manifest' = Published(Retained(Pushed))
        /\ UNCHANGED <<objects, stamps, mode>> /\ job.pc = "publish"
        /\ job'.pc = "record" /\ job'.evicted = Pushed \ Retained(Pushed)
    BY <1>7 DEF TickPublish, boot, TypeInv, TypeOK, JobOK
  <2>2. Names(Pushed) \subseteq DOMAIN objects /\ Distinct(Pushed)
    BY <1>0, <2>1 DEF ManBacked, Uploaded, Pushed, Names, Distinct
  <2>3. Retained(Pushed) \subseteq Pushed /\ manifest'.entries = Retained(Pushed)
    BY <2>1 DEF Retained, Published
  <2>4. ManifestNeverDangles' /\ Distinct(manifest.entries)'
    BY <2>1, <2>2, <2>3 DEF ManifestNeverDangles, Names, Distinct
  <2>5. EvictedUnnamed'
    BY <2>1, <2>2, <2>3 DEF EvictedUnnamed, Names, Distinct
  <2>6. TickServes' /\ Stamped' /\ ManBacked' /\ Uploaded' /\ Unpublished'
    BY <1>0, <2>1 DEF TickServes, Stamped, ManBacked, Uploaded, Unpublished
  <2> QED BY <2>4, <2>5, <2>6 DEF DangleInv
<1>8. CASE TickPublishFails
  <2>1. /\ UNCHANGED <<objects, stamps, mode, manifest>> /\ job.pc = "publish"
        /\ job'.pc = "cleanup" /\ job'.name = job.name
    BY <1>8 DEF TickPublishFails, Fault, Unmeddled, boot, TypeInv, TypeOK, JobOK
  <2> QED
    BY <1>0, <2>1 DEF DangleInv, ManifestNeverDangles, Names, Distinct, TickServes, Stamped,
       ManBacked, Uploaded, Unpublished, EvictedUnnamed
<1>9. CASE TickCleanup
  <2>1. /\ job.pc = "cleanup" /\ job' = Idle /\ UNCHANGED <<manifest, stamps>>
        /\ objects' = objects \/ objects' = Without(job.name)
    BY <1>9 DEF TickCleanup
  <2>2. DOMAIN objects \ {job.name} \subseteq DOMAIN objects' /\ DOMAIN objects' \subseteq DOMAIN objects
    BY <2>1 DEF Without
  <2>3. Stamped' /\ ManifestNeverDangles'
    BY <1>0, <2>1, <2>2 DEF Stamped, ManifestNeverDangles, Unpublished, Names
  <2> QED BY <2>1, <2>3, DangleEnds
<1>10. ASSUME TickRecord \/ TickRetain PROVE DangleInv'
  <2>1. /\ UNCHANGED <<objects, manifest, stamps, mode>> /\ job.pc \in {"record", "retain"}
        /\ job'.pc \in {"retain", "prune"} /\ job'.evicted = job.evicted
    BY <1>10 DEF TickRecord, TickRetain, bucket, boot, TypeInv, TypeOK, JobOK
  <2> QED
    BY <1>0, <2>1 DEF DangleInv, ManifestNeverDangles, Names, Distinct, TickServes, Stamped,
       ManBacked, Uploaded, Unpublished, EvictedUnnamed
<1>11. CASE TickPrune
  <2>1. UNCHANGED <<manifest, stamps, mode>> /\ job.pc = "prune"
    BY <1>11 DEF TickPrune, boot
  <2>2. CASE job.evicted = {}
    <3>1. job' = Idle /\ objects' = objects
      BY <1>11, <2>2 DEF TickPrune
    <3> QED BY <2>1, <3>1, <1>0, DangleEnds DEF Stamped, ManifestNeverDangles, Names
  <2>3. CASE job.evicted # {}
    <3>1. PICK e \in job.evicted :
            /\ job' = [job EXCEPT !.evicted = @ \ {e}]
            /\ objects' = objects \/ objects' = Without(e.name)
      BY <1>11, <2>3 DEF TickPrune
    <3>2. DOMAIN objects \ {e.name} \subseteq DOMAIN objects' /\ DOMAIN objects' \subseteq DOMAIN objects
      BY <3>1 DEF Without
    <3>3. job'.pc = "prune" /\ job'.evicted \subseteq job.evicted
      BY <2>1, <3>1 DEF TypeInv, TypeOK, JobOK
    <3>4. e.name \notin Names(manifest.entries)
      BY <1>0, <2>1 DEF EvictedUnnamed
    <3>5. Stamped' /\ ManifestNeverDangles' /\ EvictedUnnamed'
      BY <1>0, <2>1, <3>2, <3>3, <3>4 DEF Stamped, ManifestNeverDangles, EvictedUnnamed, Names
    <3> QED
      BY <1>0, <2>1, <3>3, <3>5 DEF DangleInv, Distinct, TickServes, ManBacked, Uploaded, Unpublished
  <2> QED BY <2>2, <2>3
<1>12. ASSUME Commit \/ Boot \/ Stop \/ (\E v \in Volumes : Wipe(v)) PROVE DangleInv'
  <2>1. UNCHANGED <<objects, manifest, stamps, job>> /\ (mode' = mode \/ job.pc = "idle")
    BY <1>12, <1>0 DEF Commit, Boot, Stop, Wipe, bucket, boot, TickServes
  <2> QED BY <2>1, DangleIdle
<1>13. CASE Crash
  <2>1. UNCHANGED <<objects, manifest, stamps>> /\ job' = Idle
    BY <1>13 DEF Crash, bucket
  <2> QED BY <2>1, <1>0, DangleEnds DEF Stamped, ManifestNeverDangles, Names
<1>14. ASSUME NEW n \in DOMAIN objects, CorruptObject(n) \/ LoseObject(n) PROVE DangleInv'
  <2>1. /\ UNCHANGED <<manifest, stamps, job, mode>>
        /\ DOMAIN objects' = DOMAIN objects
    BY <1>14 DEF CorruptObject, LoseObject, Fault, Unmeddled, boot
  <2> QED
    BY <1>0, <2>1 DEF DangleInv, ManifestNeverDangles, Names, Distinct, TickServes, Stamped,
       ManBacked, Uploaded, Unpublished, EvictedUnnamed
<1>15. CASE GarbleManifest
  <2>1. UNCHANGED <<objects, stamps, job, mode>> /\ manifest'.entries = {}
    BY <1>15 DEF GarbleManifest, boot
  <2> QED
    BY <1>0, <2>1 DEF DangleInv, ManifestNeverDangles, Names, Distinct, TickServes, Stamped,
       ManBacked, Uploaded, Unpublished, EvictedUnnamed
<1>16. CASE ClearBucket
  <2>1. /\ UNCHANGED <<stamps, job, mode>> /\ manifest'.entries = {} /\ DOMAIN objects' = {}
        /\ job.pc = "idle"
    BY <1>16, <1>0 DEF ClearBucket, boot, TickServes
  <2> QED
    BY <1>0, <2>1 DEF DangleInv, ManifestNeverDangles, Names, Distinct, TickServes, Stamped,
       ManBacked, Uploaded, Unpublished, EvictedUnnamed
<1>17. CASE UNCHANGED vars
  BY <1>17, DangleIdle DEF vars, bucket, boot
<1> QED
  BY <1>1, <1>2, <1>3, <1>4, <1>5, <1>6, <1>7, <1>8, <1>9, <1>10, <1>11, <1>12, <1>13, <1>14,
     <1>15, <1>16, <1>17 DEF Next, TickStep, World

(* No interleaving of ticks, crashes, failed requests, wipes, damage and   *)
(* restores leaves the manifest naming a dump that is not in the bucket,   *)
(* for any number of volumes, faults and retained backups (dump.rs:19-22). *)
THEOREM NeverDangles ==
  ASSUME Unmeddled
  PROVE  Spec => []ManifestNeverDangles
<1>1. TypeInv /\ DangleInv /\ [Next]_vars => DangleInv'
  BY DangleNext
<1>2. Spec => [](TypeInv /\ DangleInv)
  BY <1>1, InitType, NextType, DangleInit, PTL DEF Spec
<1>3. DangleInv => ManifestNeverDangles
  BY DEF DangleInv
<1> QED BY <1>2, <1>3, PTL

=============================================================================
