------------------------------ MODULE StateSync ------------------------------
(***************************************************************************)
(* The state sync of the supervisor (runtime/sync/state.rs): the boot-time *)
(* pull with its reconciliation pass, and the push that runs after boot,   *)
(* on a cadence and at shutdown.                                           *)
(*                                                                         *)
(* Rels are the files of the durable set.  The content of a file is the    *)
(* number of the write that produced it, so a greater number is a newer    *)
(* content, a hash is the content it is the hash of, and 0 stands for      *)
(* absent.  A manifest entry is the hash it records; where the size it     *)
(* records is not the size of the content of that hash, the file is in     *)
(* "misfit".  The (size, mtime, ctime) key of the hash cache changes with  *)
(* every write: a cache entry is modelled while it still matches the file, *)
(* as the hash it remembers; a shadow entry while its size fits, for one   *)
(* whose size does not matches no file again.  Files are handled in any    *)
(* order, which covers the sorted one.  One container runs at a time, as   *)
(* the code requires.                                                      *)
(*                                                                         *)
(* Faults, at most MaxFaults of them:                                      *)
(*   "put"    a PUT fails and did not take effect                          *)
(*   "landed" a PUT is reported as failed although it took effect          *)
(*   "get"    a GET fails (and, at the start of a pull or a push, the      *)
(*            listing with it)                                             *)
(*   "list"   a listing fails                                              *)
(*   "local"  a local file cannot be read or written                       *)
(*   "resize" a file is written at another size between its metadata and   *)
(*            its hash                                                     *)
(*   "race"   a file is written between its hash and its upload            *)
(*   "abort"  a stop cuts a push off; the container may push once more     *)
(*   "crash"  the container dies, or its drain abandons the push           *)
(*   "wipe"   the volume is lost (an ephemeral redeploy)                   *)
(*   "garble" the manifest becomes unparsable                              *)
(*   "lose"   an object is deleted by somebody else                        *)
(***************************************************************************)
EXTENDS Integers, Sequences, SequencesExt

CONSTANTS
  Rels,       \* the files of the durable set
  Layouts,    \* what the bucket may hold at the start: "fresh" (nothing),
              \* "legacy" (path keys, no manifest), "inherited" (path keys and
              \* a manifest that names them)
  MaxWrites,  \* bound: contents each file may have over time
  Faults,     \* the kinds of fault that may happen
  MaxFaults   \* bound: how many of them

FaultKinds == {"put", "landed", "get", "list", "local", "resize", "race", "abort",
               "crash", "wipe", "garble", "lose"}

ASSUME SyncAssumption ==
  /\ Layouts \subseteq {"fresh", "legacy", "inherited"}
  /\ MaxWrites \in Nat \ {0}
  /\ Faults \subseteq FaultKinds
  /\ MaxFaults \in Nat

VARIABLES
  cas,       \* bucket: objects/<rel>/<sha256>, per file in the order they were
             \* last PUT: [hash, data]
  legacy,    \* bucket: the path-keyed objects
  manifest,  \* bucket: [state |-> absent | ok | garbled, entries, misfit]
  files,     \* volume: the durable files
  cache,     \* volume: .sync-cache
  repair,    \* volume: .sync-repair
  shadow,    \* volume: .sync-pending-manifest
  mode,      \* "down", "pull", "serving"
  pull,      \* the pull in progress
  push,      \* the push in progress
  written,   \* writes made so far, per file
  acked,     \* the contents the last successful pushes have covered
  faults,    \* faults so far
  orphaned,  \* files whose path-keyed copy a published manifest has omitted
  unseen     \* files an object of which was lost and that no boot has noted since,
             \* or whose note was lost

bucket == <<cas, legacy, manifest>>
volume == <<files, cache, repair, shadow>>
aux    == <<written, acked, faults, orphaned, unseen>>
vars   == <<bucket, volume, mode, pull, push, aux>>

-----------------------------------------------------------------------------
Nothing == [r \in Rels |-> 0]
Present(f) == {r \in Rels : f[r] # 0}

NoPull == [man |-> Nothing, misfit |-> {}, known |-> FALSE, todo |-> {}]

Idle == [pc |-> "idle", list |-> {}, todo |-> {}, rel |-> "none", hash |-> 0, fresh |-> FALSE,
         sized |-> FALSE, man |-> Nothing, misfit |-> {}, publish |-> FALSE, repair |-> {},
         cache |-> Nothing, pushed |-> FALSE, stored |-> FALSE, failed |-> FALSE]

Fault(kind) ==
  /\ kind \in Faults
  /\ faults < MaxFaults
  /\ faults' = faults + 1

(* An upload to a content-addressed key: it replaces the object under that *)
(* key and is the last in its file's PUT order.                            *)
PutObject(r, hash, data) ==
  LET same == {i \in DOMAIN cas[r] : cas[r][i].hash = hash}
      rest == IF same = {} THEN cas[r] ELSE RemoveAt(cas[r], CHOOSE i \in same : TRUE)
  IN [cas EXCEPT ![r] = Append(rest, [hash |-> hash, data |-> data])]

(* A GET of either key whose content has the recorded hash.                *)
Held(r, hash) ==
  \/ [hash |-> hash, data |-> hash] \in ToSet(cas[r])
  \/ legacy[r] = hash

(* What is found under the key of an entry, and under the path key.        *)
Copies(r, hash) ==
  {o.data : o \in {c \in ToSet(cas[r]) : c.hash = hash}} \cup ({legacy[r]} \ {0})

(* The reconciliation compares sizes: the content itself has the recorded  *)
(* size if the entry fits it, any other may happen to have it (alike).     *)
HeldBySize(r, hash, misfit, alike) ==
  \/ r \notin misfit /\ hash \in Copies(r, hash)
  \/ r \in alike /\ Copies(r, hash) \ {hash} # {}

(* choose_newest, and the hash check of the GET that follows.              *)
Newest(r) ==
  IF cas[r] # <<>> /\ Last(cas[r]).data = Last(cas[r]).hash THEN Last(cas[r]).hash ELSE 0

(* remote_only_files.                                                      *)
RemoteOnly == {r \in Rels : (legacy[r] # 0 \/ cas[r] # <<>>) /\ files[r] = 0}

(* What a failed write leaves of a small file: it is truncated first.      *)
AfterFailedWrite(old, empty) == {old, empty}

-----------------------------------------------------------------------------
(* restore_state_at.                                                       *)

(* The manifest, or the path-keyed listing when there is none or it cannot *)
(* be read; without either the pull is over.                               *)
PullStart ==
  /\ mode = "down"
  /\ \E readable \in BOOLEAN :
       /\ readable => manifest.state = "ok" /\ UNCHANGED faults
       /\ ~readable => ((manifest.state # "ok" /\ UNCHANGED faults) \/ Fault("get"))
       /\ pull' = IF readable
                  THEN [man |-> manifest.entries, misfit |-> manifest.misfit, known |-> TRUE,
                        todo |-> Present(manifest.entries)]
                  ELSE [NoPull EXCEPT !.todo = Present(legacy)]
  /\ mode' = "pull"
  /\ UNCHANGED <<bucket, volume, push, written, acked, orphaned, unseen>>

(* No manifest and no listing: the boot goes on without a pull.            *)
PullFails ==
  /\ mode = "down"
  /\ (manifest.state # "ok" /\ Fault("list")) \/ Fault("get")
  /\ mode' = "serving"
  /\ UNCHANGED <<bucket, volume, pull, push, written, acked, orphaned, unseen>>

Restored(r, content) ==
  /\ files' = [files EXCEPT ![r] = content]
  /\ cache' = [cache EXCEPT ![r] = 0]

(* One target: kept when the file exists, else fetched and its size and    *)
(* hash verified.                                                          *)
PullFile(r) ==
  /\ mode = "pull" /\ r \in pull.todo
  /\ pull' = [pull EXCEPT !.todo = @ \ {r}]
  /\ LET content == IF ~pull.known THEN legacy[r]
                    ELSE IF r \notin pull.misfit /\ Held(r, pull.man[r]) THEN pull.man[r]
                    ELSE 0
     IN IF files[r] = 0 /\ content # 0
        THEN \/ Restored(r, content) /\ UNCHANGED faults
             \/ Fault("get") /\ UNCHANGED <<files, cache>>
        ELSE UNCHANGED <<files, cache, faults>>
  /\ UNCHANGED <<bucket, repair, shadow, mode, push, written, acked, orphaned, unseen>>

(* reconcile_objects: what the manifest does not name is recovered for     *)
(* files that are missing, and what it names is looked up in the listing.  *)
Reconcile ==
  /\ mode = "pull" /\ pull.todo = {}
  /\ \E missed, alike \in SUBSET Rels, noted \in BOOLEAN :
       /\ IF missed = {} /\ noted THEN UNCHANGED faults
          ELSE IF noted THEN Fault("get") ELSE missed = {} /\ Fault("local")
       /\ files' = [r \in Rels |->
                      IF files[r] = 0 /\ pull.man[r] = 0 /\ r \notin missed
                      THEN Newest(r) ELSE files[r]]
       /\ cache' = [r \in Rels |-> IF files'[r] = files[r] THEN cache[r] ELSE 0]
       /\ LET named == Present(pull.man)
              held  == {r \in named : HeldBySize(r, pull.man[r], pull.misfit, alike)}
          IN IF noted
             THEN repair' = (repair \ held) \cup {r \in named \ held : files'[r] # 0}
             ELSE repair' \in AfterFailedWrite(repair, {})
       /\ unseen' = IF noted /\ pull.known
                    THEN {r \in Present(pull.man) \ pull.misfit :
                            /\ ~Held(r, pull.man[r])
                            /\ HeldBySize(r, pull.man[r], pull.misfit, alike)}
                    ELSE unseen \cup (repair \ repair')
  /\ mode' = "serving"
  /\ pull' = NoPull
  /\ UNCHANGED <<bucket, shadow, push, written, acked, orphaned>>

ReconcileSkipped ==
  /\ mode = "pull" /\ pull.todo = {}
  /\ Fault("list")
  /\ mode' = "serving"
  /\ pull' = NoPull
  /\ UNCHANGED <<bucket, volume, push, written, acked, orphaned, unseen>>

-----------------------------------------------------------------------------
(* sync_state_at.                                                          *)

(* A manifest that was not loaded is rebuilt and published only when the   *)
(* bucket holds nothing that is missing locally; else, or when that cannot *)
(* be told, this run keeps the path-keyed layout and the local shadow.     *)
PushStart ==
  /\ mode = "serving" /\ push.pc = "idle"
  /\ Present(files) # {}
  /\ \E loaded, publish \in BOOLEAN :
       /\ \/ loaded /\ manifest.state = "ok" /\ publish /\ UNCHANGED faults
          \/ /\ ~loaded /\ manifest.state # "ok"
             /\ IF publish = (RemoteOnly = {}) THEN UNCHANGED faults
                                               ELSE ~publish /\ Fault("list")
          \/ ~loaded /\ (publish => RemoteOnly = {}) /\ Fault("get")
       /\ push' = [Idle EXCEPT !.pc = "file", !.list = Present(files), !.todo = Present(files),
                               !.publish = publish,
                               !.man = IF loaded THEN manifest.entries
                                       ELSE IF publish THEN Nothing ELSE shadow,
                               !.misfit = IF loaded THEN manifest.misfit ELSE {},
                               !.repair = repair, !.cache = cache]
  /\ UNCHANGED <<bucket, volume, mode, pull, written, acked, orphaned, unseen>>

(* The manifest records this content of a file, its size included.         *)
Records(r, hash) == hash # 0 /\ push.man[r] = hash /\ r \notin push.misfit

(* The next file: its metadata, and a skip when the manifest records the   *)
(* hash the cache remembers, and the size.                                 *)
PushFile(r) ==
  /\ push.pc = "file" /\ r \in push.todo
  /\ LET rest == [push EXCEPT !.todo = @ \ {r}]
     IN \/ /\ files[r] # 0
           /\ push' = IF r \notin push.repair /\ Records(r, push.cache[r]) THEN rest
                      ELSE [rest EXCEPT !.pc = "hash", !.rel = r, !.fresh = TRUE, !.sized = TRUE]
           /\ UNCHANGED faults
        \/ /\ (files[r] = 0 /\ UNCHANGED faults) \/ Fault("local")
           /\ push' = [rest EXCEPT !.failed = TRUE]
  /\ UNCHANGED <<bucket, volume, mode, pull, written, acked, orphaned, unseen>>

(* Mutant: the hash is remembered for the file as it is now.               *)
RecordedLate(hash) == [push.cache EXCEPT ![push.rel] = hash]

(* cache.record under the metadata read before the hash: the entry is of   *)
(* use only while the file has not been written since.                     *)
Recorded(hash) == [push.cache EXCEPT ![push.rel] = IF push.fresh THEN hash ELSE 0]

(* Mutant: a file is skipped by its hash, whatever size the manifest has.  *)
PushHashIgnoresSize ==
  /\ push.pc = "hash"
  /\ \/ /\ files[push.rel] # 0
        /\ LET hash == files[push.rel]
           IN push' = IF push.rel \notin push.repair /\ push.man[push.rel] = hash
                      THEN [push EXCEPT !.pc = "file", !.cache = Recorded(hash)]
                      ELSE [push EXCEPT !.pc = "put", !.hash = hash]
        /\ UNCHANGED faults
     \/ /\ (files[push.rel] = 0 /\ UNCHANGED faults) \/ Fault("local")
        /\ push' = [push EXCEPT !.pc = "file", !.failed = TRUE]
  /\ UNCHANGED <<bucket, volume, mode, pull, written, acked, orphaned, unseen>>

(* sha256_file: the content is skipped when the manifest records it at the *)
(* size the metadata had.                                                  *)
PushHash ==
  /\ push.pc = "hash"
  /\ \/ /\ files[push.rel] # 0
        /\ LET hash == files[push.rel]
           IN push' = IF push.rel \notin push.repair /\ push.sized /\ Records(push.rel, hash)
                      THEN [push EXCEPT !.pc = "file", !.cache = Recorded(hash)]
                      ELSE [push EXCEPT !.pc = "put", !.hash = hash]
        /\ UNCHANGED faults
     \/ /\ (files[push.rel] = 0 /\ UNCHANGED faults) \/ Fault("local")
        /\ push' = [push EXCEPT !.pc = "file", !.failed = TRUE]
  /\ UNCHANGED <<bucket, volume, mode, pull, written, acked, orphaned, unseen>>

(* Mutant: every upload goes to the path key.                              *)
UploadInPlace ==
  /\ legacy' = [legacy EXCEPT ![push.rel] = files[push.rel]]
  /\ UNCHANGED cas

(* client.put reads the file again, and stores what it reads under the key *)
(* of the hash, or under the path key.                                     *)
Upload ==
  IF push.publish
  THEN cas' = PutObject(push.rel, push.hash, files[push.rel]) /\ UNCHANGED legacy
  ELSE legacy' = [legacy EXCEPT ![push.rel] = files[push.rel]] /\ UNCHANGED cas

(* Mutant: the manifest is updated before the upload has succeeded.        *)
PushPutFailsRecorded ==
  /\ push.pc = "put"
  /\ \/ ((files[push.rel] = 0 /\ UNCHANGED faults) \/ Fault("put")) /\ UNCHANGED <<cas, legacy>>
     \/ files[push.rel] # 0 /\ Fault("landed") /\ Upload
  /\ push' = [push EXCEPT !.pc = "file", !.failed = TRUE, !.man[push.rel] = push.hash,
                          !.pushed = TRUE]
  /\ UNCHANGED <<manifest, volume, mode, pull, written, acked, orphaned, unseen>>

(* The entry has the hash, and the size of the metadata read before it.    *)
PushPut ==
  /\ push.pc = "put" /\ files[push.rel] # 0
  /\ Upload
  /\ push' = [push EXCEPT !.pc = "file", !.man[push.rel] = push.hash,
                          !.misfit = IF push.sized THEN @ \ {push.rel} ELSE @ \cup {push.rel},
                          !.cache = Recorded(push.hash), !.repair = @ \ {push.rel},
                          !.pushed = TRUE]
  /\ UNCHANGED <<manifest, volume, mode, pull, aux>>

PushPutFails ==
  /\ push.pc = "put"
  /\ \/ ((files[push.rel] = 0 /\ UNCHANGED faults) \/ Fault("put")) /\ UNCHANGED <<cas, legacy>>
     \/ files[push.rel] # 0 /\ Fault("landed") /\ Upload
  /\ push' = [push EXCEPT !.pc = "file", !.failed = TRUE]
  /\ UNCHANGED <<manifest, volume, mode, pull, written, acked, orphaned, unseen>>

Rewritten == [state |-> "ok", entries |-> push.man, misfit |-> push.misfit]

(* Every file is handled: store_manifest when something was uploaded to    *)
(* content-addressed keys.                                                 *)
PushManifest ==
  /\ push.pc = "file" /\ push.todo = {}
  /\ IF push.pushed /\ push.publish
     THEN \/ /\ manifest' = Rewritten
             /\ push' = [push EXCEPT !.pc = "save", !.stored = TRUE]
             /\ UNCHANGED faults
          \/ /\ \/ Fault("put") /\ UNCHANGED manifest
                \/ Fault("landed") /\ manifest' = Rewritten
             /\ push' = [push EXCEPT !.pc = "save", !.failed = TRUE]
     ELSE push' = [push EXCEPT !.pc = "save"] /\ UNCHANGED <<manifest, faults>>
  /\ orphaned' = orphaned \cup {r \in Present(legacy) : manifest' # manifest /\ push.man[r] = 0}
  /\ UNCHANGED <<cas, legacy, volume, mode, pull, written, acked, unseen>>

(* What a shadow of this run can still be compared with.                   *)
Pending == [r \in Rels |-> IF r \in push.misfit THEN 0 ELSE push.man[r]]

(* Mutant: uploaded or not, every file is off the repair list.              *)
PushSaveForgets ==
  /\ push.pc = "save"
  /\ shadow' = IF push.stored THEN Nothing
               ELSE IF push.pushed /\ ~push.publish THEN Pending ELSE shadow
  /\ repair' = {}
  /\ cache' = push.cache
  /\ acked' = IF push.failed THEN acked
              ELSE [r \in Rels |-> IF push.man[r] # 0 THEN push.man[r] ELSE acked[r]]
  /\ push' = Idle
  /\ UNCHANGED <<bucket, files, mode, pull, written, orphaned, unseen, faults>>

(* The shadow, the repair list and the cache, each best effort.            *)
PushSave ==
  /\ push.pc = "save"
  /\ LET pending == push.pushed /\ ~push.publish
         repairs == push.repair \cap push.list
     IN \E lost \in SUBSET {"shadow", "repair", "cache"} :
          /\ IF lost = {} THEN UNCHANGED faults ELSE Fault("local")
          /\ shadow' \in IF "shadow" \notin lost
                         THEN {IF push.stored THEN Nothing ELSE IF pending THEN Pending ELSE shadow}
                         ELSE IF pending THEN AfterFailedWrite(shadow, Nothing) ELSE {shadow}
          /\ repair' \in IF "repair" \notin lost THEN {repairs} ELSE AfterFailedWrite(repair, {})
          /\ cache' \in IF "cache" \notin lost THEN {push.cache}
                        ELSE AfterFailedWrite(cache, Nothing)
          /\ unseen' = unseen \cup (repairs \ repair')
  /\ acked' = IF push.failed THEN acked
              ELSE [r \in Rels |-> IF push.man[r] # 0 THEN push.man[r] ELSE acked[r]]
  /\ push' = Idle
  /\ UNCHANGED <<bucket, files, mode, pull, written, orphaned>>

(* A stop observed between two files: what this run knows is forgotten.    *)
PushAborts ==
  /\ push.pc = "file" /\ push.todo # {}
  /\ Fault("abort")
  /\ push' = Idle
  /\ UNCHANGED <<bucket, volume, mode, pull, written, acked, orphaned, unseen>>

-----------------------------------------------------------------------------
(* The vault and tailscaled, the container's end, and the world outside.   *)

(* A write changes the file's timestamps, so what a cache says of it no    *)
(* longer matches; the size a push has read may not be its size any more.  *)
Touched(r, sized) ==
  /\ cache' = [cache EXCEPT ![r] = 0]
  /\ push' = [push EXCEPT !.cache[r] = 0, !.fresh = @ /\ push.rel # r, !.sized = sized]

Write(r) ==
  /\ mode = "serving"
  /\ written[r] < MaxWrites
  /\ written' = [written EXCEPT ![r] = @ + 1]
  /\ files' = [files EXCEPT ![r] = written[r] + 1]
  /\ \/ /\ Touched(r, push.sized)
        /\ IF push.pc = "put" /\ push.rel = r THEN Fault("race") ELSE UNCHANGED faults
     \/ /\ push.pc = "hash" /\ push.rel = r
        /\ Touched(r, FALSE) /\ Fault("resize")
  /\ UNCHANGED <<bucket, repair, shadow, mode, pull, acked, orphaned, unseen>>

Unlink(r) ==
  /\ mode = "serving"
  /\ files[r] # 0
  /\ files' = [files EXCEPT ![r] = 0]
  /\ Touched(r, push.sized)
  /\ UNCHANGED <<bucket, repair, shadow, mode, pull, aux>>

Stop ==
  /\ mode = "serving" /\ push.pc = "idle"
  /\ mode' = "down"
  /\ UNCHANGED <<bucket, volume, pull, push, aux>>

Crash ==
  /\ mode # "down"
  /\ Fault("crash")
  /\ mode' = "down" /\ pull' = NoPull /\ push' = Idle
  /\ UNCHANGED <<bucket, volume, written, acked, orphaned, unseen>>

Wipe ==
  /\ mode = "down"
  /\ Fault("wipe")
  /\ files' = Nothing /\ cache' = Nothing /\ repair' = {} /\ shadow' = Nothing
  /\ UNCHANGED <<bucket, mode, pull, push, written, acked, orphaned, unseen>>

Garble ==
  /\ manifest.state = "ok"
  /\ Fault("garble")
  /\ manifest' = [state |-> "garbled", entries |-> Nothing, misfit |-> {}]
  /\ UNCHANGED <<cas, legacy, volume, mode, pull, push, written, acked, orphaned, unseen>>

Lose(r) ==
  /\ Fault("lose")
  /\ \/ /\ legacy[r] # 0
        /\ legacy' = [legacy EXCEPT ![r] = 0] /\ UNCHANGED cas
     \/ /\ \E i \in DOMAIN cas[r] : cas' = [cas EXCEPT ![r] = RemoveAt(@, i)]
        /\ UNCHANGED legacy
  /\ unseen' = unseen \cup {r}
  /\ UNCHANGED <<manifest, volume, mode, pull, push, written, acked, orphaned>>

-----------------------------------------------------------------------------
(* A fresh deployment, or one whose files some were synced by an older     *)
(* release: to path keys, with or without a manifest that names them.      *)
Init ==
  \E layout \in Layouts, held, local \in SUBSET Rels :
    LET old == [r \in Rels |-> IF r \in held THEN 1 ELSE 0]
    IN /\ local \subseteq held
       /\ layout = "fresh" => held = {}
       /\ cas = [r \in Rels |-> <<>>]
       /\ legacy = old
       /\ manifest = IF layout = "inherited" THEN [state |-> "ok", entries |-> old, misfit |-> {}]
                     ELSE [state |-> "absent", entries |-> Nothing, misfit |-> {}]
       /\ files = [r \in Rels |-> IF r \in local THEN 1 ELSE 0]
       /\ cache = Nothing /\ repair = {} /\ shadow = Nothing
       /\ mode = "down" /\ pull = NoPull /\ push = Idle
       /\ written = old /\ acked = old /\ faults = 0 /\ orphaned = {} /\ unseen = {}

PullStep == PullStart \/ PullFails \/ (\E r \in Rels : PullFile(r)) \/ Reconcile
              \/ ReconcileSkipped

PushStep == PushStart \/ (\E r \in Rels : PushFile(r)) \/ PushHash \/ PushPut \/ PushPutFails
              \/ PushManifest \/ PushSave

World == (\E r \in Rels : Write(r) \/ Unlink(r) \/ Lose(r)) \/ Stop \/ PushAborts \/ Crash \/ Wipe
           \/ Garble

Next == PullStep \/ PushStep \/ World

Spec == Init /\ [][Next]_vars

(* The reactor runs a push on its cadence for as long as the vault serves. *)
FairSpec == Spec /\ WF_vars(PullStep) /\ WF_vars(PushStep)

-----------------------------------------------------------------------------
Content == 0..MaxWrites
Objects == [hash : Content \ {0}, data : Content \ {0}]
Pushes ==
  [pc : {"idle", "file", "hash", "put", "save"}, list : SUBSET Rels, todo : SUBSET Rels,
   rel : Rels \cup {"none"}, hash : Content, fresh : BOOLEAN, sized : BOOLEAN,
   man : [Rels -> Content], misfit : SUBSET Rels, publish : BOOLEAN, repair : SUBSET Rels,
   cache : [Rels -> Content], pushed : BOOLEAN, stored : BOOLEAN, failed : BOOLEAN]

TypeOK ==
  /\ cas \in [Rels -> Seq(Objects)]
  /\ manifest \in [state : {"absent", "ok", "garbled"}, entries : [Rels -> Content],
                  misfit : SUBSET Rels]
  /\ {legacy, files, cache, shadow, written, acked} \subseteq [Rels -> Content]
  /\ repair \subseteq Rels /\ orphaned \subseteq Rels /\ unseen \subseteq Rels
  /\ mode \in {"down", "pull", "serving"}
  /\ pull \in [man : [Rels -> Content], misfit : SUBSET Rels, known : BOOLEAN, todo : SUBSET Rels]
  /\ push \in Pushes
  /\ push.pc \in {"hash", "put"} => push.rel \in Rels
  /\ push.pc = "put" => push.hash # 0
  /\ push.todo \subseteq push.list
  /\ faults \in 0..MaxFaults

-----------------------------------------------------------------------------
(* Properties.                                                             *)

(* The manifest records the size and the hash of one content of each file  *)
(* (state.rs:16-17).                                                       *)
SizesAreTrue == manifest.misfit = {}

(* Whatever the manifest names can be fetched and passes its checks, at    *)
(* every moment of every push: an interrupted push never replaces the copy *)
(* the previous manifest references (state.rs:19-22, 102-105).  The entry  *)
(* of a file that was resized between its size and its hash is the         *)
(* exception: no pull accepts the object it names (state.rs:489-493,       *)
(* 624-651).                                                               *)
ManifestHeld ==
  \A r \in Present(manifest.entries) \ manifest.misfit : Held(r, manifest.entries[r])

(* What a pull onto an empty volume would bring back of a file.            *)
Pulled(r) ==
  IF manifest.state = "ok" /\ manifest.entries[r] # 0
  THEN IF r \notin manifest.misfit /\ Held(r, manifest.entries[r])
       THEN manifest.entries[r] ELSE 0
  ELSE IF manifest.state # "ok" /\ legacy[r] # 0 THEN legacy[r] ELSE Newest(r)

(* What a push has reported as saved survives the loss of the volume: a    *)
(* pull onto an empty one brings back that content or a newer one, in the  *)
(* middle of any later push and after any crash (state.rs:1-8, 548-551).   *)
(* Files a rebuilt manifest has orphaned are an exception, and so is a     *)
(* file while the manifest records it at another content's size.           *)
AckedIsRestorable == \A r \in Rels \ (orphaned \cup manifest.misfit) : Pulled(r) >= acked[r]

(* No file is skipped on a record that the bucket does not back: a file    *)
(* whose content the working manifest or the local shadow records can be   *)
(* fetched as it is (state.rs:201-203, 608-614).                           *)
SkipsAreHeld ==
  \A r \in Present(files) :
    /\ Records(r, files[r]) /\ r \notin push.repair => Held(r, files[r])
    /\ shadow[r] = files[r] => Held(r, files[r])

(* A remembered hash is the hash of the file as it is, also when the file  *)
(* is written between its metadata and its hash (cache.rs:1-7).            *)
CacheIsCurrent ==
  \A r \in Rels :
    /\ cache[r] # 0 => cache[r] = files[r]
    /\ push.cache[r] # 0 => push.cache[r] = files[r]

(* Once a boot has looked, no file is left whose object is gone and whose  *)
(* manifest entry would still make every push skip it: it stays on the     *)
(* repair list until it has been uploaded (state.rs:261-263, 723-727).     *)
LossIsRecorded ==
  mode = "serving" =>
    \A r \in Present(files) \ (unseen \cup manifest.misfit) :
      manifest.entries[r] = files[r] /\ ~Held(r, files[r]) => r \in repair

(* Recovery takes the newest version of every file a boot found missing,   *)
(* also when the manifest cannot be read (state.rs:258-260).               *)
RecoversNewest ==
  [][mode = "pull" /\ mode' = "serving" /\ ~pull.known /\ faults' = faults =>
       \A r \in Rels : files'[r] # files[r] \/ files[r] >= Newest(r)]_vars

(* A manifest that is published covers every file the bucket holds, or it  *)
(* would orphan the files it omits (state.rs:580-582).                     *)
PublishOrphansNothing ==
  [][manifest' # manifest /\ manifest'.state = "ok" =>
       \A r \in Present(legacy) : manifest'.entries[r] # 0]_vars

(* A file of a serving vault is eventually held by the bucket as it is,    *)
(* however many pushes failed or were cut off before - unless its object   *)
(* was lost since the last boot that could look.                           *)
EventuallySynced ==
  \A r \in Rels :
    mode = "serving" /\ files[r] # 0 ~>
      mode # "serving" \/ files[r] = 0 \/ r \in unseen \/ Pulled(r) = files[r]

=============================================================================
