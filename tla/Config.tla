-------------------------------- MODULE Config --------------------------------
(***************************************************************************)
(* How the supervisor resolves its configuration at boot (config/: the     *)
(* dotenv file, the knob table, the scalar and feature resolvers, the      *)
(* database URL) and what environment it grants the vault                  *)
(* (runtime/services/vaultwarden.rs, runtime/process/env.rs).              *)
(*                                                                         *)
(* A key is the sequence of its words, <<"VAULTWARDEN", "PORT">>, so that  *)
(* a prefix is a first word.  A value is a sequence of tokens: a numeral,  *)
(* a flag or a path is one token, a database URL is one token a character. *)
(* The empty sequence is the empty string, which counts as unset.          *)
(***************************************************************************)
EXTENDS Integers, Sequences, SequencesExt, FiniteSetsExt, TLC

CONSTANTS
  Numbers,      \* token -> the number it is the numeral of
  Byte,         \* <<hex digit, hex digit>> -> the token of that byte
  MaxPort,      \* u16::MAX
  MaxInterval,  \* MAX_INTERVAL_SECS
  MaxKeep,      \* MAX_BACKUP_KEEP
  Bases,        \* environments a deployment starts from: [env, edits]
  EnvInputs,    \* settings an edit may put into the environment: <<key, value>>
  FileLines,    \* lines an edit may add to the dotenv file: <<key, value>>, <<>> malformed
  MaxEdits      \* bound: edits in total

DefaultPort == 8080       \* the knob table's default of VAULTWARDEN_PORT
IntervalDefault == 21600  \* BACKUP_INTERVAL_DEFAULT
SyncDefault == 3600       \* SYNC_INTERVAL_DEFAULT
KeepDefault == 3          \* BACKUP_KEEP_DEFAULT

Words == Seq(STRING)   \* keys and values alike

ASSUME ConfigAssumption ==
  /\ \A t \in DOMAIN Numbers : Numbers[t] \in Nat
  /\ DefaultPort <= MaxPort /\ KeepDefault <= MaxKeep
  /\ IntervalDefault <= MaxInterval /\ SyncDefault <= MaxInterval
  /\ MaxEdits \in Nat
  /\ \A b \in Bases : DOMAIN b.env \subseteq Words /\ \A k \in DOMAIN b.env : b.env[k] \in Words
  /\ \A e \in EnvInputs : e[1] \in Words /\ e[2] \in Words
  /\ \A l \in FileLines : l # <<>> => l[1] \in Words /\ l[2] \in Words

VARIABLES
  ambient,   \* the container's environment: key -> value
  file,      \* the dotenv file: [readable, lines]
  mode,      \* "off", "booted" or "running"
  config,    \* what the boot resolved
  child,     \* the vault's environment
  webVault,  \* the image holds a web vault
  edits,     \* edits so far
  read       \* history: the lines the boot read

vars == <<ambient, file, mode, config, child, webVault, edits, read>>

-----------------------------------------------------------------------------
(* Namespaces and the knob table.                                          *)

Tailscale == {"TAILSCALE"} \X
  {"AUTHKEY", "STATE_FILE", "SOCKET", "HOSTNAME", "SERVE", "SERVICE", "USERSPACE"}
Supervisor == {"SUPERVISOR"} \X
  {"DB_BACKUP", "DB_BACKUP_INTERVAL", "DB_BACKUP_KEEP", "DB_BACKUP_RESTORE", "S3_REMOTE",
   "S3_ACCESS_KEY_ID", "S3_SECRET_ACCESS_KEY", "S3_ENDPOINT", "S3_SYNC_INTERVAL"}
PortKey == <<"VAULTWARDEN", "PORT">>
LegacyPort == <<"VAULTWARDEN", "ROCKET_PORT">>
EnvFile == <<"SUPERVISOR", "ENV_FILE">>
DatabaseUrl == <<"VAULTWARDEN", "DATABASE_URL">>

FileKnobs == Tailscale \union Supervisor \union {PortKey}

Knobs == FileKnobs \union {LegacyPort, EnvFile}

IsSupervisorKey(k) == Len(k) > 1 /\ k[1] \in {"TAILSCALE", "SUPERVISOR"}
ConsumedChildKey(k) == k[1] = "VAULTWARDEN" /\ k \in Knobs
Consumed(k) == IsSupervisorKey(k) \/ ConsumedChildKey(k)

\* The key is Tail(k) to the vault.
IsVaultwardenKey(k) == Len(k) > 1 /\ k[1] = "VAULTWARDEN" /\ Tail(k) # <<"">>

-----------------------------------------------------------------------------
(* The environment and the file.                                           *)

Unset == <<>>
Utf8(v) == \A i \in DOMAIN v : v[i] # "raw"

FromEnv(k) == IF k \in DOMAIN ambient /\ Utf8(ambient[k]) THEN ambient[k] ELSE Unset

\* FileConfig::load: a file is read when its path is set.
HasFile == FromEnv(EnvFile) # Unset
Lines == IF HasFile /\ file.readable THEN file.lines ELSE <<>>

\* Where the settings of a file are: a malformed line is passed over.
Settings(lines) == {i \in DOMAIN lines : lines[i] # <<>>}

\* Mutant: an unknown supervisor key is taken for a knob nobody reads.
RouteUnchecked(k) ==
  CASE Consumed(k) -> "knob"
    [] ~Consumed(k) /\ IsVaultwardenKey(k) /\ ~IsSupervisorKey(Tail(k)) -> "child"
    [] OTHER -> "invalid"

Route(k) ==
  CASE Consumed(k) /\ k \in FileKnobs \union {LegacyPort} -> "knob"
    [] ~Consumed(k) /\ IsVaultwardenKey(k) /\ ~IsSupervisorKey(Tail(k)) -> "child"
    [] OTHER -> "invalid"

\* Later duplicates win.
LastIn(lines, k) ==
  LET at == {i \in Settings(lines) : lines[i][1] = k}
  IN IF at = {} THEN Unset ELSE lines[Max(at)][2]

FromFile(k) == IF Route(k) = "invalid" THEN Unset ELSE LastIn(Lines, k)

Knob(k) == IF FromEnv(k) # Unset THEN FromEnv(k) ELSE FromFile(k)

-----------------------------------------------------------------------------
(* Scalar knobs.                                                           *)

IsNumber(v) == Len(v) = 1 /\ v[1] \in DOMAIN Numbers
Number(v) == Numbers[v[1]]

ValidPort(v) == IsNumber(v) /\ Number(v) \in 1 .. MaxPort

\* The first valid candidate: an invalid one falls through to the next source.
Port ==
  CASE ValidPort(FromEnv(PortKey)) -> Number(FromEnv(PortKey))
    [] ~ValidPort(FromEnv(PortKey)) /\ ValidPort(FromFile(PortKey)) -> Number(FromFile(PortKey))
    [] OTHER -> DefaultPort

Flag(v, default) ==
  CASE v \in {<<"true">>, <<"1">>, <<"yes">>, <<"on">>} -> TRUE
    [] v \in {<<"false">>, <<"0">>, <<"no">>, <<"off">>} -> FALSE
    [] OTHER -> default

\* resolve_service: svc:<name>, or none.
Service(v) ==
  CASE v \in {Unset, <<"svc:">>} -> Unset
    [] v # Unset /\ v[1] = "svc:" -> v
    [] OTHER -> <<"svc:">> \o v

Count(v, default) == IF IsNumber(v) THEN Number(v) ELSE default

\* One use of a count: what is out of range becomes the default.
InRange(n, range, default) == IF n \in range THEN n ELSE default

SplitAt(v, t) == SelectInSeq(v, LAMBDA x : x = t)

-----------------------------------------------------------------------------
(* S3 state sync: `resolve_sync`, `SyncConfig::new`, `parse_remote`.       *)

None == [on |-> FALSE]

Trim(v) ==
  LET kept == {i \in DOMAIN v : v[i] # " "}
  IN IF kept = {} THEN <<>> ELSE SubSeq(v, Min(kept), Max(kept))

\* What follows the colon, up to a slash.
Bucket(remote) ==
  LET path == Trim(SubSeq(remote, SplitAt(remote, ":") + 1, Len(remote)))
  IN IF SplitAt(path, "/") = 0 THEN path ELSE SubSeq(path, 1, SplitAt(path, "/") - 1)

ValidRemote(remote) ==
  /\ SplitAt(remote, ":") # 0
  /\ Bucket(remote) # <<>>
  /\ SplitAt(Bucket(remote), ":") = 0 /\ SplitAt(Bucket(remote), " ") = 0

S3(name) == Knob(<<"SUPERVISOR", name>>)

Sync ==
  IF /\ \A n \in {"S3_REMOTE", "S3_ACCESS_KEY_ID", "S3_SECRET_ACCESS_KEY", "S3_ENDPOINT"} :
          S3(n) # Unset
     /\ ValidRemote(S3("S3_REMOTE"))
  THEN [on |-> TRUE,
        interval |-> InRange(Count(S3("S3_SYNC_INTERVAL"), SyncDefault), 0 .. MaxInterval, SyncDefault)]
  ELSE None

-----------------------------------------------------------------------------
(* The database URL: `sqlite_path`, `sqlite_uri_path`.                     *)

Hex == {pair[1] : pair \in DOMAIN Byte}
EscapeAt(s, i) == s[i] = "%" /\ i + 2 <= Len(s) /\ s[i + 1] \in Hex /\ s[i + 2] \in Hex

\* Mutant: decoded first and cut at the query afterwards.
UriPathDecodedFirst(s) ==
  LET from[i \in 1 .. Len(s) + 1] ==
        IF i > Len(s) THEN <<>>
        ELSE IF EscapeAt(s, i) THEN <<Byte[<<s[i + 1], s[i + 2]>>]>> \o from[i + 3]
        ELSE <<s[i]>> \o from[i + 1]
      path == from[1]
      end == SelectInSeq(path, LAMBDA b : b \in {"?", "#", "NUL"})
      kept == IF end = 0 THEN path ELSE SubSeq(path, 1, end - 1)
  IN IF Utf8(kept) THEN kept ELSE <<>>

\* Cut at the query, percent-decode once, stop at a NUL.
UriPath(s) ==
  LET end == SelectInSeq(s, LAMBDA b : b \in {"?", "#"})
      bytes == IF end = 0 THEN s ELSE SubSeq(s, 1, end - 1)
      from[i \in 1 .. Len(bytes) + 1] ==
        IF i > Len(bytes) THEN <<>>
        ELSE IF ~EscapeAt(bytes, i) THEN <<bytes[i]>> \o from[i + 1]
        ELSE LET b == Byte[<<bytes[i + 1], bytes[i + 2]>>]
             IN IF b = "NUL" THEN <<>> ELSE <<b>> \o from[i + 3]
  IN IF Utf8(from[1]) THEN from[1] ELSE <<>>

\* The empty sequence: there is no database to back up.
SqlitePath(url) ==
  LET raw == Trim(url)
      scheme == SplitAt(raw, "://")
  IN CASE scheme = 0 -> raw
       [] scheme # 0 /\ SubSeq(raw, 1, scheme - 1) = <<"sqlite">> ->
            UriPath(SubSeq(raw, scheme + 1, Len(raw)))
       [] OTHER -> <<>>

DefaultDb == <<"/data/db.sqlite3">>

-----------------------------------------------------------------------------
(* Database backup: `resolve_backup`.                                      *)

Backup ==
  LET flag(n) == Flag(S3(n), FALSE)
      path == IF Trim(Knob(DatabaseUrl)) = Unset THEN DefaultDb ELSE SqlitePath(Knob(DatabaseUrl))
  IN IF /\ flag("DB_BACKUP") \/ flag("DB_BACKUP_RESTORE")
        /\ Sync.on
        /\ path # <<>>
     THEN [on |-> TRUE, db |-> path,
           periodic |-> flag("DB_BACKUP"), restore |-> flag("DB_BACKUP_RESTORE"),
           interval |-> InRange(Count(S3("DB_BACKUP_INTERVAL"), IntervalDefault),
                                1 .. MaxInterval, IntervalDefault),
           keep |-> InRange(Count(S3("DB_BACKUP_KEEP"), KeepDefault), 1 .. MaxKeep, KeepDefault)]
     ELSE None

-----------------------------------------------------------------------------
(* The whole configuration: `Config::build`.                               *)

StateFile ==
  IF Knob(<<"TAILSCALE", "STATE_FILE">>) = Unset
  THEN <<"/data/", "tailscaled.state">> ELSE Knob(<<"TAILSCALE", "STATE_FILE">>)
Absolute(path) == path[1] \in {"/", "/data/"}
InDataDir(path) == path[1] = "/data/"

Refused ==
  \/ HasFile /\ ~file.readable
  \/ FromEnv(LegacyPort) # Unset \/ FromFile(LegacyPort) # Unset
  \/ \E i \in Settings(Lines) : Route(Lines[i][1]) = "invalid"
  \/ Knob(<<"TAILSCALE", "AUTHKEY">>) = Unset /\ ~Sync.on
  \/ StateFile # <<"mem:">> /\ ~Absolute(StateFile)

\* What the file sets for the vault, under the vault's names.
FileChild ==
  LET keys == {k \in {Lines[i][1] : i \in Settings(Lines)} : Route(k) = "child"}
  IN [n \in {Tail(k) : k \in keys} |-> LastIn(Lines, <<"VAULTWARDEN">> \o n)]

Build ==
  [port |-> Port,
   vaultPort |-> IF Port < MaxPort THEN Port + 1 ELSE 0,   \* 0: there is none
   authkey |-> Knob(<<"TAILSCALE", "AUTHKEY">>) # Unset,
   identitySynced |-> Sync.on /\ InDataDir(StateFile),
   serve |-> Flag(Knob(<<"TAILSCALE", "SERVE">>), TRUE),
   service |-> Service(Knob(<<"TAILSCALE", "SERVICE">>)),
   sync |-> Sync, backup |-> Backup,
   vwEnv |-> FileChild]

-----------------------------------------------------------------------------
(* The vault's environment: `granted_env`, weakest layer first.            *)

ImageDefaults ==
  [n \in {<<"ORG_ATTACHMENT_LIMIT">>, <<"USER_ATTACHMENT_LIMIT">>, <<"ORG_CREATION_USERS">>,
          <<"SIGNUPS_ALLOWED">>, <<"TZ">>, <<"ENABLE_DB_WAL">>} |-> <<"image">>]

NonEmpty(layer) == [n \in {m \in DOMAIN layer : layer[m] # Unset} |-> layer[n]]

\* Mutant: the stripped name is not looked at.
ForwardedUnchecked(k) == ~Consumed(k) /\ IsVaultwardenKey(k)

\* Only VAULTWARDEN_* is forwarded, raw bytes included, and nothing that would
\* be in the supervisor's namespace afterwards.
Forwarded(k) == ~Consumed(k) /\ IsVaultwardenKey(k) /\ ~IsSupervisorKey(Tail(k))

Forwards ==
  [n \in {Tail(k) : k \in {j \in DOMAIN ambient : Forwarded(j)}} |->
     ambient[<<"VAULTWARDEN">> \o n]]

Pins ==
  [n \in {<<"ROCKET_PORT">>, <<"ROCKET_ADDRESS">>, <<"DATA_FOLDER">>, <<"WEB_VAULT_FOLDER">>}
           \union (IF webVault THEN {} ELSE {<<"WEB_VAULT_ENABLED">>}) |->
     CASE n = <<"ROCKET_PORT">> -> <<ToString(config.vaultPort)>>
       [] n = <<"ROCKET_ADDRESS">> -> <<"127.0.0.1">>
       [] n = <<"DATA_FOLDER">> -> <<"/data">>
       [] n = <<"WEB_VAULT_FOLDER">> -> <<"/web-vault">>
       [] n = <<"WEB_VAULT_ENABLED">> -> <<"false">>]

\* What the upper layer does not set shows through.
Over(upper, lower) ==
  [n \in DOMAIN upper \union DOMAIN lower |-> IF n \in DOMAIN upper THEN upper[n] ELSE lower[n]]

GrantedEnv ==
  Over(Pins, Over(NonEmpty(Forwards), Over(NonEmpty(config.vwEnv), ImageDefaults)))

-----------------------------------------------------------------------------
(* A deployment: edits, boots and the vault.                               *)

Init ==
  /\ \E b \in Bases : ambient = b.env /\ edits = b.edits
  /\ file = [readable |-> TRUE, lines |-> <<>>]
  /\ mode = "off" /\ config = None /\ child = <<>> /\ read = <<>>
  /\ webVault \in BOOLEAN

\* Between two runs the operator may change the container's environment.
EditEnv ==
  /\ mode = "off" /\ edits < MaxEdits
  /\ \E e \in EnvInputs :
       ambient' = [k \in DOMAIN ambient \union {e[1]} |-> IF k = e[1] THEN e[2] ELSE ambient[k]]
  /\ edits' = edits + 1
  /\ UNCHANGED <<file, mode, config, child, webVault, read>>

\* The mounted file may change, or go away, at any time.
EditFile ==
  /\ edits < MaxEdits
  /\ \/ \E l \in FileLines : file' = [file EXCEPT !.lines = Append(@, l)]
     \/ file' = [file EXCEPT !.readable = ~@]
  /\ edits' = edits + 1
  /\ UNCHANGED <<ambient, mode, config, child, webVault, read>>

BootRefuses ==
  /\ mode = "off" /\ Refused
  /\ UNCHANGED vars

Boot ==
  /\ mode = "off" /\ ~Refused
  /\ mode' = "booted" /\ config' = Build /\ read' = Lines
  /\ UNCHANGED <<ambient, file, child, webVault, edits>>

\* run_vaultwarden, once tailscaled is up: the process's own environment again,
\* the file as the boot read it.
StartVault ==
  /\ mode = "booted" /\ config.vaultPort # 0
  /\ mode' = "running" /\ child' = GrantedEnv
  /\ UNCHANGED <<ambient, file, config, webVault, edits, read>>

\* The container ends; at once when there is no port left for the vault.
Stop ==
  /\ mode = "running" \/ (mode = "booted" /\ config.vaultPort = 0)
  /\ mode' = "off" /\ config' = None /\ child' = <<>> /\ read' = <<>>
  /\ UNCHANGED <<ambient, file, webVault, edits>>

Next == EditEnv \/ EditFile \/ BootRefuses \/ Boot \/ StartVault \/ Stop

Spec == Init /\ [][Next]_vars

-----------------------------------------------------------------------------
(* What the vault makes of its environment: diesel and SQLite, in one pass. *)

OpensUri(s) ==
  LET walk[i \in 1 .. Len(s) + 1] ==
        IF i > Len(s) \/ (i <= Len(s) /\ s[i] \in {"?", "#"}) THEN <<>>
        ELSE IF EscapeAt(s, i) THEN
               IF Byte[<<s[i + 1], s[i + 2]>>] = "NUL" THEN <<>>
               ELSE <<Byte[<<s[i + 1], s[i + 2]>>]>> \o walk[i + 3]
        ELSE <<s[i]>> \o walk[i + 1]
  IN walk[1]

Opens(env) ==
  LET key == <<"DATABASE_URL">>
      url == IF key \in DOMAIN env /\ Utf8(env[key]) THEN env[key] ELSE Unset
  IN CASE url = Unset -> DefaultDb
       [] Len(url) > 1 /\ SubSeq(url, 1, 2) = <<"sqlite", "://">> ->
            OpensUri(SubSeq(url, 3, Len(url)))
       [] OTHER -> url

-----------------------------------------------------------------------------
(* Properties.                                                             *)

(* The database the supervisor dumps and restores is the one the vault opens, *)
(* whichever source names it, in whatever order it was set, empty or twice,   *)
(* and whatever the URL escapes, queries or truncates.                        *)
SameDatabase ==
  mode = "running" /\ config.backup.on => Opens(child) = config.backup.db

(* The vault's environment holds nothing of the supervisor's and nothing that *)
(* was not granted: each name is a default of the image, a pin, or was set    *)
(* with the VAULTWARDEN_ prefix; and the pins hold, next to a gate that       *)
(* listens on another port.                                                   *)
ChildIsConfined ==
  mode = "running" =>
    /\ \A n \in DOMAIN child :
         /\ ~IsSupervisorKey(n)
         /\ \/ n \in DOMAIN ImageDefaults \union DOMAIN Pins
            \/ /\ <<"VAULTWARDEN">> \o n \in DOMAIN ambient \union {read[i][1] : i \in Settings(read)}
               /\ <<"VAULTWARDEN">> \o n \notin Knobs
    /\ \A n \in DOMAIN Pins : child[n] = Pins[n]
    /\ config.vaultPort = config.port + 1

(* A boot that goes on has used every line of the file it read: a knob the    *)
(* supervisor knows, or a setting the vault received.  A number it cannot use *)
(* has become one it can: the manifest of `keep` backups stays readable, no   *)
(* interval overflows the clock, and a backup has a bucket to go to.          *)
NothingIsIgnored ==
  mode = "running" =>
    /\ \A i \in Settings(read) :
         LET k == read[i][1]
         IN \/ LastIn(read, k) = Unset
            \/ k \in FileKnobs
            \/ IsVaultwardenKey(k) /\ Tail(k) \in DOMAIN child
    /\ config.sync.on => config.sync.interval <= MaxInterval
    /\ config.backup.on =>
         /\ config.sync.on
         /\ config.backup.keep \in 1 .. MaxKeep
         /\ config.backup.interval \in 1 .. MaxInterval
=============================================================================
