------------------------------- MODULE MCConfig -------------------------------
(* Instances of Config for TLC.                                            *)
EXTENDS Config

\* Numerals, on both sides of every bound of the code's.
MCNumbers ==
  [t \in {"0", "1", "7", "1000", "1001", "9000", "65534", "65535", "65536", "604800", "604801"} |->
     CASE t = "0" -> 0 [] t = "1" -> 1 [] t = "7" -> 7
       [] t = "1000" -> 1000 [] t = "1001" -> 1001 [] t = "9000" -> 9000
       [] t = "65534" -> 65534 [] t = "65535" -> 65535 [] t = "65536" -> 65536
       [] t = "604800" -> 604800 [] t = "604801" -> 604801]

\* The hex digits 0, 3 and F write a NUL, a question mark, two digits and bytes
\* that are not UTF-8.
MCByte ==
  [pair \in {"0", "3", "F"} \X {"0", "3", "F"} |->
     CASE pair = <<"0", "0">> -> "NUL"
       [] pair = <<"3", "0">> -> "0"
       [] pair = <<"3", "3">> -> "3"
       [] pair = <<"3", "F">> -> "?"
       [] pair[1] = "0" /\ pair[2] # "0" -> "control"
       [] OTHER -> "raw"]

Minimal == <<"TAILSCALE", "AUTHKEY">> :> <<"key">>
Full ==
  (EnvFile :> <<"/env">>) @@
  (<<"SUPERVISOR", "S3_REMOTE">> :> <<"r2", ":", "bucket", "/", "p">>) @@
  (<<"SUPERVISOR", "S3_ACCESS_KEY_ID">> :> <<"id">>) @@
  (<<"SUPERVISOR", "S3_SECRET_ACCESS_KEY">> :> <<"secret">>) @@
  (<<"SUPERVISOR", "S3_ENDPOINT">> :> <<"https">>) @@
  (<<"SUPERVISOR", "DB_BACKUP">> :> <<"true">>)

\* Every database URL of a few characters that names no authority, without
\* edits after it.
Paths == BoundedSeq({"/", "a", "%", "0", "3", "F", "?"}, 4)
Urls == {<<"sqlite", "://">> \o p : p \in {q \in Paths : ~IsPrefix(<<"/", "/">>, q)}} \union Paths

MCBases ==
  {[env |-> e, edits |-> 0] : e \in {Minimal, Full}} \union
  {[env |-> (DatabaseUrl :> u) @@ Full, edits |-> MaxEdits] : u \in Urls}

SomeUrls == {<<>>, <<"a">>, <<"sqlite", "://", "a", "%", "3", "F", "a">>,
             <<"sqlite", "://", "?">>, <<"postgres", "://", "a">>}

Both ==
  {DatabaseUrl} \X SomeUrls \union
  {PortKey} \X {<<"9000">>, <<"65535">>, <<"65536">>, <<"0">>, <<"junk">>} \union
  {LegacyPort} \X {<<"9000">>, <<>>} \union
  {<<"SUPERVISOR", "DB_BACKUP">>} \X {<<"no">>} \union
  {<<"SUPERVISOR", "DB_BACKUP_RESTORE">>} \X {<<"on">>} \union
  {<<"SUPERVISOR", "DB_BACKUP_KEEP">>} \X {<<"0">>, <<"1000">>, <<"1001">>} \union
  {<<"SUPERVISOR", "DB_BACKUP_INTERVAL">>} \X {<<"0">>, <<"604801">>} \union
  {<<"SUPERVISOR", "S3_SYNC_INTERVAL">>} \X {<<"604801">>} \union
  {<<"SUPERVISOR", "S3_REMOTE">>} \X {<<"bucket">>, <<"r2", ":">>, <<"r2", ":", "b", " ", "c">>} \union
  {<<"TAILSCALE", "STATE_FILE">>} \X {<<"mem:">>, <<"relative">>, <<"/", "state">>} \union
  {<<"TAILSCALE", "SERVICE">>} \X {<<"svc:">>, <<"vault">>} \union
  {<<"VAULTWARDEN", "TAILSCALE", "AUTHKEY">>} \X {<<"key">>} \union
  {<<"VAULTWARDEN", "ROCKET_ADDRESS">>} \X {<<"0.0.0.0">>} \union
  {<<"VAULTWARDEN", "SIGNUPS_ALLOWED">>} \X {<<"false">>, <<>>} \union
  {<<"DATABASE_URL">>, <<"VAULTWARDEN", "">>, <<"TAILSCALE">>} \X {<<"a">>}

MCEnvInputs == Both \union {<<EnvFile, <<"/env">>>>, <<EnvFile, <<>>>>}
MCFileLines == Both \union {<<>>, <<EnvFile, <<"/env">>>>, <<<<"SUPERVISOR", "TYPO">>, <<"1">>>>}
=============================================================================
