----------------------------- MODULE ConfigProofs -----------------------------
(* What holds of the configuration for every set of settings, every dotenv  *)
(* file and any number of edits: what the vault is granted, that no line of  *)
(* the file is lost, and that supervisor and vault read one database URL the *)
(* same way.                                                                *)
EXTENDS Config, FiniteSetTheorems, SequenceTheorems, TLAPS

-----------------------------------------------------------------------------
(* The inductive invariants.                                               *)

EnvOK == DOMAIN ambient \subseteq Words /\ \A k \in DOMAIN ambient : ambient[k] \in Words
FileOK == file \in [readable : BOOLEAN, lines : Seq(FileLines)]
Typed == EnvOK /\ FileOK /\ read \in Seq(FileLines) /\ mode \in {"off", "booted", "running"}

\* FileChild, of the lines that the boot has read.
Grants(lines) ==
  LET keys == {k \in {lines[i][1] : i \in Settings(lines)} : Route(k) = "child"}
  IN [n \in {Tail(k) : k \in keys} |-> LastIn(lines, <<"VAULTWARDEN">> \o n)]

(* No line that the boot has read is for nobody.                           *)
Routed == \A i \in Settings(read) : Route(read[i][1]) # "invalid"

(* What the boot has resolved is the resolution of what it has read, and in *)
(* range, for as long as the container runs, whatever becomes of the file.  *)
InBounds ==
  /\ config.vaultPort # 0 => config.vaultPort = config.port + 1
  /\ config.sync.on => config.sync.interval \in 0 .. MaxInterval
  /\ config.backup.on =>
       /\ config.sync.on
       /\ config.backup.keep \in 1 .. MaxKeep
       /\ config.backup.interval \in 1 .. MaxInterval

Resolved ==
  mode # "off" =>
    /\ Routed /\ InBounds
    /\ LastIn(read, LegacyPort) = Unset
    /\ config.vwEnv = Grants(read)

(* The vault has the environment it would be granted now.                  *)
Started == mode = "running" => config.vaultPort # 0 /\ child = GrantedEnv

BootInv == Typed /\ Resolved /\ Started

-----------------------------------------------------------------------------
(* Induction over data.  The library's theorems of induction take an        *)
(* operator; this one takes a set, that of the counterexamples.             *)

LEMMA LeastNumber ==
  ASSUME NEW S \in SUBSET Nat, S # {}
  PROVE  \E x \in S : \A y \in S : x <= y
<1> DEFINE Below == {0 .. x : x \in S}
<1>1. Below \subseteq FiniteSubsetsOf(Nat) /\ Below # {}
  <2>1. ASSUME NEW x \in S PROVE 0 .. x \in FiniteSubsetsOf(Nat)
    <3>1. IsFiniteSet(0 .. x) BY FS_Interval
    <3>2. 0 .. x \subseteq Nat OBVIOUS
    <3> QED BY <3>1, <3>2 DEF FiniteSubsetsOf
  <2> QED BY <2>1
<1>2. \E T \in Below : \A U \in Below : <<U, T>> \notin StrictSubsetOrdering(Nat)
  <2> HIDE DEF Below
  <2> QED BY <1>1, FS_StrictSubsetOrderingWellFounded, WFMin
<1>3. PICK x \in S : \A U \in Below : <<U, 0 .. x>> \notin StrictSubsetOrdering(Nat)
  BY <1>2
<1>4. ASSUME NEW y \in S, y < x PROVE FALSE
  <2>1. 0 .. y \in Below BY <1>4
  <2>2. <<0 .. y, 0 .. x>> \in StrictSubsetOrdering(Nat)
    <3>1. 0 .. y \subseteq 0 .. x BY <1>4
    <3>2. x \in 0 .. x /\ x \notin 0 .. y BY <1>4
    <3>3. 0 .. y \in SUBSET Nat /\ 0 .. x \in SUBSET Nat OBVIOUS
    <3>4. 0 .. y # 0 .. x BY <3>2
    <3> HIDE DEF Below
    <3> QED BY <3>1, <3>3, <3>4 DEF StrictSubsetOrdering
  <2> QED BY <2>1, <2>2, <1>3
<1> QED BY <1>3, <1>4

-----------------------------------------------------------------------------
(* Keys and their words.                                                   *)

(* A prefix that is stripped can be put back.                              *)
LEMMA Stripped ==
  ASSUME NEW k \in Words, IsVaultwardenKey(k)
  PROVE  Tail(k) \in Words /\ Tail(k) # <<>> /\ <<"VAULTWARDEN">> \o Tail(k) = k
<1>1. k # <<>> /\ Len(k) > 1 /\ k[1] = "VAULTWARDEN"
  <2>1. Len(k) > 1 /\ k[1] = "VAULTWARDEN" BY DEF IsVaultwardenKey
  <2>2. Len(<<>>) = 0 BY EmptySeq
  <2> QED BY <2>1, <2>2
<1> DEFINE t == Tail(k)
<1>2. t \in Words /\ Len(t) = Len(k) - 1 /\ \A i \in 1 .. Len(t) : t[i] = k[i + 1]
  BY <1>1, HeadTailProperties DEF Words
<1>3. Len(k) \in Nat /\ Len(t) \in Nat BY <1>2, LenProperties DEF Words
<1> HIDE DEF t
<1> DEFINE p == <<"VAULTWARDEN">>
           S == STRING \union {"VAULTWARDEN"}
<1>4. p \in Seq(S) /\ Len(p) = 1 /\ p[1] = "VAULTWARDEN" OBVIOUS
<1>a. k \in Seq(S) /\ t \in Seq(S) BY <1>2, SeqMonotonic DEF Words
<1> HIDE DEF p, S
<1>5. /\ p \o t \in Seq(S) /\ Len(p \o t) = Len(p) + Len(t)
      /\ \A i \in 1 .. Len(p) + Len(t) : (p \o t)[i] = IF i <= Len(p) THEN p[i] ELSE t[i - Len(p)]
  BY <1>a, <1>4, ConcatProperties
<1>6. ASSUME NEW i \in 1 .. Len(p \o t) PROVE (p \o t)[i] = k[i]
  <2>1. CASE i = 1 BY <2>1, <1>1, <1>3, <1>4, <1>5
  <2>2. CASE i # 1
    <3>1. i - 1 \in 1 .. Len(t) BY <2>2, <1>3, <1>4, <1>5
    <3>2. t[i - 1] = k[(i - 1) + 1] BY <3>1, <1>2
    <3>3. (p \o t)[i] = t[i - 1] BY <2>2, <1>3, <1>4, <1>5
    <3> QED BY <3>2, <3>3, <1>3, <1>4, <1>5
  <2> QED BY <2>1, <2>2
<1>7. p \o t = k BY <1>a, <1>2, <1>3, <1>4, <1>5, <1>6, SeqEqual
<1>8. t # <<>> BY <1>1, <1>2, <1>3, EmptySeq
<1> QED BY <1>2, <1>7, <1>8 DEF t, p

LEMMA Lined ==
  ASSUME NEW lines \in Seq(FileLines), NEW i \in Settings(lines)
  PROVE  lines[i][1] \in Words /\ lines[i][2] \in Words
<1>1. lines[i] \in FileLines /\ lines[i] # <<>> BY ElementOfSeq, LenProperties DEF Settings
<1> QED BY <1>1, ConfigAssumption

-----------------------------------------------------------------------------
(* The invariant.                                                          *)

LEMMA LegacyRoute == Route(LegacyPort) = "knob"
<1>1. LegacyPort \in Knobs /\ LegacyPort[1] = "VAULTWARDEN" BY DEF LegacyPort, Knobs
<1>2. Consumed(LegacyPort) BY <1>1 DEF Consumed, ConsumedChildKey
<1> QED BY <1>2 DEF Route

LEMMA LinesTyped == Typed => Lines \in Seq(FileLines)
<1>1. <<>> \in Seq(FileLines) BY EmptySeq
<1> QED BY <1>1 DEF Typed, FileOK, Lines

LEMMA BuildBounds ==
  /\ Build.vaultPort # 0 => Build.vaultPort = Build.port + 1
  /\ Build.sync.on => Build.sync.interval \in 0 .. MaxInterval
  /\ Build.backup.on =>
       /\ Build.sync.on
       /\ Build.backup.keep \in 1 .. MaxKeep
       /\ Build.backup.interval \in 1 .. MaxInterval
<1>1. Sync.on => Sync.interval \in 0 .. MaxInterval
  <2>1. SyncDefault \in 0 .. MaxInterval BY ConfigAssumption DEF SyncDefault
  <2> QED BY <2>1 DEF Sync, None, InRange
<1>2. Backup.on => /\ Sync.on
                   /\ Backup.keep \in 1 .. MaxKeep
                   /\ Backup.interval \in 1 .. MaxInterval
  <2>1. KeepDefault \in 1 .. MaxKeep /\ IntervalDefault \in 1 .. MaxInterval
    BY ConfigAssumption DEF KeepDefault, IntervalDefault
  <2> QED BY <2>1 DEF Backup, None, InRange
<1> QED BY <1>1, <1>2 DEF Build

LEMMA InitBooted == Init => BootInv
<1> SUFFICES ASSUME Init PROVE BootInv OBVIOUS
<1>1. EnvOK BY ConfigAssumption DEF Init, EnvOK
<1>2. FileOK /\ read \in Seq(FileLines) BY EmptySeq DEF Init, FileOK
<1> QED BY <1>1, <1>2 DEF Init, BootInv, Typed, Resolved, Started

LEMMA BootResolves == BootInv /\ Boot => BootInv'
<1> SUFFICES ASSUME BootInv, Boot PROVE BootInv' OBVIOUS
<1>1. Lines \in Seq(FileLines) BY LinesTyped DEF BootInv
<1>2. Typed' BY <1>1 DEF BootInv, Typed, Boot, EnvOK, FileOK
<1>3. Routed' BY DEF Boot, Refused, Routed, Settings
<1>4. InBounds' BY BuildBounds DEF Boot, InBounds
<1>5. (LastIn(read, LegacyPort) = Unset)'
  <2>1. FromFile(LegacyPort) = Unset BY DEF Boot, Refused
  <2>2. LastIn(Lines, LegacyPort) = Unset BY <2>1, LegacyRoute DEF FromFile
  <2> QED BY <2>2 DEF Boot
<1>6. (config.vwEnv = Grants(read))'
  <2>1. FileChild = Grants(Lines) BY DEF FileChild, Grants
  <2>2. Build.vwEnv = FileChild BY DEF Build
  <2> QED BY <2>1, <2>2 DEF Boot
<1>7. Started' BY DEF Boot, Started
<1> QED BY <1>2, <1>3, <1>4, <1>5, <1>6, <1>7 DEF BootInv, Resolved

LEMMA StartGrants == BootInv /\ StartVault => BootInv'
<1> SUFFICES ASSUME BootInv, StartVault PROVE BootInv' OBVIOUS
<1>1. Typed' BY DEF BootInv, Typed, StartVault, EnvOK, FileOK
<1>2. Resolved'
  BY DEF BootInv, Resolved, StartVault, Routed, InBounds
<1>3. GrantedEnv' = GrantedEnv
  BY DEF StartVault, GrantedEnv, Forwards, Pins
<1>4. Started' BY <1>3 DEF Started, StartVault
<1> QED BY <1>1, <1>2, <1>4 DEF BootInv

LEMMA EditsKeepTypes ==
  BootInv /\ (EditEnv \/ EditFile) => Typed'
<1> SUFFICES ASSUME BootInv, EditEnv \/ EditFile PROVE Typed' OBVIOUS
<1>1. CASE EditEnv
  <2>1. PICK e \in EnvInputs :
          ambient' = [k \in DOMAIN ambient \union {e[1]} |-> IF k = e[1] THEN e[2] ELSE ambient[k]]
    BY <1>1 DEF EditEnv
  <2>2. e[1] \in Words /\ e[2] \in Words BY ConfigAssumption
  <2>3. EnvOK' BY <2>1, <2>2 DEF BootInv, Typed, EnvOK
  <2> QED BY <2>3, <1>1 DEF BootInv, Typed, EditEnv, FileOK
<1>2. CASE EditFile
  <2>1. file.lines \in Seq(FileLines) BY DEF BootInv, Typed, FileOK
  <2>2. \A l \in FileLines : Append(file.lines, l) \in Seq(FileLines) BY <2>1
  <2>3. FileOK' BY <1>2, <2>2 DEF BootInv, Typed, FileOK, EditFile
  <2> QED BY <2>3, <1>2 DEF BootInv, Typed, EditFile, EnvOK
<1> QED BY <1>1, <1>2

LEMMA NextBooted == BootInv /\ [Next]_vars => BootInv'
<1> SUFFICES ASSUME BootInv, [Next]_vars PROVE BootInv' OBVIOUS
<1>1. CASE EditEnv
  BY <1>1, EditsKeepTypes DEF EditEnv, BootInv, Resolved, Started
<1>2. CASE EditFile
  <2>1. GrantedEnv' = GrantedEnv BY <1>2 DEF EditFile, GrantedEnv, Forwards, Pins
  <2>2. Started' BY <1>2, <2>1 DEF EditFile, BootInv, Started
  <2>3. Resolved' BY <1>2 DEF EditFile, BootInv, Resolved, Routed, InBounds
  <2> QED BY <2>2, <2>3, <1>2, EditsKeepTypes DEF BootInv
<1>3. CASE Boot BY <1>3, BootResolves
<1>4. CASE StartVault BY <1>4, StartGrants
<1>5. CASE Stop
  BY <1>5, EmptySeq DEF Stop, BootInv, Typed, EnvOK, FileOK, Resolved, Started
<1>6. CASE BootRefuses \/ UNCHANGED vars
  <2>1. UNCHANGED vars BY <1>6 DEF BootRefuses
  <2>2. GrantedEnv' = GrantedEnv BY <2>1 DEF vars, GrantedEnv, Forwards, Pins
  <2>3. Started' BY <2>1, <2>2 DEF vars, BootInv, Started
  <2>4. Resolved' BY <2>1 DEF vars, BootInv, Resolved, Routed, InBounds
  <2>5. Typed' BY <2>1 DEF vars, BootInv, Typed, EnvOK, FileOK
  <2> QED BY <2>3, <2>4, <2>5 DEF BootInv
<1> QED BY <1>1, <1>2, <1>3, <1>4, <1>5, <1>6 DEF Next

LEMMA Booted == Spec => []BootInv
<1> QED BY InitBooted, NextBooted, PTL DEF Spec

-----------------------------------------------------------------------------
(* What the vault's environment holds.                                     *)

PinNames == {<<"ROCKET_PORT">>, <<"ROCKET_ADDRESS">>, <<"DATA_FOLDER">>, <<"WEB_VAULT_FOLDER">>,
             <<"WEB_VAULT_ENABLED">>}

LEMMA PinsNamed == DOMAIN Pins \subseteq PinNames
<1>1. DOMAIN Pins = {<<"ROCKET_PORT">>, <<"ROCKET_ADDRESS">>, <<"DATA_FOLDER">>, <<"WEB_VAULT_FOLDER">>}
                      \union (IF webVault THEN {} ELSE {<<"WEB_VAULT_ENABLED">>})
  BY DEF Pins
<1> QED BY <1>1 DEF PinNames

(* A name the vault is granted is a pin, a default, or a name somebody gave *)
(* with the prefix; and then it has the value of the strongest layer.       *)
LEMMA Layered ==
  /\ DOMAIN GrantedEnv = DOMAIN Pins \union DOMAIN NonEmpty(Forwards)
                           \union DOMAIN NonEmpty(config.vwEnv) \union DOMAIN ImageDefaults
  /\ \A n \in DOMAIN Pins : GrantedEnv[n] = Pins[n]
  /\ \A n \in DOMAIN NonEmpty(Forwards) \ DOMAIN Pins : GrantedEnv[n] = NonEmpty(Forwards)[n]
  /\ \A n \in DOMAIN NonEmpty(config.vwEnv) \ (DOMAIN Pins \union DOMAIN NonEmpty(Forwards)) :
        GrantedEnv[n] = NonEmpty(config.vwEnv)[n]
<1> DEFINE low == Over(NonEmpty(config.vwEnv), ImageDefaults)
           mid == Over(NonEmpty(Forwards), low)
<1>1. /\ DOMAIN low = DOMAIN NonEmpty(config.vwEnv) \union DOMAIN ImageDefaults
      /\ \A n \in DOMAIN NonEmpty(config.vwEnv) : low[n] = NonEmpty(config.vwEnv)[n]
  BY DEF Over
<1> HIDE DEF low
<1>2. /\ DOMAIN mid = DOMAIN NonEmpty(Forwards) \union DOMAIN low
      /\ \A n \in DOMAIN NonEmpty(Forwards) : mid[n] = NonEmpty(Forwards)[n]
      /\ \A n \in DOMAIN low \ DOMAIN NonEmpty(Forwards) : mid[n] = low[n]
  BY DEF Over
<1> HIDE DEF mid
<1>3. /\ DOMAIN Over(Pins, mid) = DOMAIN Pins \union DOMAIN mid
      /\ \A n \in DOMAIN Pins : Over(Pins, mid)[n] = Pins[n]
      /\ \A n \in DOMAIN mid \ DOMAIN Pins : Over(Pins, mid)[n] = mid[n]
  BY DEF Over
<1>4. GrantedEnv = Over(Pins, mid) BY DEF GrantedEnv, mid, low
<1> QED BY <1>1, <1>2, <1>3, <1>4

LEMMA ForwardsDo ==
  ASSUME EnvOK, NEW n \in DOMAIN Forwards
  PROVE  /\ ~IsSupervisorKey(n)
         /\ <<"VAULTWARDEN">> \o n \in DOMAIN ambient
         /\ <<"VAULTWARDEN">> \o n \notin Knobs
<1>1. PICK k \in DOMAIN ambient : Forwarded(k) /\ n = Tail(k) BY DEF Forwards
<1>2. ~Consumed(k) /\ IsVaultwardenKey(k) /\ ~IsSupervisorKey(n) BY <1>1 DEF Forwarded
<1>3. k \in Words BY DEF EnvOK
<1>4. <<"VAULTWARDEN">> \o n = k BY <1>1, <1>2, <1>3, Stripped
<1>5. k \notin Knobs BY <1>2 DEF Consumed, ConsumedChildKey, IsVaultwardenKey
<1> QED BY <1>2, <1>4, <1>5

LEMMA GrantsDo ==
  ASSUME NEW lines \in Seq(FileLines), NEW n \in DOMAIN Grants(lines)
  PROVE  /\ ~IsSupervisorKey(n)
         /\ <<"VAULTWARDEN">> \o n \in {lines[i][1] : i \in Settings(lines)}
         /\ <<"VAULTWARDEN">> \o n \notin Knobs
<1>1. PICK i \in Settings(lines) : Route(lines[i][1]) = "child" /\ n = Tail(lines[i][1])
  BY DEF Grants
<1> DEFINE k == lines[i][1]
<1>2. ~Consumed(k) /\ IsVaultwardenKey(k) /\ ~IsSupervisorKey(n) BY <1>1 DEF Route
<1>3. k \in Words BY Lined
<1>4. <<"VAULTWARDEN">> \o n = k BY <1>1, <1>2, <1>3, Stripped
<1>5. k \notin Knobs BY <1>2 DEF Consumed, ConsumedChildKey, IsVaultwardenKey
<1> QED BY <1>2, <1>4, <1>5

(* A setting of the file for the vault is granted under its stripped name.  *)
LEMMA GrantsAll ==
  ASSUME NEW lines \in Seq(FileLines), NEW i \in Settings(lines), Route(lines[i][1]) = "child"
  PROVE  LET k == lines[i][1]
         IN IsVaultwardenKey(k) /\ Tail(k) \in DOMAIN Grants(lines)
              /\ Grants(lines)[Tail(k)] = LastIn(lines, k)
<1> DEFINE k == lines[i][1]
<1>1. IsVaultwardenKey(k) BY DEF Route
<1>2. k \in Words BY Lined
<1>3. <<"VAULTWARDEN">> \o Tail(k) = k BY <1>1, <1>2, Stripped
<1>4. Tail(k) \in DOMAIN Grants(lines) BY DEF Grants
<1>5. Grants(lines)[Tail(k)] = LastIn(lines, <<"VAULTWARDEN">> \o Tail(k)) BY <1>4 DEF Grants
<1> QED BY <1>1, <1>3, <1>4, <1>5

LEMMA NonEmptyDo ==
  ASSUME NEW layer
  PROVE  /\ DOMAIN NonEmpty(layer) = {n \in DOMAIN layer : layer[n] # Unset}
         /\ \A n \in DOMAIN NonEmpty(layer) : NonEmpty(layer)[n] = layer[n]
<1> QED BY DEF NonEmpty

LEMMA Confined == BootInv => ChildIsConfined
<1> SUFFICES ASSUME BootInv, mode = "running" PROVE ChildIsConfined BY DEF ChildIsConfined
<1>1. EnvOK /\ read \in Seq(FileLines) /\ config.vwEnv = Grants(read) /\ InBounds
  BY DEF BootInv, Typed, Resolved
<1>2. child = GrantedEnv /\ config.vaultPort # 0 BY DEF BootInv, Started
<1>3. ASSUME NEW n \in DOMAIN child
      PROVE  /\ ~IsSupervisorKey(n)
             /\ \/ n \in DOMAIN ImageDefaults \union DOMAIN Pins
                \/ /\ <<"VAULTWARDEN">> \o n \in DOMAIN ambient \union {read[i][1] : i \in Settings(read)}
                   /\ <<"VAULTWARDEN">> \o n \notin Knobs
  <2>1. CASE n \in DOMAIN Pins
    <3>1. n \in PinNames BY <2>1, PinsNamed
    <3>2. ~IsSupervisorKey(n) BY <3>1 DEF PinNames, IsSupervisorKey
    <3> QED BY <3>2, <2>1
  <2>2. CASE n \in DOMAIN ImageDefaults
    <3>1. ~IsSupervisorKey(n) BY <2>2 DEF ImageDefaults, IsSupervisorKey
    <3> QED BY <3>1, <2>2
  <2>3. CASE n \in DOMAIN Forwards BY <2>3, <1>1, ForwardsDo
  <2>4. CASE n \in DOMAIN config.vwEnv BY <2>4, <1>1, GrantsDo
  <2> QED BY <1>2, <1>3, <2>1, <2>2, <2>3, <2>4, Layered, NonEmptyDo
<1>4. \A n \in DOMAIN Pins : child[n] = Pins[n] BY <1>2, Layered
<1>5. config.vaultPort = config.port + 1 BY <1>1, <1>2 DEF InBounds
<1> QED BY <1>3, <1>4, <1>5 DEF ChildIsConfined

LEMMA Used == BootInv => NothingIsIgnored
<1> SUFFICES ASSUME BootInv, mode = "running" PROVE NothingIsIgnored BY DEF NothingIsIgnored
<1>1. /\ read \in Seq(FileLines) /\ config.vwEnv = Grants(read) /\ InBounds /\ Routed
      /\ LastIn(read, LegacyPort) = Unset
  BY DEF BootInv, Typed, Resolved
<1>2. child = GrantedEnv BY DEF BootInv, Started
<1>3. ASSUME NEW i \in Settings(read)
      PROVE  LET k == read[i][1]
             IN \/ LastIn(read, k) = Unset
                \/ k \in FileKnobs
                \/ IsVaultwardenKey(k) /\ Tail(k) \in DOMAIN child
  <2> DEFINE k == read[i][1]
  <2>1. Route(k) \in {"knob", "child"} BY <1>1 DEF Routed, Route
  <2>2. CASE Route(k) = "knob"
    <3>1. k \in FileKnobs \union {LegacyPort} BY <2>2 DEF Route
    <3> QED BY <3>1, <1>1
  <2>3. CASE Route(k) = "child"
    <3>1. /\ IsVaultwardenKey(k) /\ Tail(k) \in DOMAIN Grants(read)
          /\ Grants(read)[Tail(k)] = LastIn(read, k)
      BY <1>1, <2>3, GrantsAll
    <3>2. CASE LastIn(read, k) # Unset
      <4>1. Tail(k) \in DOMAIN NonEmpty(config.vwEnv) BY <3>1, <3>2, <1>1, NonEmptyDo
      <4> QED BY <4>1, <3>1, <1>2, Layered
    <3> QED BY <3>2
  <2> QED BY <2>1, <2>2, <2>3
<1>4. /\ config.sync.on => config.sync.interval <= MaxInterval
      /\ config.backup.on =>
           /\ config.sync.on
           /\ config.backup.keep \in 1 .. MaxKeep
           /\ config.backup.interval \in 1 .. MaxInterval
  BY <1>1 DEF InBounds
<1> QED BY <1>3, <1>4 DEF NothingIsIgnored

-----------------------------------------------------------------------------
(* Walks over a text: a function that is defined on a position by its value *)
(* at a later one exists.                                                  *)

\* At i: the end, or what stands there and then the rest.
Read(f, head, next, i) == IF next[i] = 0 THEN <<>> ELSE <<head[i]>> \o f[next[i]]

GoesOn(n, next) == \A i \in 1 .. n : next[i] = 0 \/ next[i] \in i + 1 .. n

Solves(f, n, head, next) ==
  f = [i \in 1 .. n |-> f[i]] /\ \A i \in 1 .. n : f[i] = Read(f, head, next, i)

LEMMA Solvable ==
  ASSUME NEW n \in Nat, NEW head, NEW next, GoesOn(n, next)
  PROVE  \E f : Solves(f, n, head, next)
<1> USE DEF GoesOn
<1> DEFINE From(f, k) == \A i \in k .. n : f[i] = Read(f, head, next, i)
           Fails == {x \in 0 .. n : ~ \E f : DOMAIN f = 1 .. n /\ From(f, n + 1 - x)}
<1>2. ASSUME Fails # {} PROVE FALSE
  <2>1. PICK x \in Fails : \A y \in Fails : x <= y
    <3>1. Fails \in SUBSET Nat OBVIOUS
    <3> HIDE DEF Fails
    <3> QED BY <1>2, <3>1, LeastNumber
  <2>2. x \in 0 .. n OBVIOUS
  <2>3. x # 0
    <3>1. From([i \in 1 .. n |-> <<>>], n + 1) OBVIOUS
    <3> QED BY <3>1
  <2>4. x - 1 \notin Fails /\ x - 1 \in 0 .. n
    <3> HIDE DEF Fails
    <3> QED BY <2>1, <2>2, <2>3
  <2>5. PICK g : DOMAIN g = 1 .. n /\ From(g, n + 2 - x)
    <3>1. n + 1 - (x - 1) = n + 2 - x BY <2>2
    <3> QED BY <2>4, <3>1
  <2> DEFINE k == n + 1 - x
             f == [i \in 1 .. n |-> IF i = k THEN Read(g, head, next, k) ELSE g[i]]
  <2>6. k \in 1 .. n BY <2>2, <2>3
  <2>7. ASSUME NEW i \in k .. n PROVE f[i] = Read(f, head, next, i)
    <3>1. f[i] = Read(g, head, next, i)
      <4>1. CASE i = k BY <4>1, <2>6
      <4>2. CASE i # k
        <5>1. i \in n + 2 - x .. n /\ i \in 1 .. n BY <4>2, <2>6, <2>2
        <5> QED BY <5>1, <4>2, <2>5
      <4> QED BY <4>1, <4>2
    <3>2. next[i] # 0 => f[next[i]] = g[next[i]]
      <4>1. i \in 1 .. n BY <2>6
      <4>2. next[i] # 0 => next[i] \in 1 .. n /\ next[i] # k BY <4>1, <2>6
      <4> QED BY <4>2
    <3> QED BY <3>1, <3>2 DEF Read
  <2>8. DOMAIN f = 1 .. n OBVIOUS
  <2> HIDE DEF f
  <2>9. x \notin Fails BY <2>7, <2>8
  <2> QED BY <2>9
<1>3. PICK f : DOMAIN f = 1 .. n /\ From(f, 1)
  <2>1. n \in 0 .. n /\ n \notin Fails
    <3> HIDE DEF Fails
    <3> QED BY <1>2
  <2>2. n + 1 - n = 1 OBVIOUS
  <2> QED BY <2>1, <2>2
<1>4. DEFINE h == [i \in 1 .. n |-> f[i]]
<1>5. ASSUME NEW i \in 1 .. n PROVE h[i] = Read(h, head, next, i)
  <2>1. f[i] = Read(f, head, next, i) BY <1>3
  <2>2. next[i] # 0 => next[i] \in 1 .. n OBVIOUS
  <2>3. next[i] # 0 => h[next[i]] = f[next[i]] BY <2>2
  <2> QED BY <2>1, <2>3 DEF Read
<1>6. h = [i \in 1 .. n |-> h[i]] OBVIOUS
<1> HIDE DEF h
<1> QED BY <1>5, <1>6 DEF Solves

-----------------------------------------------------------------------------
(* The two readings of a URL's path.                                       *)

Stops == {"?", "#"}

\* Up to the query.
Cut(s) ==
  LET end == SelectInSeq(s, LAMBDA b : b \in Stops)
  IN IF end = 0 THEN s ELSE SubSeq(s, 1, end - 1)

\* UriPath's function over what is left, and SQLite's over the whole text.
Decodes(f, bytes) ==
  f = [i \in 1 .. Len(bytes) + 1 |->
        IF i > Len(bytes) THEN <<>>
        ELSE IF ~EscapeAt(bytes, i) THEN <<bytes[i]>> \o f[i + 1]
        ELSE LET b == Byte[<<bytes[i + 1], bytes[i + 2]>>]
             IN IF b = "NUL" THEN <<>> ELSE <<b>> \o f[i + 3]]

Walks(f, s) ==
  f = [i \in 1 .. Len(s) + 1 |->
        IF i > Len(s) \/ (i <= Len(s) /\ s[i] \in Stops) THEN <<>>
        ELSE IF EscapeAt(s, i) THEN
               IF Byte[<<s[i + 1], s[i + 2]>>] = "NUL" THEN <<>>
               ELSE <<Byte[<<s[i + 1], s[i + 2]>>]>> \o f[i + 3]
        ELSE <<s[i]>> \o f[i + 1]]

LEMMA Decodable ==
  ASSUME NEW bytes, Len(bytes) \in Nat
  PROVE  \E f : Decodes(f, bytes)
<1> DEFINE n == Len(bytes) + 1
           byte(i) == Byte[<<bytes[i + 1], bytes[i + 2]>>]
           head == [i \in 1 .. n |-> IF EscapeAt(bytes, i) THEN byte(i) ELSE bytes[i]]
           next == [i \in 1 .. n |->
                      IF i > Len(bytes) THEN 0
                      ELSE IF ~EscapeAt(bytes, i) THEN i + 1
                      ELSE IF byte(i) = "NUL" THEN 0 ELSE i + 3]
<1>1. ASSUME NEW i \in 1 .. n PROVE next[i] = 0 \/ next[i] \in i + 1 .. n
  BY DEF EscapeAt
<1>2. n \in Nat OBVIOUS
<1>3. PICK f : Solves(f, n, head, next)
  <2> HIDE DEF n, head, next
  <2>1. GoesOn(n, next) BY <1>1 DEF GoesOn
  <2> QED BY <2>1, <1>2, Solvable
<1>4. ASSUME NEW i \in 1 .. n
      PROVE  Read(f, head, next, i) =
               IF i > Len(bytes) THEN <<>>
               ELSE IF ~EscapeAt(bytes, i) THEN <<bytes[i]>> \o f[i + 1]
               ELSE LET b == Byte[<<bytes[i + 1], bytes[i + 2]>>]
                    IN IF b = "NUL" THEN <<>> ELSE <<b>> \o f[i + 3]
  BY DEF Read
<1>5. Decodes(f, bytes)
  <2> HIDE DEF head, next
  <2> QED BY <1>3, <1>4 DEF Decodes, Solves
<1> QED BY <1>5

LEMMA Walkable ==
  ASSUME NEW s, Len(s) \in Nat
  PROVE  \E f : Walks(f, s)
<1> DEFINE n == Len(s) + 1
           byte(i) == Byte[<<s[i + 1], s[i + 2]>>]
           head == [i \in 1 .. n |-> IF EscapeAt(s, i) THEN byte(i) ELSE s[i]]
           next == [i \in 1 .. n |->
                      IF i > Len(s) \/ (i <= Len(s) /\ s[i] \in Stops) THEN 0
                      ELSE IF ~EscapeAt(s, i) THEN i + 1
                      ELSE IF byte(i) = "NUL" THEN 0 ELSE i + 3]
<1>1. ASSUME NEW i \in 1 .. n PROVE next[i] = 0 \/ next[i] \in i + 1 .. n
  BY DEF EscapeAt
<1>2. n \in Nat OBVIOUS
<1>3. PICK f : Solves(f, n, head, next)
  <2> HIDE DEF n, head, next
  <2>1. GoesOn(n, next) BY <1>1 DEF GoesOn
  <2> QED BY <2>1, <1>2, Solvable
<1>4. ASSUME NEW i \in 1 .. n
      PROVE  Read(f, head, next, i) =
               IF i > Len(s) \/ (i <= Len(s) /\ s[i] \in Stops) THEN <<>>
               ELSE IF EscapeAt(s, i) THEN
                      IF Byte[<<s[i + 1], s[i + 2]>>] = "NUL" THEN <<>>
                      ELSE <<Byte[<<s[i + 1], s[i + 2]>>]>> \o f[i + 3]
               ELSE <<s[i]>> \o f[i + 1]
  BY DEF Read
<1>5. Walks(f, s)
  <2> HIDE DEF head, next
  <2> QED BY <1>3, <1>4 DEF Walks, Solves
<1> QED BY <1>5

(* Where a text is cut.                                                    *)
LEMMA LeastIs ==
  ASSUME NEW S \in SUBSET Nat, S # {}
  PROVE  Min(S) \in S /\ \A y \in S : Min(S) <= y
<1>1. \E x \in S : \A y \in S : x <= y BY LeastNumber
<1> QED BY <1>1 DEF Min

LEMMA CutIs ==
  ASSUME NEW s \in Words
  PROVE  /\ Len(Cut(s)) \in 0 .. Len(s)
         /\ \A i \in 1 .. Len(Cut(s)) : Cut(s)[i] = s[i] /\ s[i] \notin Stops
         /\ Len(Cut(s)) < Len(s) => s[Len(Cut(s)) + 1] \in Stops
<1> DEFINE I == {i \in 1 .. Len(s) : s[i] \in Stops}
           end == IF I # {} THEN Min(I) ELSE 0
<1>1. Cut(s) = IF end = 0 THEN s ELSE SubSeq(s, 1, end - 1) BY DEF Cut, SelectInSeq
<1>2. Len(s) \in Nat BY LenProperties DEF Words
<1>3. CASE I = {} BY <1>1, <1>2, <1>3
<1>4. CASE I # {}
  <2>1. Min(I) \in I /\ \A y \in I : Min(I) <= y
    <3>1. I \in SUBSET Nat BY <1>2
    <3> HIDE DEF I
    <3> QED BY <3>1, <1>4, LeastIs
  <2>2. end = Min(I) /\ end \in 1 .. Len(s) /\ s[end] \in Stops BY <1>4, <2>1
  <2>3. \A i \in 1 .. end - 1 : s[i] \notin Stops BY <1>2, <2>1, <2>2
  <2>4. Cut(s) = SubSeq(s, 1, end - 1)
    <3>1. end # 0 BY <2>2
    <3> HIDE DEF end
    <3> QED BY <3>1, <1>1
  <2> HIDE DEF end, I
  <2>5. \A i \in 1 .. end - 1 : s[i] \in STRING BY <1>2, <2>2, ElementOfSeq DEF Words
  <2>6. /\ Len(Cut(s)) = end - 1
        /\ \A i \in 1 .. end - 1 : Cut(s)[i] = s[i]
    <3>1. /\ Len(SubSeq(s, 1, end - 1)) = IF 1 <= end - 1 THEN (end - 1) - 1 + 1 ELSE 0
          /\ \A i \in 1 .. (end - 1) - 1 + 1 : SubSeq(s, 1, end - 1)[i] = s[1 + i - 1]
      BY <2>2, <2>5, <1>2, SubSeqProperties
    <3>2. \A i \in 1 .. end - 1 : 1 + i - 1 = i OBVIOUS
    <3> QED BY <3>1, <3>2, <2>2, <2>4, <1>2
  <2> QED BY <2>2, <2>3, <2>6, <1>2
<1> QED BY <1>3, <1>4

LEMMA UriPathIs ==
  ASSUME NEW s \in Words
  PROVE  \E f : Decodes(f, Cut(s)) /\ UriPath(s) = IF Utf8(f[1]) THEN f[1] ELSE <<>>
<1> DEFINE f == CHOOSE g : Decodes(g, Cut(s))
<1>1. Decodes(f, Cut(s))
  <2>1. Len(Cut(s)) \in Nat BY CutIs, LenProperties DEF Words
  <2>2. \E g : Decodes(g, Cut(s)) BY <2>1, Decodable
  <2> QED BY <2>2
<1>2. UriPath(s) = IF Utf8(f[1]) THEN f[1] ELSE <<>> BY DEF UriPath, Cut, Decodes, Stops
<1> HIDE DEF f
<1> QED BY <1>1, <1>2

LEMMA OpensUriIs ==
  ASSUME NEW s \in Words
  PROVE  \E f : Walks(f, s) /\ OpensUri(s) = f[1]
<1> DEFINE f == CHOOSE g : Walks(g, s)
<1>1. Walks(f, s)
  <2>1. Len(s) \in Nat BY LenProperties DEF Words
  <2>2. \E g : Walks(g, s) BY <2>1, Walkable
  <2> QED BY <2>2
<1>2. OpensUri(s) = f[1] BY DEF OpensUri, Walks, Stops
<1> HIDE DEF f
<1> QED BY <1>1, <1>2

(* One step of the two, where what they do later agrees.  An escape that    *)
(* begins before the query ends before it, as no hex digit begins a query.  *)
LEMMA StepsAgree ==
  ASSUME Stops \cap Hex = {}, NEW s \in Words, NEW f, NEW g,
         Decodes(f, Cut(s)), Walks(g, s),
         NEW i \in 1 .. Len(Cut(s)) + 1,
         \A j \in i + 1 .. Len(Cut(s)) + 1 : f[j] = g[j]
  PROVE  f[i] = g[i]
<1> DEFINE c == Cut(s)
           m == Len(c)
<1>1. /\ m \in 0 .. Len(s) /\ Len(s) \in Nat
      /\ \A j \in 1 .. m : c[j] = s[j] /\ s[j] \notin Stops
      /\ m < Len(s) => s[m + 1] \in Stops
  BY CutIs, LenProperties DEF Words
<1> HIDE DEF c
<1>2. f[i] = IF i > m THEN <<>>
             ELSE IF ~EscapeAt(c, i) THEN <<c[i]>> \o f[i + 1]
             ELSE LET b == Byte[<<c[i + 1], c[i + 2]>>]
                  IN IF b = "NUL" THEN <<>> ELSE <<b>> \o f[i + 3]
  BY DEF Decodes, c
<1>3. g[i] = IF i > Len(s) \/ (i <= Len(s) /\ s[i] \in Stops) THEN <<>>
             ELSE IF EscapeAt(s, i) THEN
                    IF Byte[<<s[i + 1], s[i + 2]>>] = "NUL" THEN <<>>
                    ELSE <<Byte[<<s[i + 1], s[i + 2]>>]>> \o g[i + 3]
             ELSE <<s[i]>> \o g[i + 1]
  <2>1. i \in 1 .. Len(s) + 1 BY <1>1 DEF c
  <2> QED BY <2>1 DEF Walks
<1>i. i \in 1 .. m + 1 BY DEF c
<1>h. \A j \in i + 1 .. m + 1 : f[j] = g[j] BY DEF c
<1>4. CASE i = m + 1 BY <1>1, <1>2, <1>3, <1>4
<1>5. CASE i # m + 1
  <2>1. i \in 1 .. m /\ i <= Len(s) /\ c[i] = s[i] /\ s[i] \notin Stops
    BY <1>1, <1>5, <1>i
  <2>2. EscapeAt(c, i) => i + 2 <= m /\ c[i + 1] = s[i + 1] /\ c[i + 2] = s[i + 2]
    BY <1>1, <2>1 DEF EscapeAt
  <2>3. EscapeAt(c, i) => EscapeAt(s, i) BY <1>1, <2>1, <2>2 DEF EscapeAt
  <2>4. EscapeAt(s, i) => EscapeAt(c, i)
    <3> SUFFICES ASSUME EscapeAt(s, i) PROVE EscapeAt(c, i) OBVIOUS
    <3>1. s[i] = "%" /\ i + 2 <= Len(s) /\ s[i + 1] \in Hex /\ s[i + 2] \in Hex
      BY DEF EscapeAt
    <3>2. s[i + 1] \notin Stops /\ s[i + 2] \notin Stops BY <3>1
    <3>3. i # m BY <1>1, <2>1, <3>1, <3>2
    <3>4. i + 1 # m BY <1>1, <2>1, <3>1, <3>2
    <3>5. i + 2 <= m BY <1>1, <2>1, <3>3, <3>4
    <3> QED BY SMTT(30), <1>1, <2>1, <3>1, <3>5 DEF EscapeAt
  <2>5. f[i + 1] = g[i + 1] BY <1>1, <1>h, <2>1
  <2>6. EscapeAt(c, i) => f[i + 3] = g[i + 3] BY <1>1, <1>h, <2>1, <2>2
  <2>7. ~(i > m) /\ ~(i > Len(s) \/ (i <= Len(s) /\ s[i] \in Stops)) BY <1>1, <2>1
  <2>8. CASE EscapeAt(c, i)
    <3>1. f[i] = LET b == Byte[<<c[i + 1], c[i + 2]>>]
                 IN IF b = "NUL" THEN <<>> ELSE <<b>> \o f[i + 3]
      BY <1>2, <2>7, <2>8
    <3>2. g[i] = IF Byte[<<s[i + 1], s[i + 2]>>] = "NUL" THEN <<>>
                 ELSE <<Byte[<<s[i + 1], s[i + 2]>>]>> \o g[i + 3]
      BY <1>3, <2>7, <2>8, <2>3
    <3> QED BY <3>1, <3>2, <2>2, <2>6, <2>8
  <2>9. CASE ~EscapeAt(c, i)
    <3>1. f[i] = <<c[i]>> \o f[i + 1] BY <1>2, <2>7, <2>9
    <3>2. g[i] = <<s[i]>> \o g[i + 1] BY <1>3, <2>7, <2>9, <2>4
    <3> QED BY <3>1, <3>2, <2>1, <2>5
  <2> QED BY <2>8, <2>9
<1> QED BY <1>4, <1>5

LEMMA SameReading ==
  ASSUME Stops \cap Hex = {}, NEW s \in Words, NEW f, NEW g, Decodes(f, Cut(s)), Walks(g, s)
  PROVE  f[1] = g[1]
<1> DEFINE m == Len(Cut(s))
           Differ == {x \in 0 .. m : f[m + 1 - x] # g[m + 1 - x]}
<1>1. m \in Nat BY CutIs, LenProperties DEF Words
<1> HIDE DEF m
<1>2. ASSUME Differ # {} PROVE FALSE
  <2>1. PICK x \in Differ : \A y \in Differ : x <= y
    <3>1. Differ \in SUBSET Nat BY <1>1
    <3> HIDE DEF Differ
    <3> QED BY <1>2, <3>1, LeastNumber
  <2>2. x \in 0 .. m /\ f[m + 1 - x] # g[m + 1 - x] OBVIOUS
  <2>3. ASSUME NEW j \in m + 2 - x .. m + 1 PROVE f[j] = g[j]
    <3>1. m + 1 - j \in 0 .. m /\ m + 1 - j < x BY <1>1, <2>2
    <3>2. m + 1 - j \notin Differ
      <4> HIDE DEF Differ
      <4> QED BY <2>1, <2>2, <3>1, <1>1
    <3>3. m + 1 - (m + 1 - j) = j BY <1>1
    <3> QED BY <3>1, <3>2, <3>3
  <2>4. f[m + 1 - x] = g[m + 1 - x]
    <3> DEFINE i == m + 1 - x
    <3>1. i \in 1 .. m + 1 /\ i + 1 = m + 2 - x BY <1>1, <2>2
    <3> HIDE DEF i
    <3>2. \A j \in i + 1 .. m + 1 : f[j] = g[j] BY <2>3, <3>1
    <3>3. f[i] = g[i] BY <3>1, <3>2, StepsAgree DEF m
    <3> QED BY <3>3 DEF i
  <2> QED BY <2>2, <2>4
<1>3. m \notin Differ
  <2> HIDE DEF Differ
  <2> QED BY <1>2
<1>4. m + 1 - m = 1 BY <1>1
<1> QED BY <1>1, <1>3, <1>4

(* A path that the supervisor reads in a URI is the one SQLite opens.       *)
LEMMA UriAgree ==
  ASSUME Stops \cap Hex = {}, NEW s \in Words, UriPath(s) # <<>>
  PROVE  UriPath(s) = OpensUri(s)
<1>1. PICK f : Decodes(f, Cut(s)) /\ UriPath(s) = IF Utf8(f[1]) THEN f[1] ELSE <<>>
  BY UriPathIs
<1>2. PICK g : Walks(g, s) /\ OpensUri(s) = g[1] BY OpensUriIs
<1>3. f[1] = g[1] BY <1>1, <1>2, SameReading
<1> QED BY <1>1, <1>2, <1>3

-----------------------------------------------------------------------------
(* The two readings of a whole URL.                                        *)

LEMMA GreatestIs ==
  ASSUME NEW n \in Nat, NEW S \in SUBSET (1 .. n), S # {}
  PROVE  Max(S) \in S /\ \A y \in S : y <= Max(S)
<1> DEFINE Mirror == {n - x : x \in S}
<1>1. PICK z \in Mirror : \A y \in Mirror : z <= y
  <2>1. Mirror \in SUBSET Nat /\ Mirror # {} OBVIOUS
  <2> HIDE DEF Mirror
  <2> QED BY <2>1, LeastNumber
<1>2. PICK x \in S : z = n - x OBVIOUS
<1>3. ASSUME NEW y \in S PROVE y <= x
  <2>1. n - x <= n - y BY <1>1, <1>2
  <2> QED BY <2>1
<1>4. \E w \in S : \A y \in S : w >= y BY <1>3
<1> HIDE DEF Mirror
<1>5. Max(S) \in S /\ \A y \in S : Max(S) >= y BY <1>4 DEF Max
<1> QED BY <1>5

(* UTF-8, without a blank at either end, and without an authority, which    *)
(* SQLite would not take for a part of the path.                           *)
Plain(v) ==
  /\ Utf8(v)
  /\ v # <<>> => v[1] # " " /\ v[Len(v)] # " "
  /\ Len(v) > 3 => SubSeq(v, 1, 4) # <<"sqlite", "://", "/", "/">>

LEMMA TrimPlain == ASSUME NEW v \in Words, Plain(v) PROVE Trim(v) = v
<1> DEFINE blank == " "
           kept == {i \in 1 .. Len(v) : v[i] # blank}
<1>1. DOMAIN v = 1 .. Len(v) /\ Len(v) \in Nat BY LenProperties DEF Words
<1>n. Len(v) \in Nat BY LenProperties DEF Words
<1>t. Trim(v) = IF kept = {} THEN <<>> ELSE SubSeq(v, Min(kept), Max(kept)) BY <1>1 DEF Trim
<1>b. v # <<>> => v[1] # blank /\ v[Len(v)] # blank BY DEF Plain
<1> HIDE DEF blank
<1>2. CASE v = <<>>
  <2>1. kept = {} BY <1>n, <1>2, EmptySeq
  <2> QED BY <2>1, <1>2, <1>t
<1>3. CASE v # <<>>
  <2>1. Len(v) > 0 BY <1>3, EmptySeq DEF Words
  <2>2. 1 \in kept /\ Len(v) \in kept BY <1>n, <1>3, <1>b, <2>1
  <2>3. kept \in SUBSET (1 .. Len(v)) /\ kept \in SUBSET Nat BY <1>n
  <2>4. Trim(v) = SubSeq(v, Min(kept), Max(kept)) BY <2>2, <1>t
  <2> HIDE DEF kept
  <2>5. Min(kept) = 1
    <3>1. Min(kept) \in kept /\ \A y \in kept : Min(kept) <= y BY <2>2, <2>3, LeastIs
    <3>2. Min(kept) \in 1 .. Len(v) /\ Min(kept) <= 1 BY <3>1, <2>2, <2>3
    <3> QED BY <3>2, <1>n
  <2>6. Max(kept) = Len(v)
    <3>1. Max(kept) \in kept /\ \A y \in kept : y <= Max(kept) BY <1>n, <2>2, <2>3, GreatestIs
    <3>2. Max(kept) \in 1 .. Len(v) /\ Len(v) <= Max(kept) BY <3>1, <2>2, <2>3
    <3> QED BY <3>2, <1>n
  <2> QED BY <2>4, <2>5, <2>6, SubSeqFull DEF Words
<1> QED BY <1>2, <1>3

DbOf(url) == IF Trim(url) = Unset THEN DefaultDb ELSE SqlitePath(url)

\* Opens, of the URL in the environment.
OpensUrl(url) ==
  CASE url = Unset -> DefaultDb
    [] Len(url) > 1 /\ SubSeq(url, 1, 2) = <<"sqlite", "://">> ->
         OpensUri(SubSeq(url, 3, Len(url)))
    [] OTHER -> url

(* The first colon of a URL that begins as the vault's do is the scheme's.  *)
LEMMA Schemes ==
  ASSUME NEW url \in Words
  PROVE  LET scheme == SplitAt(url, "://")
             begins == Len(url) > 1 /\ SubSeq(url, 1, 2) = <<"sqlite", "://">>
         IN /\ scheme = 0 => ~begins
            /\ scheme # 0 /\ SubSeq(url, 1, scheme - 1) = <<"sqlite">> => scheme = 2 /\ begins
<1> DEFINE I == {i \in 1 .. Len(url) : url[i] = "://"}
           scheme == SplitAt(url, "://")
<1>1. scheme = IF I # {} THEN Min(I) ELSE 0 BY DEF SplitAt, SelectInSeq
<1>2. Len(url) \in Nat BY LenProperties DEF Words
<1>3. I # {} => scheme \in I
  <2>1. I \in SUBSET Nat BY <1>2
  <2> HIDE DEF I
  <2> QED BY <1>1, <2>1, LeastIs
<1>4. \A m \in 0 .. Len(url) :
         /\ Len(SubSeq(url, 1, m)) = m
         /\ \A i \in 1 .. m : SubSeq(url, 1, m)[i] = url[i]
  <2> SUFFICES ASSUME NEW m \in 0 .. Len(url)
               PROVE  /\ Len(SubSeq(url, 1, m)) = m
                      /\ \A i \in 1 .. m : SubSeq(url, 1, m)[i] = url[i]
    OBVIOUS
  <2>1. \A i \in 1 .. m : url[i] \in STRING BY ElementOfSeq DEF Words
  <2>2. /\ Len(SubSeq(url, 1, m)) = IF 1 <= m THEN m - 1 + 1 ELSE 0
        /\ \A i \in 1 .. m - 1 + 1 : SubSeq(url, 1, m)[i] = url[1 + i - 1]
    BY <2>1, <1>2, SubSeqProperties
  <2>3. \A i \in 1 .. m : 1 + i - 1 = i OBVIOUS
  <2> QED BY <2>2, <2>3, <1>2
<1>5. ASSUME scheme = 0, Len(url) > 1, SubSeq(url, 1, 2) = <<"sqlite", "://">> PROVE FALSE
  <2>1. url[2] = "://"
    <3>1. SubSeq(url, 1, 2)[2] = url[2] BY <1>4, <1>5, <1>2
    <3>2. <<"sqlite", "://">>[2] = "://" OBVIOUS
    <3> QED BY <3>1, <3>2, <1>5
  <2>2. 2 \in I BY <2>1, <1>2, <1>5
  <2> QED BY <1>3, <1>5, <2>2
<1>6. ASSUME scheme # 0, SubSeq(url, 1, scheme - 1) = <<"sqlite">>
      PROVE  scheme = 2 /\ Len(url) > 1 /\ SubSeq(url, 1, 2) = <<"sqlite", "://">>
  <2>1. scheme \in 1 .. Len(url) /\ url[scheme] = "://" BY <1>1, <1>3, <1>6
  <2> HIDE DEF scheme
  <2>2. Len(SubSeq(url, 1, scheme - 1)) = scheme - 1 BY <1>2, <1>4, <2>1
  <2>3. scheme = 2
    <3>1. Len(<<"sqlite">>) = 1 OBVIOUS
    <3> QED BY <3>1, <2>1, <2>2, <1>2, <1>6
  <2>4. url[1] = "sqlite"
    <3>1. SubSeq(url, 1, 1)[1] = url[1] BY <1>2, <1>4, <2>1, <2>3
    <3>2. <<"sqlite">>[1] = "sqlite" OBVIOUS
    <3>3. scheme - 1 = 1 BY <2>3
    <3>4. SubSeq(url, 1, 1) = <<"sqlite">> BY <1>6, <3>3
    <3> QED BY <3>1, <3>2, <3>4
  <2>5. SubSeq(url, 1, 2) = <<"sqlite", "://">>
    <3> DEFINE t == SubSeq(url, 1, 2)
               p == <<"sqlite", "://">>
               S == STRING \union {"sqlite", "://"}
    <3>1. Len(t) = 2 /\ t[1] = "sqlite" /\ t[2] = "://" BY <1>2, <1>4, <2>1, <2>3, <2>4
    <3>2. t \in Seq(S)
      <4>1. \A i \in 1 .. 2 : url[i] \in S BY <2>1, <2>3, <2>4, <1>2
      <4> HIDE DEF S
      <4> QED BY <4>1, SubSeqProperties
    <3>3. p \in Seq(S) /\ Len(p) = 2 /\ p[1] = "sqlite" /\ p[2] = "://" OBVIOUS
    <3> HIDE DEF t, p, S
    <3>4. \A i \in 1 .. Len(t) : t[i] = p[i] BY <3>1, <3>3
    <3>5. t = p BY <3>1, <3>2, <3>3, <3>4, SeqEqual
    <3> QED BY <3>5 DEF t, p
  <2> QED BY <2>1, <2>3, <2>5, <1>2
<1> QED BY <1>5, <1>6

LEMMA UrlsAgree ==
  ASSUME Stops \cap Hex = {}, NEW url \in Words, Plain(url), DbOf(url) # <<>>
  PROVE  OpensUrl(url) = DbOf(url)
<1> DEFINE scheme == SplitAt(url, "://")
           begins == Len(url) > 1 /\ SubSeq(url, 1, 2) = <<"sqlite", "://">>
<1>1. Trim(url) = url BY TrimPlain
<1>2. /\ scheme = 0 => ~begins
      /\ scheme # 0 /\ SubSeq(url, 1, scheme - 1) = <<"sqlite">> => scheme = 2 /\ begins
  BY Schemes
<1>3. CASE url = Unset
  <2>1. ~begins BY <1>3, EmptySeq DEF Unset
  <2> QED BY <1>1, <1>3, <2>1 DEF DbOf, OpensUrl
<1>4. CASE url # Unset
  <2>1. DbOf(url) = CASE scheme = 0 -> url
                      [] scheme # 0 /\ SubSeq(url, 1, scheme - 1) = <<"sqlite">> ->
                           UriPath(SubSeq(url, scheme + 1, Len(url)))
                      [] OTHER -> <<>>
    BY <1>1, <1>4 DEF DbOf, SqlitePath
  <2>2. CASE scheme = 0 BY <1>2, <1>4, <2>1, <2>2 DEF OpensUrl
  <2>3. CASE scheme # 0
    <3>1. SubSeq(url, 1, scheme - 1) = <<"sqlite">> BY <2>1, <2>3
    <3>2. scheme = 2 /\ begins BY <1>2, <2>3, <3>1
    <3> DEFINE s == SubSeq(url, 3, Len(url))
    <3>3. DbOf(url) = UriPath(s) BY <2>1, <2>3, <3>1, <3>2
    <3>4. OpensUrl(url) = OpensUri(s) BY <1>4, <3>2 DEF OpensUrl
    <3>5. s \in Words
      <4>1. Len(url) \in Nat /\ \A i \in 3 .. Len(url) : url[i] \in STRING
        BY ElementOfSeq, LenProperties DEF Words
      <4> QED BY <4>1, SubSeqProperties DEF Words
    <3> HIDE DEF s
    <3> QED BY <3>3, <3>4, <3>5, UriAgree
  <2> QED BY <2>2, <2>3
<1> QED BY <1>3, <1>4

-----------------------------------------------------------------------------
(* Where each of the two finds the URL.                                    *)

\* What the boot resolved the URL to.
Url == IF FromEnv(DatabaseUrl) # Unset THEN FromEnv(DatabaseUrl) ELSE LastIn(read, DatabaseUrl)

UrlKey == <<"DATABASE_URL">>

(* Every database URL that anybody sets is UTF-8, has no blank at an end and *)
(* names no authority, and what begins a query is no hex digit.             *)
PlainUrls ==
  /\ \A b \in Bases : DatabaseUrl \in DOMAIN b.env => Plain(b.env[DatabaseUrl])
  /\ \A e \in EnvInputs : e[1] = DatabaseUrl => Plain(e[2])
  /\ \A l \in FileLines : l # <<>> /\ l[1] = DatabaseUrl => Plain(l[2])
  /\ Stops \cap Hex = {}

UrlPlain == DatabaseUrl \in DOMAIN ambient => Plain(ambient[DatabaseUrl])

DbResolved ==
  mode # "off" /\ config.backup.on =>
    config.backup.db = DbOf(Url) /\ config.backup.db # <<>>

UrlInv == BootInv /\ UrlPlain /\ DbResolved

LEMMA UrlNames ==
  /\ DatabaseUrl \in Seq({"VAULTWARDEN", "DATABASE_URL"})
  /\ Tail(DatabaseUrl) = UrlKey /\ Len(UrlKey) = 1 /\ <<"VAULTWARDEN">> \o UrlKey = DatabaseUrl
  /\ UrlKey \notin PinNames /\ UrlKey \notin DOMAIN ImageDefaults
  /\ ~Consumed(DatabaseUrl) /\ IsVaultwardenKey(DatabaseUrl) /\ ~IsSupervisorKey(UrlKey)
<1>1. DatabaseUrl \in Seq({"VAULTWARDEN", "DATABASE_URL"}) /\ Len(DatabaseUrl) = 2
  BY DEF DatabaseUrl
<1>2. Tail(DatabaseUrl) = UrlKey BY DEF DatabaseUrl, UrlKey
<1>3. <<"VAULTWARDEN">> \o UrlKey = DatabaseUrl
  <2> DEFINE p == <<"VAULTWARDEN">>
             S == {"VAULTWARDEN", "DATABASE_URL"}
  <2>1. p \in Seq(S) /\ Len(p) = 1 /\ p[1] = "VAULTWARDEN" OBVIOUS
  <2>2. UrlKey \in Seq(S) /\ Len(UrlKey) = 1 /\ UrlKey[1] = "DATABASE_URL" BY DEF UrlKey
  <2>3. DatabaseUrl[1] = "VAULTWARDEN" /\ DatabaseUrl[2] = "DATABASE_URL" BY DEF DatabaseUrl
  <2> HIDE DEF p, S
  <2>4. /\ p \o UrlKey \in Seq(S) /\ Len(p \o UrlKey) = 2
        /\ (p \o UrlKey)[1] = p[1] /\ (p \o UrlKey)[2] = UrlKey[1]
    BY <2>1, <2>2, ConcatProperties
  <2>5. \A i \in 1 .. 2 : (p \o UrlKey)[i] = DatabaseUrl[i] BY <2>1, <2>2, <2>3, <2>4
  <2>6. DatabaseUrl \in Seq(S) BY <1>1 DEF S
  <2>7. p \o UrlKey = DatabaseUrl BY <1>1, <2>4, <2>5, <2>6, SeqEqual
  <2> QED BY <2>7 DEF p
<1>4. UrlKey \notin PinNames /\ Len(UrlKey) = 1 BY DEF UrlKey, PinNames
<1>5. UrlKey \notin DOMAIN ImageDefaults BY DEF UrlKey, ImageDefaults
<1>6. DatabaseUrl \notin Knobs
  <2>1. DatabaseUrl[1] = "VAULTWARDEN" /\ DatabaseUrl[2] = "DATABASE_URL" BY DEF DatabaseUrl
  <2>2. \A k \in Tailscale \union Supervisor : k[1] \in {"TAILSCALE", "SUPERVISOR"}
    BY DEF Tailscale, Supervisor
  <2>3. /\ PortKey[2] = "PORT" /\ LegacyPort[2] = "ROCKET_PORT"
        /\ EnvFile[1] = "SUPERVISOR"
    BY DEF PortKey, LegacyPort, EnvFile
  <2> QED BY <2>1, <2>2, <2>3 DEF Knobs, FileKnobs
<1>7. ~IsSupervisorKey(DatabaseUrl) BY DEF IsSupervisorKey, DatabaseUrl
<1>8. IsVaultwardenKey(DatabaseUrl)
  <2> DEFINE empty == <<"">>
  <2>1. UrlKey # empty BY DEF UrlKey
  <2>2. DatabaseUrl[1] = "VAULTWARDEN" BY DEF DatabaseUrl
  <2>3. Len(DatabaseUrl) > 1 BY <1>1
  <2>4. IsVaultwardenKey(DatabaseUrl) <=>
          Len(DatabaseUrl) > 1 /\ DatabaseUrl[1] = "VAULTWARDEN" /\ Tail(DatabaseUrl) # empty
    BY DEF IsVaultwardenKey
  <2> HIDE DEF empty
  <2> QED BY <2>1, <2>2, <2>3, <2>4, <1>2
<1>9. ~IsSupervisorKey(UrlKey) BY <1>4 DEF IsSupervisorKey
<1> QED BY <1>1, <1>2, <1>3, <1>4, <1>5, <1>6, <1>7, <1>8, <1>9 DEF Consumed, ConsumedChildKey

LEMMA UrlRoute == Route(DatabaseUrl) = "child"
<1> QED BY UrlNames DEF Route

(* A setting that is found is one of the file's.                           *)
LEMMA LastIs ==
  ASSUME NEW lines \in Seq(FileLines), NEW k, LastIn(lines, k) # Unset
  PROVE  \E i \in Settings(lines) : lines[i][1] = k /\ LastIn(lines, k) = lines[i][2]
<1> DEFINE at == {i \in Settings(lines) : lines[i][1] = k}
<1>1. LastIn(lines, k) = IF at = {} THEN Unset ELSE lines[Max(at)][2] BY DEF LastIn
<1>2. at # {} BY <1>1
<1>3. at \in SUBSET (1 .. Len(lines)) /\ Len(lines) \in Nat
  BY LenProperties DEF Settings
<1> HIDE DEF at
<1>4. Max(at) \in at BY <1>2, <1>3, GreatestIs
<1>5. Max(at) \in Settings(lines) /\ lines[Max(at)][1] = k BY <1>4 DEF at
<1> QED BY <1>1, <1>2, <1>5

LEMMA FileUrlPlain ==
  ASSUME PlainUrls, NEW lines \in Seq(FileLines)
  PROVE  LastIn(lines, DatabaseUrl) \in Words /\ Plain(LastIn(lines, DatabaseUrl))
<1>1. CASE LastIn(lines, DatabaseUrl) = Unset
  BY <1>1, EmptySeq DEF Unset, Words, Plain, Utf8
<1>2. CASE LastIn(lines, DatabaseUrl) # Unset
  <2>1. PICK i \in Settings(lines) :
          lines[i][1] = DatabaseUrl /\ LastIn(lines, DatabaseUrl) = lines[i][2]
    BY <1>2, LastIs
  <2>2. lines[i] \in FileLines /\ lines[i] # <<>>
    BY ElementOfSeq, LenProperties DEF Settings
  <2> QED BY <2>1, <2>2, Lined DEF PlainUrls
<1> QED BY <1>1, <1>2

LEMMA EnvUrlPlain ==
  ASSUME EnvOK, UrlPlain
  PROVE  /\ FromEnv(DatabaseUrl) \in Words /\ Plain(FromEnv(DatabaseUrl))
         /\ DatabaseUrl \in DOMAIN ambient => FromEnv(DatabaseUrl) = ambient[DatabaseUrl]
         /\ DatabaseUrl \notin DOMAIN ambient => FromEnv(DatabaseUrl) = Unset
<1>1. CASE DatabaseUrl \in DOMAIN ambient
  <2>1. Plain(ambient[DatabaseUrl]) /\ ambient[DatabaseUrl] \in Words
    BY <1>1 DEF EnvOK, UrlPlain
  <2>2. FromEnv(DatabaseUrl) = ambient[DatabaseUrl] BY <1>1, <2>1 DEF FromEnv, Plain
  <2> QED BY <1>1, <2>1, <2>2
<1>2. CASE DatabaseUrl \notin DOMAIN ambient
  <2>1. FromEnv(DatabaseUrl) = Unset BY <1>2 DEF FromEnv
  <2> QED BY <1>2, <2>1, EmptySeq DEF Unset, Words, Plain, Utf8
<1> QED BY <1>1, <1>2

(* What is forwarded under the vault's name for the URL.                   *)
LEMMA ForwardsUrl ==
  ASSUME EnvOK
  PROVE  /\ UrlKey \in DOMAIN Forwards <=> DatabaseUrl \in DOMAIN ambient
         /\ UrlKey \in DOMAIN Forwards => Forwards[UrlKey] = ambient[DatabaseUrl]
<1>1. ASSUME UrlKey \in DOMAIN Forwards PROVE DatabaseUrl \in DOMAIN ambient
  BY <1>1, ForwardsDo, UrlNames
<1>2. ASSUME DatabaseUrl \in DOMAIN ambient PROVE UrlKey \in DOMAIN Forwards
  <2>1. Forwarded(DatabaseUrl) BY UrlNames DEF Forwarded
  <2> QED BY <1>2, <2>1, UrlNames DEF Forwards
<1>3. ASSUME UrlKey \in DOMAIN Forwards PROVE Forwards[UrlKey] = ambient[DatabaseUrl]
  <2>1. Forwards[UrlKey] = ambient[<<"VAULTWARDEN">> \o UrlKey] BY <1>3 DEF Forwards
  <2> QED BY <2>1, UrlNames
<1> QED BY <1>1, <1>2, <1>3

LEMMA GrantsUrl ==
  ASSUME NEW lines \in Seq(FileLines)
  PROVE  /\ LastIn(lines, DatabaseUrl) # Unset => UrlKey \in DOMAIN Grants(lines)
         /\ UrlKey \in DOMAIN Grants(lines) =>
              Grants(lines)[UrlKey] = LastIn(lines, DatabaseUrl)
<1>1. ASSUME LastIn(lines, DatabaseUrl) # Unset PROVE UrlKey \in DOMAIN Grants(lines)
  <2>1. PICK i \in Settings(lines) : lines[i][1] = DatabaseUrl BY <1>1, LastIs
  <2> QED BY <2>1, GrantsAll, UrlRoute, UrlNames
<1>2. ASSUME UrlKey \in DOMAIN Grants(lines)
      PROVE  Grants(lines)[UrlKey] = LastIn(lines, DatabaseUrl)
  <2>1. Grants(lines)[UrlKey] = LastIn(lines, <<"VAULTWARDEN">> \o UrlKey) BY <1>2 DEF Grants
  <2> QED BY <2>1, UrlNames
<1> QED BY <1>1, <1>2

(* The vault finds the URL that the boot resolved: the environment's if it  *)
(* is set, the file's otherwise, and nobody else's.                         *)
LEMMA ChildUrl ==
  ASSUME PlainUrls, UrlInv, mode = "running"
  PROVE  Url = IF UrlKey \in DOMAIN child /\ Utf8(child[UrlKey]) THEN child[UrlKey] ELSE Unset
<1>1. EnvOK /\ UrlPlain /\ read \in Seq(FileLines) /\ config.vwEnv = Grants(read)
      /\ child = GrantedEnv
  BY DEF UrlInv, BootInv, Typed, Resolved, Started
<1>2. UrlKey \notin DOMAIN Pins /\ UrlKey \notin DOMAIN ImageDefaults
  BY PinsNamed, UrlNames
<1> DEFINE fw == NonEmpty(Forwards)
           gr == NonEmpty(config.vwEnv)
<1>3. UrlKey \in DOMAIN fw <=> FromEnv(DatabaseUrl) # Unset
  BY <1>1, ForwardsUrl, EnvUrlPlain, NonEmptyDo
<1>4. UrlKey \in DOMAIN fw => fw[UrlKey] = FromEnv(DatabaseUrl)
  BY <1>1, ForwardsUrl, EnvUrlPlain, NonEmptyDo
<1>5. UrlKey \in DOMAIN gr <=> LastIn(read, DatabaseUrl) # Unset
  BY <1>1, GrantsUrl, NonEmptyDo
<1>6. UrlKey \in DOMAIN gr => gr[UrlKey] = LastIn(read, DatabaseUrl)
  BY <1>1, GrantsUrl, NonEmptyDo
<1>7. Utf8(FromEnv(DatabaseUrl)) /\ Utf8(LastIn(read, DatabaseUrl))
  BY <1>1, EnvUrlPlain, FileUrlPlain DEF Plain
<1>8. CASE FromEnv(DatabaseUrl) # Unset
  <2>1. UrlKey \in DOMAIN child /\ child[UrlKey] = FromEnv(DatabaseUrl)
    BY <1>1, <1>2, <1>3, <1>4, <1>8, Layered
  <2> QED BY <2>1, <1>7, <1>8 DEF Url
<1>9. CASE FromEnv(DatabaseUrl) = Unset /\ LastIn(read, DatabaseUrl) # Unset
  <2>1. UrlKey \in DOMAIN child /\ child[UrlKey] = LastIn(read, DatabaseUrl)
    BY <1>1, <1>2, <1>3, <1>5, <1>6, <1>9, Layered
  <2> QED BY <2>1, <1>7, <1>9 DEF Url
<1>10. CASE FromEnv(DatabaseUrl) = Unset /\ LastIn(read, DatabaseUrl) = Unset
  <2>1. UrlKey \notin DOMAIN child BY <1>1, <1>2, <1>3, <1>5, <1>10, Layered
  <2> QED BY <2>1, <1>10 DEF Url
<1> QED BY <1>8, <1>9, <1>10

LEMMA Same == ASSUME PlainUrls, UrlInv PROVE SameDatabase
<1> SUFFICES ASSUME mode = "running", config.backup.on
             PROVE  Opens(child) = config.backup.db
  BY DEF SameDatabase
<1>1. config.backup.db = DbOf(Url) /\ DbOf(Url) # <<>> BY DEF UrlInv, DbResolved
<1>2. Url \in Words /\ Plain(Url)
  <2>1. EnvOK /\ UrlPlain /\ read \in Seq(FileLines) BY DEF UrlInv, BootInv, Typed
  <2> QED BY <2>1, EnvUrlPlain, FileUrlPlain DEF Url
<1>3. Opens(child) = OpensUrl(Url) BY ChildUrl DEF Opens, OpensUrl, UrlKey
<1>4. OpensUrl(Url) = DbOf(Url) BY <1>1, <1>2, UrlsAgree DEF PlainUrls
<1> QED BY <1>1, <1>3, <1>4

LEMMA UrlInit == ASSUME PlainUrls, Init PROVE UrlInv
<1>1. BootInv BY InitBooted
<1>2. UrlPlain BY DEF Init, PlainUrls, UrlPlain
<1>3. DbResolved BY DEF Init, DbResolved
<1> QED BY <1>1, <1>2, <1>3 DEF UrlInv

LEMMA UrlNext == ASSUME PlainUrls, UrlInv, [Next]_vars PROVE UrlInv'
<1>1. BootInv' BY NextBooted DEF UrlInv
<1>2. UrlPlain'
  <2>1. CASE EditEnv
    <3>1. PICK e \in EnvInputs :
            ambient' = [k \in DOMAIN ambient \union {e[1]} |-> IF k = e[1] THEN e[2] ELSE ambient[k]]
      BY <2>1 DEF EditEnv
    <3>2. e[1] = DatabaseUrl => Plain(e[2]) BY DEF PlainUrls
    <3> QED BY <3>1, <3>2 DEF UrlInv, UrlPlain
  <2>2. CASE ambient' = ambient BY <2>2 DEF UrlInv, UrlPlain
  <2> QED BY <2>1, <2>2 DEF Next, EditFile, BootRefuses, Boot, StartVault, Stop, vars
<1>3. DbResolved'
  <2>1. CASE Boot
    <3>1. SUFFICES ASSUME Backup.on
                   PROVE  Backup.db = DbOf(Url') /\ Backup.db # <<>>
      BY <2>1 DEF Boot, Build, DbResolved
    <3>2. Backup.db = (IF Trim(Knob(DatabaseUrl)) = Unset THEN DefaultDb
                       ELSE SqlitePath(Knob(DatabaseUrl)))
          /\ Backup.db # <<>>
      BY <3>1 DEF Backup, None
    <3>3. Knob(DatabaseUrl) = Url'
      <4>1. FromFile(DatabaseUrl) = LastIn(Lines, DatabaseUrl) BY UrlRoute DEF FromFile
      <4>2. FromEnv(DatabaseUrl)' = FromEnv(DatabaseUrl) BY <2>1 DEF Boot, FromEnv
      <4>3. LastIn(read, DatabaseUrl)' = LastIn(Lines, DatabaseUrl) BY <2>1 DEF Boot
      <4> QED BY <4>1, <4>2, <4>3 DEF Knob, Url
    <3> QED BY <3>2, <3>3 DEF DbOf
  <2>2. CASE mode' = "off" BY <2>2 DEF DbResolved
  <2>3. CASE UNCHANGED <<ambient, config, read>> /\ (mode' # "off" => mode # "off")
    <3>1. Url' = Url BY <2>3 DEF Url, FromEnv
    <3>2. DbOf(Url)' = DbOf(Url) BY <3>1
    <3> QED BY <2>3, <3>2 DEF UrlInv, DbResolved
  <2>4. EditEnv => mode' = "off" BY DEF EditEnv
  <2>5. Stop => mode' = "off" BY DEF Stop
  <2> QED BY <2>1, <2>2, <2>3, <2>4, <2>5 DEF Next, EditFile, BootRefuses, StartVault, vars
<1> QED BY <1>1, <1>2, <1>3 DEF UrlInv

-----------------------------------------------------------------------------
(* The theorems.                                                           *)

(* The vault's environment holds nothing of the supervisor's and nothing    *)
(* that nobody granted, and its pins hold (granted_env), whatever is set in  *)
(* the container, in the file, and between boot and start.                  *)
THEOREM ChildStaysConfined == Spec => []ChildIsConfined
<1> QED BY Booted, Confined, PTL

(* A boot that goes on has used every setting of the file, and only numbers *)
(* in range (FileConfig::load_from, resolve_sync, resolve_backup).          *)
THEOREM EveryLineIsUsed == Spec => []NothingIsIgnored
<1> QED BY Booted, Used, PTL

(* Supervisor and vault open the same database: sqlite_path's reading of a  *)
(* URL of any length, and the source it is taken from, agree with SQLite's   *)
(* and the vault's, as long as URLs are UTF-8, have no blank at an end and   *)
(* name no authority.                                                       *)
THEOREM DatabasesAgree ==
  ASSUME PlainUrls
  PROVE  Spec => []SameDatabase
<1>1. Init => UrlInv BY UrlInit
<1>2. UrlInv /\ [Next]_vars => UrlInv' BY UrlNext
<1>3. UrlInv => SameDatabase BY Same
<1> QED BY <1>1, <1>2, <1>3, PTL DEF Spec

=============================================================================
