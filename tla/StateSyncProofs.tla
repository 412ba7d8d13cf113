--------------------------- MODULE StateSyncProofs ---------------------------
(***************************************************************************)
(* What the state sync keeps for every set of files and every number of    *)
(* writes and faults.                                                      *)
(***************************************************************************)
EXTENDS StateSync, TLAPS

-----------------------------------------------------------------------------
(* Sequences of objects.                                                   *)

LEMMA Removed ==
  ASSUME NEW S, NEW s \in Seq(S), NEW i \in DOMAIN s
  PROVE  /\ RemoveAt(s, i) \in Seq(S)
         /\ Len(RemoveAt(s, i)) = Len(s) - 1
         /\ \A j \in 1 .. Len(s) - 1 : RemoveAt(s, i)[j] = IF j < i THEN s[j] ELSE s[j + 1]
<1>1. i \in 1 .. Len(s) OBVIOUS
<1> DEFINE a == SubSeq(s, 1, i - 1)
           b == SubSeq(s, i + 1, Len(s))
<1>2. a \in Seq(S) /\ Len(a) = i - 1 BY <1>1
<1>3. b \in Seq(S) /\ Len(b) = Len(s) - i BY <1>1
<1>4. /\ \A j \in 1 .. i - 1 : a[j] = s[j]
      /\ \A j \in 1 .. Len(s) - i : b[j] = s[i + j]
  BY <1>1
<1>5. RemoveAt(s, i) = a \o b BY DEF RemoveAt
<1> HIDE DEF a, b
<1>6. a \o b \in Seq(S) /\ Len(a \o b) = Len(s) - 1 BY <1>1, <1>2, <1>3
<1>7. ASSUME NEW j \in 1 .. Len(s) - 1 PROVE (a \o b)[j] = IF j < i THEN s[j] ELSE s[j + 1]
  <2>1. CASE j < i BY <1>1, <1>2, <1>3, <1>4, <2>1
  <2>2. CASE ~(j < i)
    <3>1. (a \o b)[j] = b[j - (i - 1)] BY SMTT(30), <1>1, <1>2, <1>3, <2>2
    <3>2. j - (i - 1) \in 1 .. Len(s) - i /\ i + (j - (i - 1)) = j + 1 BY <1>1, <2>2
    <3> QED BY <1>4, <2>2, <3>1, <3>2
  <2> QED BY <2>1, <2>2
<1> QED BY <1>5, <1>6, <1>7

\* A key holds one object at a time.
OneEach(s) == \A i, j \in DOMAIN s : s[i].hash = s[j].hash => i = j

LEMMA RemovedKeepsKeys ==
  ASSUME NEW S, NEW s \in Seq(S), OneEach(s), NEW i \in DOMAIN s
  PROVE  OneEach(RemoveAt(s, i))
<1> DEFINE t == RemoveAt(s, i)
<1>0. i \in 1 .. Len(s) OBVIOUS
<1>1. /\ t \in Seq(S) /\ Len(t) = Len(s) - 1
      /\ \A j \in 1 .. Len(s) - 1 : t[j] = IF j < i THEN s[j] ELSE s[j + 1]
  BY Removed
<1> HIDE DEF t
<1>2. DOMAIN t = 1 .. Len(s) - 1 /\ DOMAIN s = 1 .. Len(s) BY <1>1
<1> USE <1>0
<1>3. ASSUME NEW j \in DOMAIN t, NEW k \in DOMAIN t, t[j].hash = t[k].hash PROVE j = k
  <2> DEFINE m == IF j < i THEN j ELSE j + 1
             n == IF k < i THEN k ELSE k + 1
  <2>1. m \in DOMAIN s /\ n \in DOMAIN s /\ t[j] = s[m] /\ t[k] = s[n] BY <1>1, <1>2
  <2>2. m = n BY <1>3, <2>1 DEF OneEach
  <2> QED BY <1>1, <1>2, <2>2
<1> QED BY <1>3 DEF OneEach, t

\* What an upload leaves in the sequence of a file.
LEMMA Uploaded ==
  ASSUME cas \in [Rels -> Seq(Objects)], NEW r \in Rels, OneEach(cas[r]),
         NEW h \in Content \ {0}, NEW d \in Content \ {0},
         NEW c, c = PutObject(r, h, d)
  PROVE  /\ c \in [Rels -> Seq(Objects)] /\ OneEach(c[r])
         /\ \A q \in Rels \ {r} : c[q] = cas[q]
         /\ ToSet(c[r]) = {o \in ToSet(cas[r]) : o.hash # h} \cup {[hash |-> h, data |-> d]}
<1> DEFINE s == cas[r]
           new == [hash |-> h, data |-> d]
           same == {i \in DOMAIN s : s[i].hash = h}
           rest == IF same = {} THEN s ELSE RemoveAt(s, CHOOSE i \in same : TRUE)
<1>1. s \in Seq(Objects) /\ new \in Objects BY DEF Objects
<1>2. c = [cas EXCEPT ![r] = Append(rest, new)] BY DEF PutObject
<1>3. /\ rest \in Seq(Objects) /\ OneEach(rest)
      /\ \A j \in DOMAIN rest : rest[j].hash # h
      /\ ToSet(rest) = {o \in ToSet(s) : o.hash # h}
  <2>1. CASE same = {}
    <3>1. rest = s BY <2>1
    <3>2. \A j \in DOMAIN s : s[j].hash # h BY <2>1
    <3> QED BY <1>1, <3>1, <3>2 DEF ToSet
  <2>2. CASE same # {}
    <3> DEFINE i == CHOOSE i \in same : TRUE
    <3>1. i \in same /\ rest = RemoveAt(s, i) BY <2>2
    <3>2. i \in DOMAIN s /\ s[i].hash = h BY <3>1
    <3> HIDE DEF i, rest, same
    <3>3. /\ rest \in Seq(Objects) /\ Len(rest) = Len(s) - 1
          /\ \A j \in 1 .. Len(s) - 1 : rest[j] = IF j < i THEN s[j] ELSE s[j + 1]
      BY <1>1, <3>1, <3>2, Removed
    <3>4. OneEach(rest) BY <1>1, <3>1, <3>2, RemovedKeepsKeys
    <3>5. DOMAIN s = 1 .. Len(s) /\ DOMAIN rest = 1 .. Len(s) - 1 /\ i \in 1 .. Len(s)
      BY <1>1, <3>2, <3>3
    <3>6. ASSUME NEW j \in DOMAIN rest
          PROVE  rest[j].hash # h /\ \E k \in DOMAIN s : rest[j] = s[k]
      <4> DEFINE k == IF j < i THEN j ELSE j + 1
      <4>1. k \in DOMAIN s /\ k # i /\ rest[j] = s[k] BY <3>3, <3>5
      <4> QED BY <3>2, <4>1 DEF OneEach
    <3>7. ASSUME NEW k \in DOMAIN s, s[k].hash # h PROVE \E j \in DOMAIN rest : rest[j] = s[k]
      <4> DEFINE j == IF k < i THEN k ELSE k - 1
      <4>1. k # i BY <3>2, <3>7
      <4>2. j \in DOMAIN rest /\ rest[j] = s[k] BY <3>3, <3>5, <4>1
      <4> QED BY <4>2
    <3> QED BY <3>3, <3>4, <3>6, <3>7 DEF ToSet
  <2> QED BY <2>1, <2>2
<1> HIDE DEF rest, same, new
<1>4. c[r] = Append(rest, new) BY <1>2
<1>5. /\ c[r] \in Seq(Objects) /\ Len(c[r]) = Len(rest) + 1 /\ c[r][Len(rest) + 1] = new
      /\ \A j \in 1 .. Len(rest) : c[r][j] = rest[j]
  BY <1>1, <1>3, <1>4
<1>6. DOMAIN c[r] = 1 .. Len(rest) + 1 /\ DOMAIN rest = 1 .. Len(rest) /\ Len(rest) \in Nat
  BY <1>3, <1>5
<1>7. OneEach(c[r])
  <2>1. new.hash = h BY DEF new
  <2> QED BY <1>3, <1>5, <1>6, <2>1 DEF OneEach
<1>8. ToSet(c[r]) = ToSet(rest) \cup {new} BY <1>5, <1>6 DEF ToSet
<1>9. c \in [Rels -> Seq(Objects)] /\ \A q \in Rels \ {r} : c[q] = cas[q]
  BY <1>2, <1>4, <1>5
<1> QED BY <1>3, <1>7, <1>8, <1>9 DEF new

-----------------------------------------------------------------------------
(* Types.                                                                  *)

Keyed == \A r \in Rels : OneEach(cas[r])

LEMMA Bounds ==
  MaxWrites \in Nat /\ MaxFaults \in Nat /\ Content \subseteq Nat /\ {0, 1} \subseteq Content
BY SyncAssumption DEF Content

LEMMA Empty == Nothing \in [Rels -> Content] /\ \A r \in Rels : Nothing[r] = 0
BY Bounds DEF Nothing

LEMMA IdleIsTyped ==
  /\ Idle \in Pushes /\ Idle.pc = "idle" /\ Idle.todo \subseteq Idle.list
  /\ Idle.man = Nothing /\ Idle.cache = Nothing /\ ~Idle.fresh /\ ~Idle.publish
  /\ Idle.misfit = {} /\ Idle.sized = FALSE
BY Empty, Bounds DEF Idle, Pushes

LEMMA NoPullIsTyped ==
  /\ NoPull \in [man : [Rels -> Content], misfit : SUBSET Rels, known : BOOLEAN,
                 todo : SUBSET Rels]
  /\ NoPull.man = Nothing /\ ~NoPull.known
BY Empty DEF NoPull

LEMMA FaultIsTyped ==
  ASSUME TypeOK, UNCHANGED faults \/ (\E k \in FaultKinds : Fault(k))
  PROVE  faults' \in 0 .. MaxFaults
BY Bounds DEF TypeOK, Fault

\* What an upload does to the bucket.
LEMMA UploadDoes ==
  ASSUME TypeOK, Keyed, push.pc = "put", files[push.rel] # 0, Upload
  PROVE  /\ push.rel \in Rels /\ push.hash \in Content \ {0}
         /\ files[push.rel] \in Content \ {0}
         /\ cas' \in [Rels -> Seq(Objects)] /\ legacy' \in [Rels -> Content] /\ Keyed'
         /\ push.publish =>
              /\ legacy' = legacy
              /\ \A q \in Rels \ {push.rel} : cas'[q] = cas[q]
              /\ ToSet(cas'[push.rel]) =
                   {o \in ToSet(cas[push.rel]) : o.hash # push.hash}
                     \cup {[hash |-> push.hash, data |-> files[push.rel]]}
         /\ ~push.publish =>
              /\ cas' = cas
              /\ legacy' = [legacy EXCEPT ![push.rel] = files[push.rel]]
<1>1. /\ push.rel \in Rels /\ push.hash \in Content \ {0}
      /\ files \in [Rels -> Content] /\ legacy \in [Rels -> Content]
      /\ cas \in [Rels -> Seq(Objects)]
  BY DEF TypeOK, Pushes
<1>2. files[push.rel] \in Content \ {0} BY <1>1
<1>3. CASE push.publish
  <2>1. legacy' = legacy /\ cas' = PutObject(push.rel, push.hash, files[push.rel])
    BY <1>3 DEF Upload
  <2>2. OneEach(cas[push.rel]) BY <1>1 DEF Keyed
  <2>3. /\ cas' \in [Rels -> Seq(Objects)] /\ OneEach(cas'[push.rel])
        /\ \A q \in Rels \ {push.rel} : cas'[q] = cas[q]
        /\ ToSet(cas'[push.rel]) =
             {o \in ToSet(cas[push.rel]) : o.hash # push.hash}
               \cup {[hash |-> push.hash, data |-> files[push.rel]]}
    BY <1>1, <1>2, <2>1, <2>2, Uploaded
  <2>4. Keyed'
    <3> SUFFICES ASSUME NEW r \in Rels PROVE OneEach(cas'[r])
      BY DEF Keyed, OneEach
    <3> QED BY <2>3 DEF Keyed
  <2> QED BY <1>1, <1>2, <1>3, <2>1, <2>3, <2>4
<1>4. CASE ~push.publish
  <2>1. cas' = cas /\ legacy' = [legacy EXCEPT ![push.rel] = files[push.rel]]
    BY <1>4 DEF Upload
  <2>2. Keyed' BY <2>1 DEF Keyed, OneEach
  <2> QED BY <1>1, <1>2, <1>4, <2>1, <2>2
<1> QED BY <1>3, <1>4

\* What the loss of an object does.
LEMMA LoseDoes ==
  ASSUME TypeOK, Keyed, NEW r \in Rels, Lose(r)
  PROVE  /\ cas' \in [Rels -> Seq(Objects)] /\ legacy' \in [Rels -> Content] /\ Keyed'
         /\ \A q \in Rels \ {r} : cas'[q] = cas[q] /\ legacy'[q] = legacy[q]
         /\ legacy'[r] \in {0, legacy[r]} /\ ToSet(cas'[r]) \subseteq ToSet(cas[r])
<1>1. cas \in [Rels -> Seq(Objects)] /\ legacy \in [Rels -> Content] BY DEF TypeOK
<1>2. CASE UNCHANGED cas /\ legacy' = [legacy EXCEPT ![r] = 0]
  <2>1. Keyed' BY <1>2 DEF Keyed, OneEach
  <2> QED BY <1>1, <1>2, <2>1, Bounds
<1>3. ASSUME UNCHANGED legacy, NEW i \in DOMAIN cas[r],
             cas' = [cas EXCEPT ![r] = RemoveAt(cas[r], i)]
      PROVE  /\ cas' \in [Rels -> Seq(Objects)] /\ Keyed'
             /\ \A q \in Rels \ {r} : cas'[q] = cas[q]
             /\ ToSet(cas'[r]) \subseteq ToSet(cas[r])
  <2>1. cas[r] \in Seq(Objects) /\ cas'[r] = RemoveAt(cas[r], i) BY <1>1, <1>3
  <2>2. \A q \in Rels \ {r} : cas'[q] = cas[q] BY <1>1, <1>3
  <2>3. OneEach(cas'[r])
    <3>1. OneEach(cas[r]) BY DEF Keyed
    <3> QED BY <2>1, <3>1, RemovedKeepsKeys
  <2>4. Keyed'
    <3> SUFFICES ASSUME NEW q \in Rels PROVE OneEach(cas'[q])
      BY DEF Keyed, OneEach
    <3> QED BY <2>2, <2>3 DEF Keyed
  <2>5. /\ cas'[r] \in Seq(Objects) /\ Len(cas'[r]) = Len(cas[r]) - 1
        /\ \A j \in 1 .. Len(cas[r]) - 1 : cas'[r][j] = IF j < i THEN cas[r][j] ELSE cas[r][j + 1]
    BY <2>1, Removed
  <2>6. i \in 1 .. Len(cas[r]) /\ DOMAIN cas[r] = 1 .. Len(cas[r]) /\ DOMAIN cas'[r] = 1 .. Len(cas[r]) - 1
    BY <2>1, <2>5
  <2>7. ASSUME NEW j \in DOMAIN cas'[r] PROVE \E k \in DOMAIN cas[r] : cas'[r][j] = cas[r][k]
    <3> DEFINE k == IF j < i THEN j ELSE j + 1
    <3>1. k \in DOMAIN cas[r] /\ cas'[r][j] = cas[r][k] BY <2>5, <2>6
    <3> QED BY <3>1
  <2>8. ToSet(cas'[r]) \subseteq ToSet(cas[r]) BY <2>7 DEF ToSet
  <2>9. cas' \in [Rels -> Seq(Objects)] BY <1>1, <1>3, <2>1, <2>5
  <2> QED BY <2>2, <2>4, <2>8, <2>9
<1> QED BY <1>1, <1>2, <1>3 DEF Lose

-----------------------------------------------------------------------------
(* What the steps of a push do to it.                                      *)

LEMMA StartDoes ==
  ASSUME TypeOK, PushStart
  PROVE  /\ push' \in Pushes /\ push'.pc = "file"
         /\ push'.list = Present(files) /\ push'.todo = Present(files)
         /\ push'.repair = repair /\ push'.cache = cache /\ ~push'.fresh
         /\ ~push'.pushed /\ ~push'.stored /\ ~push'.failed
         /\ push'.publish => (push'.man = manifest.entries /\ push'.misfit = manifest.misfit)
                               \/ push'.man = Nothing
         /\ push'.misfit \in {manifest.misfit, {}}
         /\ ~push'.publish => push'.man = shadow /\ (manifest.state # "ok" \/ Fault("get"))
         /\ push'.publish => (manifest.state = "ok" /\ push'.man = manifest.entries)
                               \/ (manifest.state # "ok" /\ push'.man = Nothing) \/ Fault("get")
<1>1. PICK loaded \in BOOLEAN, publish \in BOOLEAN :
        /\ \/ loaded /\ manifest.state = "ok" /\ publish /\ UNCHANGED faults
           \/ /\ ~loaded /\ manifest.state # "ok"
              /\ IF publish = (RemoteOnly = {}) THEN UNCHANGED faults
                                                ELSE ~publish /\ Fault("list")
           \/ ~loaded /\ (publish => RemoteOnly = {}) /\ Fault("get")
        /\ push' = [Idle EXCEPT !.pc = "file", !.list = Present(files), !.todo = Present(files),
                                !.publish = publish,
                                !.man = IF loaded THEN manifest.entries
                                        ELSE IF publish THEN Nothing ELSE shadow,
                                !.misfit = IF loaded THEN manifest.misfit ELSE {},
                                !.repair = repair, !.cache = cache]
  BY DEF PushStart
<1> DEFINE man == IF loaded THEN manifest.entries ELSE IF publish THEN Nothing ELSE shadow
           misfit == IF loaded THEN manifest.misfit ELSE {}
<1>2. /\ man \in [Rels -> Content] /\ misfit \in SUBSET Rels /\ cache \in [Rels -> Content] /\ repair \in SUBSET Rels
      /\ Present(files) \in SUBSET Rels
  BY Empty DEF TypeOK, Present
<1>3. Idle \in Pushes /\ ~Idle.fresh /\ ~Idle.pushed /\ ~Idle.stored /\ ~Idle.failed
  BY IdleIsTyped DEF Idle
<1>4. /\ push' \in Pushes /\ push'.pc = "file" /\ push'.list = Present(files)
      /\ push'.todo = Present(files) /\ push'.repair = repair /\ push'.cache = cache
      /\ push'.man = man /\ push'.publish = publish /\ push'.misfit = misfit
      /\ push'.fresh = Idle.fresh /\ push'.pushed = Idle.pushed /\ push'.stored = Idle.stored
      /\ push'.failed = Idle.failed
  <2> HIDE DEF man, misfit
  <2>1. push' = [Idle EXCEPT !.pc = "file", !.list = Present(files), !.todo = Present(files),
                             !.publish = publish, !.man = man, !.misfit = misfit,
                             !.repair = repair, !.cache = cache]
    BY <1>1 DEF man, misfit
  <2> QED BY <1>2, <1>3, <2>1 DEF Pushes
<1>5. /\ push'.publish => (man = manifest.entries /\ misfit = manifest.misfit) \/ man = Nothing
      /\ ~push'.publish => man = shadow /\ ~loaded
  BY <1>1, <1>4
<1> QED BY <1>1, <1>3, <1>4, <1>5

LEMMA FileDoes ==
  ASSUME TypeOK, NEW r \in Rels, PushFile(r)
  PROVE  /\ push' \in Pushes /\ push'.todo = push.todo \ {r}
         /\ push'.pc \in {"file", "hash"} /\ (push'.pc = "hash" => push'.rel = r /\ push'.sized)
         /\ UNCHANGED <<push.list, push.man, push.misfit, push.cache, push.repair, push.publish,
                        push.pushed, push.stored>>
<1> DEFINE rest == [push EXCEPT !.todo = @ \ {r}]
<1>1. push \in Pushes /\ push.pc = "file" BY DEF TypeOK, PushFile
<1>2. /\ rest \in Pushes /\ rest.todo = push.todo \ {r} /\ rest.pc = "file"
      /\ rest.list = push.list /\ rest.man = push.man /\ rest.misfit = push.misfit
      /\ rest.cache = push.cache
      /\ rest.repair = push.repair /\ rest.publish = push.publish /\ rest.pushed = push.pushed
      /\ rest.stored = push.stored
  BY <1>1 DEF Pushes
<1>3. \/ push' = rest
      \/ push' = [rest EXCEPT !.pc = "hash", !.rel = r, !.fresh = TRUE, !.sized = TRUE]
      \/ push' = [rest EXCEPT !.failed = TRUE]
  BY DEF PushFile
<1> HIDE DEF rest
<1> QED BY ZenonT(30), <1>2, <1>3 DEF Pushes

LEMMA RecordedIsTyped ==
  ASSUME TypeOK, push.rel \in Rels, NEW h \in Content
  PROVE  /\ Recorded(h) \in [Rels -> Content]
         /\ \A q \in Rels \ {push.rel} : Recorded(h)[q] = push.cache[q]
         /\ Recorded(h)[push.rel] = IF push.fresh THEN h ELSE 0
<1>1. push.cache \in [Rels -> Content] BY DEF TypeOK, Pushes
<1> QED BY <1>1, Bounds DEF Recorded

LEMMA HashDoes ==
  ASSUME TypeOK, PushHash
  PROVE  /\ push' \in Pushes /\ push.rel \in Rels
         /\ UNCHANGED <<push.rel, push.todo, push.list, push.man, push.misfit, push.repair,
                        push.publish, push.pushed, push.stored, push.fresh, push.sized>>
         /\ \/ push'.pc = "put" /\ push'.hash = files[push.rel] /\ files[push.rel] # 0
                 /\ push'.cache = push.cache
            \/ push'.pc = "file" /\ files[push.rel] # 0
                 /\ push'.cache = Recorded(files[push.rel])
            \/ push'.pc = "file" /\ push'.cache = push.cache
<1>1. push \in Pushes /\ push.rel \in Rels /\ files[push.rel] \in Content
  BY DEF TypeOK, PushHash
<1>2. Recorded(files[push.rel]) \in [Rels -> Content] BY <1>1, RecordedIsTyped
<1>3. \/ files[push.rel] # 0 /\ push' = [push EXCEPT !.pc = "file", !.cache = Recorded(files[push.rel])]
      \/ files[push.rel] # 0 /\ push' = [push EXCEPT !.pc = "put", !.hash = files[push.rel]]
      \/ push' = [push EXCEPT !.pc = "file", !.failed = TRUE]
  BY DEF PushHash
<1> DEFINE recorded == Recorded(files[push.rel])
<1>4. recorded \in [Rels -> Content] BY <1>2
<1> HIDE DEF recorded
<1>5. CASE files[push.rel] # 0 /\ push' = [push EXCEPT !.pc = "file", !.cache = recorded]
  <2>1. /\ push' \in Pushes /\ push'.pc = "file" /\ push'.cache = recorded
        /\ UNCHANGED <<push.rel, push.todo, push.list, push.man, push.misfit, push.repair,
                       push.publish, push.pushed, push.stored, push.fresh, push.sized>>
    BY <1>1, <1>4, <1>5 DEF Pushes
  <2> QED BY <1>1, <1>5, <2>1 DEF recorded
<1>6. CASE files[push.rel] # 0 /\ push' = [push EXCEPT !.pc = "put", !.hash = files[push.rel]]
  BY <1>1, <1>6 DEF Pushes
<1>7. CASE push' = [push EXCEPT !.pc = "file", !.failed = TRUE]
  BY <1>1, <1>7 DEF Pushes
<1> QED BY <1>3, <1>5, <1>6, <1>7 DEF recorded

LEMMA PutDoes ==
  ASSUME TypeOK, PushPut
  PROVE  /\ push' \in Pushes /\ push'.pc = "file" /\ push.rel \in Rels
         /\ push'.man = [push.man EXCEPT ![push.rel] = push.hash]
         /\ push'.misfit = (IF push.sized THEN push.misfit \ {push.rel}
                                          ELSE push.misfit \cup {push.rel})
         /\ push'.cache = Recorded(push.hash)
         /\ push'.repair = push.repair \ {push.rel} /\ push'.pushed
         /\ UNCHANGED <<push.todo, push.list, push.publish, push.stored>>
<1>1. /\ push \in Pushes /\ push.rel \in Rels /\ push.hash \in Content
      /\ push.man \in [Rels -> Content]
  BY DEF TypeOK, PushPut, Pushes
<1>2. Recorded(push.hash) \in [Rels -> Content] BY <1>1, RecordedIsTyped
<1> DEFINE man == [push.man EXCEPT ![push.rel] = push.hash]
           misfit == IF push.sized THEN push.misfit \ {push.rel} ELSE push.misfit \cup {push.rel}
<1>3. man \in [Rels -> Content] /\ misfit \in SUBSET Rels BY <1>1 DEF Pushes
<1>4. push' = [push EXCEPT !.pc = "file", !.man = man, !.misfit = misfit, !.cache = Recorded(push.hash),
                           !.repair = push.repair \ {push.rel}, !.pushed = TRUE]
  BY DEF PushPut
<1> HIDE DEF man, misfit
<1>5. /\ push' \in Pushes /\ push'.pc = "file" /\ push'.man = man /\ push'.misfit = misfit
      /\ push'.cache = Recorded(push.hash)
      /\ push'.repair = push.repair \ {push.rel} /\ push'.pushed
      /\ UNCHANGED <<push.todo, push.list, push.publish, push.stored>>
  BY <1>1, <1>2, <1>3, <1>4 DEF Pushes
<1> QED BY <1>1, <1>5 DEF man, misfit

LEMMA PutFailsDoes ==
  ASSUME TypeOK, PushPutFails
  PROVE  /\ push' \in Pushes /\ push'.pc = "file" /\ push.rel \in Rels /\ push'.failed
         /\ UNCHANGED <<push.man, push.misfit, push.cache, push.repair, push.todo, push.list,
                        push.publish, push.pushed, push.stored>>
<1>1. push \in Pushes /\ push.rel \in Rels BY DEF TypeOK, PushPutFails
<1>2. push' = [push EXCEPT !.pc = "file", !.failed = TRUE] BY DEF PushPutFails
<1> QED BY <1>1, <1>2 DEF Pushes

LEMMA ManifestDoes ==
  ASSUME TypeOK, PushManifest
  PROVE  /\ push' \in Pushes /\ push'.pc = "save"
         /\ UNCHANGED <<push.man, push.misfit, push.cache, push.repair, push.todo, push.list,
                        push.publish, push.pushed>>
         /\ manifest' = manifest \/ (push.publish /\ manifest' = Rewritten)
         /\ push.pushed /\ push.publish /\ ~push'.failed => manifest' = Rewritten
<1>1. push \in Pushes BY DEF TypeOK
<1>2. \/ push' = [push EXCEPT !.pc = "save", !.stored = TRUE]
      \/ push' = [push EXCEPT !.pc = "save", !.failed = TRUE]
      \/ push' = [push EXCEPT !.pc = "save"]
  BY DEF PushManifest
<1>3. /\ push' \in Pushes /\ push'.pc = "save"
      /\ UNCHANGED <<push.man, push.misfit, push.cache, push.repair, push.todo, push.list,
                     push.publish, push.pushed>>
  BY <1>1, <1>2 DEF Pushes
<1>4. manifest' = manifest \/ (push.publish /\ manifest' = Rewritten)
  BY DEF PushManifest
<1>5. push.pushed /\ push.publish /\ ~push'.failed => manifest' = Rewritten
  BY <1>1 DEF PushManifest, Pushes
<1> QED BY <1>3, <1>4, <1>5

LEMMA TouchDoes ==
  ASSUME TypeOK, NEW r \in Rels, NEW sized \in BOOLEAN, Touched(r, sized)
  PROVE  /\ push' \in Pushes
         /\ cache' = [cache EXCEPT ![r] = 0]
         /\ push'.cache = [push.cache EXCEPT ![r] = 0]
         /\ push'.fresh = (push.fresh /\ push.rel # r)
         /\ UNCHANGED <<push.pc, push.rel, push.hash, push.man, push.misfit, push.repair, push.todo, push.list,
                        push.publish, push.pushed, push.stored, push.failed>>
         /\ push'.sized = sized
         /\ push = Idle /\ sized = push.sized => push' = Idle
<1>1. push \in Pushes /\ push.cache \in [Rels -> Content] BY DEF TypeOK, Pushes
<1> DEFINE c == [push.cache EXCEPT ![r] = 0]
<1>2. c \in [Rels -> Content] BY <1>1, Bounds
<1>3. push' = [push EXCEPT !.cache = c, !.fresh = push.fresh /\ push.rel # r,
                           !.sized = sized]
      /\ cache' = [cache EXCEPT ![r] = 0]
  BY DEF Touched
<1> HIDE DEF c
<1>4. /\ push' \in Pushes /\ push'.cache = c
      /\ push'.fresh = (push.fresh /\ push.rel # r) /\ push'.sized = sized
      /\ UNCHANGED <<push.pc, push.rel, push.hash, push.man, push.misfit, push.repair, push.todo, push.list,
                     push.publish, push.pushed, push.stored, push.failed>>
  BY <1>1, <1>2, <1>3 DEF Pushes
<1>5. ASSUME push = Idle, sized = push.sized PROVE push' = Idle
  <2>1. push.cache = Nothing /\ push.fresh = FALSE BY <1>5, IdleIsTyped, <1>1 DEF Pushes
  <2>2. c = push.cache BY <2>1, <1>1, <1>2, Empty DEF c
  <2>3. push' = push BY <1>1, <1>3, <1>5, <2>1, <2>2 DEF Pushes
  <2> QED BY <1>5, <2>3
<1> QED BY <1>3, <1>4, <1>5 DEF c

\* A write or a removal touches the file, and may make the size a push has
\* read of it another content's.
LEMMA TouchPicked ==
  ASSUME TypeOK, NEW r \in Rels, Write(r) \/ Unlink(r)
  PROVE  \E sized \in BOOLEAN :
           Touched(r, sized) /\ (sized = push.sized \/ (push.pc = "hash" /\ Fault("resize")))
<1>1. push.sized \in BOOLEAN BY DEF TypeOK, Pushes
<1> QED BY <1>1 DEF Write, Unlink

-----------------------------------------------------------------------------
(* What a pull does to the volume.                                         *)

InCas(r, h) == [hash |-> h, data |-> h] \in ToSet(cas[r])

LEMMA NewestIsHeld ==
  ASSUME TypeOK, NEW r \in Rels
  PROVE  Newest(r) \in Content /\ (Newest(r) # 0 => InCas(r, Newest(r)))
<1>1. CASE cas[r] # <<>> /\ Last(cas[r]).data = Last(cas[r]).hash
  <2>1. cas[r] \in Seq(Objects) BY DEF TypeOK
  <2>2. Len(cas[r]) \in DOMAIN cas[r] /\ Last(cas[r]) = cas[r][Len(cas[r])]
    BY <1>1, <2>1 DEF Last
  <2>3. Last(cas[r]) \in Objects /\ Last(cas[r]) \in ToSet(cas[r])
    BY <2>1, <2>2 DEF ToSet
  <2>4. Last(cas[r]) = [hash |-> Last(cas[r]).hash, data |-> Last(cas[r]).hash]
    BY <1>1, <2>3 DEF Objects
  <2>5. Newest(r) = Last(cas[r]).hash /\ Last(cas[r]).hash \in Content
    BY <1>1, <2>3 DEF Newest, Objects
  <2> QED BY <2>3, <2>4, <2>5 DEF InCas
<1>2. CASE ~(cas[r] # <<>> /\ Last(cas[r]).data = Last(cas[r]).hash)
  <2>1. Newest(r) = 0 BY <1>2 DEF Newest
  <2> QED BY <2>1, Bounds
<1> QED BY <1>1, <1>2

\* A file the pull writes was missing, and the bucket holds what it writes.
LEMMA PullDoes ==
  ASSUME TypeOK, NEW r \in Rels, PullFile(r)
  PROVE  /\ files' \in [Rels -> Content] /\ cache' \in [Rels -> Content]
         /\ \A q \in Rels \ {r} : files'[q] = files[q] /\ cache'[q] = cache[q]
         /\ \/ files'[r] = files[r] /\ cache'[r] = cache[r]
            \/ /\ files[r] = 0 /\ files'[r] # 0 /\ cache'[r] = 0 /\ Held(r, files'[r])
               /\ files'[r] = IF pull.known THEN pull.man[r] ELSE legacy[r]
         /\ ~pull.known /\ legacy[r] # 0 /\ files'[r] = 0 => Fault("get")
<1> DEFINE content == IF ~pull.known THEN legacy[r]
                      ELSE IF r \notin pull.misfit /\ Held(r, pull.man[r]) THEN pull.man[r]
                      ELSE 0
<1>1. /\ files \in [Rels -> Content] /\ cache \in [Rels -> Content]
      /\ legacy \in [Rels -> Content] /\ pull.man \in [Rels -> Content]
  BY DEF TypeOK
<1>2. content \in Content BY <1>1, Bounds
<1>3. content # 0 => Held(r, content) /\ content = IF pull.known THEN pull.man[r] ELSE legacy[r]
  BY DEF Held
<1>4. \/ files[r] = 0 /\ content # 0 /\ Restored(r, content)
      \/ files[r] = 0 /\ content # 0 /\ Fault("get") /\ UNCHANGED <<files, cache>>
      \/ ~(files[r] = 0 /\ content # 0) /\ UNCHANGED <<files, cache>>
  BY DEF PullFile
<1>5. ~pull.known => content = legacy[r] OBVIOUS
<1> HIDE DEF content
<1>6. CASE files[r] = 0 /\ content # 0 /\ Restored(r, content)
  <2>1. /\ files' = [files EXCEPT ![r] = content] /\ cache' = [cache EXCEPT ![r] = 0]
    BY <1>6 DEF Restored
  <2>2. /\ files' \in [Rels -> Content] /\ cache' \in [Rels -> Content]
        /\ files'[r] = content /\ cache'[r] = 0
        /\ \A q \in Rels \ {r} : files'[q] = files[q] /\ cache'[q] = cache[q]
    BY <1>1, <1>2, <2>1, Bounds
  <2> QED BY <1>3, <1>6, <2>2
<1>7. CASE UNCHANGED <<files, cache>> /\ (Fault("get") \/ ~(files[r] = 0 /\ content # 0))
  BY <1>1, <1>5, <1>7
<1> QED BY <1>4, <1>6, <1>7

\* The reconciliation recovers what the manifest does not name, and notes
\* what it names and the bucket does not show.
LEMMA ReconcileDoes ==
  ASSUME TypeOK, Reconcile
  PROVE  /\ files' \in [Rels -> Content] /\ cache' \in [Rels -> Content]
         /\ repair' \subseteq Rels /\ unseen' \subseteq Rels /\ faults' \in 0 .. MaxFaults
         /\ \A q \in Rels :
              \/ files'[q] = files[q] /\ cache'[q] = cache[q]
              \/ /\ files[q] = 0 /\ files'[q] # 0 /\ cache'[q] = 0
                 /\ pull.man[q] = 0 /\ files'[q] = Newest(q)
         /\ \A q \in Rels :
              \/ /\ pull.known
                 /\ pull.man[q] # 0 /\ q \notin pull.misfit /\ files'[q] # 0 /\ ~Held(q, pull.man[q]) =>
                      q \in unseen' \cup repair'
              \/ q \in unseen \cup repair => q \in unseen' \cup repair'
<1>1. PICK missed \in SUBSET Rels, alike \in SUBSET Rels, noted \in BOOLEAN :
       /\ IF missed = {} /\ noted THEN UNCHANGED faults
          ELSE IF noted THEN Fault("get") ELSE missed = {} /\ Fault("local")
       /\ files' = [r \in Rels |->
                      IF files[r] = 0 /\ pull.man[r] = 0 /\ r \notin missed
                      THEN Newest(r) ELSE files[r]]
       /\ cache' = [r \in Rels |-> IF files'[r] = files[r] THEN cache[r] ELSE 0]
       /\ LET named == Present(pull.man)
              held  == {r \in named : HeldBySize(r, pull.man[r], pull.misfit, alike)}
          IN IF noted
             THEN repair' = (repair \ held) \cup {r \in named \ held : files'[r] # 0}
             ELSE repair' \in AfterFailedWrite(repair, {})
       /\ unseen' = IF noted /\ pull.known
                    THEN {r \in Present(pull.man) \ pull.misfit :
                            /\ ~Held(r, pull.man[r])
                            /\ HeldBySize(r, pull.man[r], pull.misfit, alike)}
                    ELSE unseen \cup (repair \ repair')
  BY DEF Reconcile
<1> DEFINE named == Present(pull.man)
           held == {r \in named : HeldBySize(r, pull.man[r], pull.misfit, alike)}
<1>2. /\ files \in [Rels -> Content] /\ cache \in [Rels -> Content] /\ repair \subseteq Rels
      /\ unseen \subseteq Rels /\ pull.man \in [Rels -> Content] /\ named \subseteq Rels
      /\ held \subseteq Rels
  BY DEF TypeOK, Present
<1>3. faults' \in 0 .. MaxFaults
  <2>1. UNCHANGED faults \/ Fault("get") \/ Fault("local") BY <1>1
  <2> QED BY <2>1, FaultIsTyped DEF FaultKinds
<1>4. files' \in [Rels -> Content]
  <2>1. \A r \in Rels : Newest(r) \in Content /\ files[r] \in Content BY <1>2, NewestIsHeld
  <2> QED BY <1>1, <2>1
<1>5. cache' \in [Rels -> Content] BY <1>1, <1>2, Bounds
<1>6. IF noted THEN repair' = (repair \ held) \cup {r \in named \ held : files'[r] # 0}
               ELSE repair' = repair \/ repair' = {}
  BY <1>1 DEF AfterFailedWrite
<1>7. repair' \subseteq Rels BY <1>2, <1>6
<1>8. unseen' = IF noted /\ pull.known THEN {r \in held \ pull.misfit : ~Held(r, pull.man[r])}
                ELSE unseen \cup (repair \ repair')
  BY <1>1
<1>9. unseen' \subseteq Rels BY <1>2, <1>8
<1>10. ASSUME NEW q \in Rels
       PROVE  \/ files'[q] = files[q] /\ cache'[q] = cache[q]
              \/ /\ files[q] = 0 /\ files'[q] # 0 /\ cache'[q] = 0
                 /\ pull.man[q] = 0 /\ files'[q] = Newest(q)
  <2>1. files'[q] = IF files[q] = 0 /\ pull.man[q] = 0 /\ q \notin missed
                    THEN Newest(q) ELSE files[q]
    BY <1>1
  <2>2. cache'[q] = IF files'[q] = files[q] THEN cache[q] ELSE 0 BY <1>1
  <2> QED BY <2>1, <2>2
<1>11. ASSUME NEW q \in Rels
       PROVE  \/ /\ pull.known
                 /\ pull.man[q] # 0 /\ q \notin pull.misfit /\ files'[q] # 0 /\ ~Held(q, pull.man[q]) =>
                      q \in unseen' \cup repair'
              \/ q \in unseen \cup repair => q \in unseen' \cup repair'
  <2>1. CASE noted /\ pull.known
    <3>1. pull.man[q] # 0 => q \in named BY DEF Present
    <3> HIDE DEF named, held
    <3> QED BY <1>6, <1>8, <2>1, <3>1
  <2>2. CASE ~(noted /\ pull.known)
    <3> HIDE DEF named, held
    <3> QED BY <1>8, <2>2
  <2> QED BY <2>1, <2>2
<1> HIDE DEF named, held
<1> QED BY <1>3, <1>4, <1>5, <1>7, <1>9, <1>10, <1>11

LEMMA SaveDoes ==
  ASSUME TypeOK, PushSave
  PROVE  /\ push' = Idle /\ faults' \in 0 .. MaxFaults
         /\ shadow' \in {shadow, Nothing} \/ (~push.publish /\ shadow' = Pending)
         /\ Pending \in [Rels -> Content] /\ \A r \in Rels : Pending[r] \in {push.man[r], 0}
         /\ cache' \in {cache, Nothing, push.cache}
         /\ repair' \subseteq Rels /\ unseen' = unseen \cup ((push.repair \cap push.list) \ repair')
         /\ acked' \in [Rels -> Content]
         /\ \A r \in Rels :
              acked'[r] = IF push.failed \/ push.man[r] = 0 THEN acked[r] ELSE push.man[r]
<1> DEFINE pending == push.pushed /\ ~push.publish
           repairs == push.repair \cap push.list
<1>1. PICK lost \in SUBSET {"shadow", "repair", "cache"} :
          /\ IF lost = {} THEN UNCHANGED faults ELSE Fault("local")
          /\ shadow' \in IF "shadow" \notin lost
                         THEN {IF push.stored THEN Nothing ELSE IF pending THEN Pending ELSE shadow}
                         ELSE IF pending THEN AfterFailedWrite(shadow, Nothing) ELSE {shadow}
          /\ repair' \in IF "repair" \notin lost THEN {repairs} ELSE AfterFailedWrite(repair, {})
          /\ cache' \in IF "cache" \notin lost THEN {push.cache}
                        ELSE AfterFailedWrite(cache, Nothing)
          /\ unseen' = unseen \cup (repairs \ repair')
  BY DEF PushSave
<1>2. /\ push \in Pushes /\ repair \subseteq Rels /\ repairs \subseteq Rels
      /\ acked \in [Rels -> Content] /\ push.man \in [Rels -> Content]
  BY DEF TypeOK, Pushes
<1>3. faults' \in 0 .. MaxFaults
  <2>1. UNCHANGED faults \/ Fault("local") BY <1>1
  <2> QED BY <2>1, FaultIsTyped DEF FaultKinds
<1>4. shadow' \in {shadow, Nothing} \/ (~push.publish /\ shadow' = Pending)
  BY <1>1 DEF AfterFailedWrite
<1>5. cache' \in {cache, Nothing, push.cache} BY <1>1 DEF AfterFailedWrite
<1>6. repair' \subseteq Rels BY <1>1, <1>2 DEF AfterFailedWrite
<1>7. acked' = IF push.failed THEN acked
               ELSE [r \in Rels |-> IF push.man[r] # 0 THEN push.man[r] ELSE acked[r]]
  BY DEF PushSave
<1>8. /\ acked' \in [Rels -> Content]
      /\ \A r \in Rels : acked'[r] = IF push.failed \/ push.man[r] = 0 THEN acked[r] ELSE push.man[r]
  BY <1>2, <1>7
<1>9. push' = Idle BY DEF PushSave
<1>10. Pending \in [Rels -> Content] /\ \A r \in Rels : Pending[r] \in {push.man[r], 0}
  BY <1>2, Bounds DEF Pending
<1> QED BY <1>1, <1>3, <1>4, <1>5, <1>6, <1>8, <1>9, <1>10

-----------------------------------------------------------------------------
(* Every variable keeps its type, and every key its one object.            *)

LEMMA KeyedStays ==
  ASSUME Keyed, UNCHANGED cas
  PROVE  Keyed'
BY DEF Keyed, OneEach

\* The parts of a type that a push has.
LEMMA PushTyped ==
  ASSUME TypeOK, push' \in Pushes,
         push'.pc \in {"hash", "put"} => push'.rel \in Rels,
         push'.pc = "put" => push'.hash # 0,
         push'.todo \subseteq push'.list,
         UNCHANGED <<bucket, volume, mode, pull, written, acked, orphaned, unseen>>,
         faults' \in 0 .. MaxFaults
  PROVE  TypeOK'
BY DEF TypeOK, bucket, volume

LEMMA IdleTyped ==
  ASSUME TypeOK, push' = Idle
  PROVE  /\ push' \in Pushes /\ push'.pc \notin {"hash", "put"}
         /\ push'.todo \subseteq push'.list
BY IdleIsTyped

LEMMA PullTypes ==
  ASSUME TypeOK, Keyed, PullStep
  PROVE  TypeOK' /\ Keyed'
<1>0. UNCHANGED cas BY DEF PullStep, PullStart, PullFails, PullFile, Reconcile, ReconcileSkipped, bucket
<1>1. CASE PullStart
  <2>1. /\ UNCHANGED <<bucket, volume, push, written, acked, orphaned, unseen>> /\ mode' = "pull"
        /\ UNCHANGED faults \/ Fault("get")
    BY <1>1 DEF PullStart
  <2>2. pull' \in [man : [Rels -> Content], misfit : SUBSET Rels, known : BOOLEAN, todo : SUBSET Rels]
    <3> DEFINE named == Present(manifest.entries)
               keyed == Present(legacy)
    <3>1. named \in SUBSET Rels /\ keyed \in SUBSET Rels BY DEF Present
    <3>2. \/ pull' = [man |-> manifest.entries, misfit |-> manifest.misfit, known |-> TRUE, todo |-> named]
          \/ pull' = [man |-> Nothing, misfit |-> {}, known |-> FALSE, todo |-> keyed]
      BY <1>1 DEF PullStart, NoPull
    <3>3. manifest.entries \in [Rels -> Content] /\ manifest.misfit \in SUBSET Rels BY DEF TypeOK
    <3> HIDE DEF named, keyed
    <3>4. CASE pull' = [man |-> Nothing, misfit |-> {}, known |-> FALSE, todo |-> keyed]
      BY <3>1, <3>4, Empty
    <3>5. CASE pull' = [man |-> manifest.entries, misfit |-> manifest.misfit, known |-> TRUE,
                        todo |-> named]
      BY <3>1, <3>3, <3>5
    <3> QED BY <3>2, <3>4, <3>5
  <2>3. faults' \in 0 .. MaxFaults BY <2>1, FaultIsTyped DEF FaultKinds
  <2> QED BY <1>0, <2>1, <2>2, <2>3, KeyedStays DEF TypeOK, bucket, volume
<1>2. CASE PullFails
  <2>1. faults' \in 0 .. MaxFaults BY <1>2, FaultIsTyped DEF FaultKinds, PullFails
  <2> QED BY <1>0, <1>2, <2>1, KeyedStays DEF PullFails, TypeOK, bucket, volume
<1>3. ASSUME NEW r \in Rels, PullFile(r) PROVE TypeOK' /\ Keyed'
  <2>1. files' \in [Rels -> Content] /\ cache' \in [Rels -> Content] BY <1>3, PullDoes
  <2>2. /\ UNCHANGED <<bucket, repair, shadow, mode, push, written, acked, orphaned, unseen>>
        /\ pull' = [pull EXCEPT !.todo = @ \ {r}] /\ (UNCHANGED faults \/ Fault("get"))
    BY <1>3 DEF PullFile
  <2>3. faults' \in 0 .. MaxFaults BY <2>2, FaultIsTyped DEF FaultKinds
  <2>4. pull' \in [man : [Rels -> Content], misfit : SUBSET Rels, known : BOOLEAN, todo : SUBSET Rels]
    BY <2>2 DEF TypeOK
  <2> QED BY ZenonT(30), <1>0, <2>1, <2>2, <2>3, <2>4, KeyedStays DEF TypeOK, bucket
<1>4. CASE Reconcile
  <2>1. /\ files' \in [Rels -> Content] /\ cache' \in [Rels -> Content]
        /\ repair' \subseteq Rels /\ unseen' \subseteq Rels /\ faults' \in 0 .. MaxFaults
    BY <1>4, ReconcileDoes
  <2>2. /\ UNCHANGED <<bucket, shadow, push, written, acked, orphaned>>
        /\ mode' = "serving" /\ pull' = NoPull
    BY <1>4 DEF Reconcile
  <2> QED BY <1>0, <2>1, <2>2, KeyedStays, NoPullIsTyped DEF TypeOK, bucket
<1>5. CASE ReconcileSkipped
  <2>1. faults' \in 0 .. MaxFaults BY <1>5, FaultIsTyped DEF FaultKinds, ReconcileSkipped
  <2> QED
    BY <1>0, <1>5, <2>1, KeyedStays, NoPullIsTyped DEF ReconcileSkipped, TypeOK, bucket, volume
<1> QED BY <1>1, <1>2, <1>3, <1>4, <1>5 DEF PullStep

LEMMA PushTypes ==
  ASSUME TypeOK, Keyed, PushStep
  PROVE  TypeOK' /\ Keyed'
<1>1. CASE PushStart
  <2>1. /\ UNCHANGED <<bucket, volume, mode, pull, written, acked, orphaned, unseen>>
        /\ UNCHANGED faults \/ Fault("get") \/ Fault("list")
    BY <1>1 DEF PushStart
  <2>2. faults' \in 0 .. MaxFaults BY <2>1, FaultIsTyped DEF FaultKinds
  <2>3. push' \in Pushes /\ push'.pc = "file" /\ push'.todo \subseteq push'.list
    BY <1>1, StartDoes
  <2> QED BY <2>1, <2>2, <2>3, PushTyped, KeyedStays DEF bucket
<1>2. ASSUME NEW r \in Rels, PushFile(r) PROVE TypeOK' /\ Keyed'
  <2>1. /\ UNCHANGED <<bucket, volume, mode, pull, written, acked, orphaned, unseen>>
        /\ UNCHANGED faults \/ Fault("local")
    BY <1>2 DEF PushFile
  <2>2. faults' \in 0 .. MaxFaults BY <2>1, FaultIsTyped DEF FaultKinds
  <2>3. /\ push' \in Pushes /\ push'.pc # "put" /\ (push'.pc = "hash" => push'.rel = r)
        /\ push'.todo \subseteq push'.list
    BY <1>2, FileDoes DEF TypeOK
  <2> QED BY <2>1, <2>2, <2>3, PushTyped, KeyedStays DEF bucket
<1>3. CASE PushHash
  <2>1. /\ UNCHANGED <<bucket, volume, mode, pull, written, acked, orphaned, unseen>>
        /\ UNCHANGED faults \/ Fault("local")
    BY <1>3 DEF PushHash
  <2>2. faults' \in 0 .. MaxFaults BY <2>1, FaultIsTyped DEF FaultKinds
  <2>3. /\ push' \in Pushes /\ push.rel \in Rels /\ push'.rel = push.rel
        /\ push'.todo \subseteq push'.list /\ (push'.pc = "put" => push'.hash # 0)
    BY <1>3, HashDoes DEF TypeOK
  <2> QED BY <2>1, <2>2, <2>3, PushTyped, KeyedStays DEF bucket
<1>4. CASE PushPut \/ PushPutFails
  <2>1. /\ push' \in Pushes /\ push'.pc = "file" /\ push'.todo \subseteq push'.list
    BY <1>4, PutDoes, PutFailsDoes DEF TypeOK
  <2>2. /\ UNCHANGED <<manifest, volume, mode, pull, written, acked, orphaned, unseen>>
        /\ UNCHANGED faults \/ Fault("put") \/ Fault("landed")
        /\ UNCHANGED <<cas, legacy>> \/ (push.pc = "put" /\ files[push.rel] # 0 /\ Upload)
    BY <1>4 DEF PushPut, PushPutFails, aux
  <2>3. faults' \in 0 .. MaxFaults BY <2>2, FaultIsTyped DEF FaultKinds
  <2>4. cas' \in [Rels -> Seq(Objects)] /\ legacy' \in [Rels -> Content] /\ Keyed'
    BY <2>2, UploadDoes, KeyedStays DEF TypeOK
  <2> QED BY <2>1, <2>2, <2>3, <2>4 DEF TypeOK, volume
<1>5. CASE PushManifest
  <2>1. /\ UNCHANGED <<cas, legacy, volume, mode, pull, written, acked, unseen>>
        /\ UNCHANGED faults \/ Fault("put") \/ Fault("landed")
        /\ orphaned' = orphaned \cup {r \in Present(legacy) : manifest' # manifest /\ push.man[r] = 0}
    BY <1>5 DEF PushManifest
  <2>2. faults' \in 0 .. MaxFaults BY <2>1, FaultIsTyped DEF FaultKinds
  <2>3. /\ push' \in Pushes /\ push'.pc = "save" /\ push'.todo \subseteq push'.list
        /\ manifest' = manifest \/ manifest' = Rewritten
    BY <1>5, ManifestDoes DEF TypeOK
  <2>4. manifest' \in [state : {"absent", "ok", "garbled"}, entries : [Rels -> Content], misfit : SUBSET Rels]
    BY <2>3 DEF TypeOK, Pushes, Rewritten
  <2>5. orphaned' \subseteq Rels BY <2>1 DEF TypeOK, Present
  <2> QED BY <2>1, <2>2, <2>3, <2>4, <2>5, KeyedStays DEF TypeOK, volume
<1>6. CASE PushSave
  <2>1. UNCHANGED <<bucket, files, mode, pull, written, orphaned>> BY <1>6 DEF PushSave
  <2>2. /\ push' = Idle /\ faults' \in 0 .. MaxFaults
        /\ shadow' \in {shadow, Nothing, Pending} /\ Pending \in [Rels -> Content]
        /\ cache' \in {cache, Nothing, push.cache}
        /\ repair' \subseteq Rels /\ acked' \in [Rels -> Content]
        /\ unseen' = unseen \cup ((push.repair \cap push.list) \ repair')
    BY <1>6, SaveDoes
  <2>3. push \in Pushes /\ push.repair \subseteq Rels BY DEF TypeOK, Pushes
  <2>4. /\ shadow' \in [Rels -> Content] /\ cache' \in [Rels -> Content]
        /\ unseen' \subseteq Rels
    BY <2>2, <2>3, Empty DEF TypeOK, Pushes
  <2> QED BY <2>1, <2>2, <2>4, IdleTyped, KeyedStays DEF TypeOK, bucket
<1> QED BY <1>1, <1>2, <1>3, <1>4, <1>5, <1>6 DEF PushStep

LEMMA WorldTypes ==
  ASSUME TypeOK, Keyed, World
  PROVE  TypeOK' /\ Keyed'
<1>1. ASSUME NEW r \in Rels, Write(r) \/ Unlink(r) PROVE TypeOK' /\ Keyed'
  <2>1. /\ UNCHANGED <<bucket, repair, shadow, mode, pull, acked, orphaned, unseen>>
        /\ UNCHANGED faults \/ Fault("race") \/ Fault("resize")
    BY <1>1 DEF Write, Unlink, aux
  <2>2. faults' \in 0 .. MaxFaults BY <2>1, FaultIsTyped DEF FaultKinds
  <2>3. files' \in [Rels -> Content] /\ written' \in [Rels -> Content]
    <3>1. CASE Write(r)
      <4>1. written[r] + 1 \in Content BY <3>1, Bounds DEF Write, TypeOK, Content
      <4> QED BY <3>1, <4>1 DEF Write, TypeOK
    <3>2. CASE Unlink(r) BY <3>2, Bounds DEF Unlink, TypeOK, aux
    <3> QED BY <1>1, <3>1, <3>2
  <2>4. PICK sized \in BOOLEAN : Touched(r, sized) BY <1>1, TouchPicked
  <2>5. /\ push' \in Pushes /\ cache' = [cache EXCEPT ![r] = 0]
        /\ UNCHANGED <<push.pc, push.rel, push.hash, push.todo, push.list>>
    BY <2>4, TouchDoes
  <2>6. cache' \in [Rels -> Content] BY <2>5, Bounds DEF TypeOK
  <2> QED BY <2>1, <2>2, <2>3, <2>5, <2>6, KeyedStays DEF TypeOK, bucket
<1>2. ASSUME NEW r \in Rels, Lose(r) PROVE TypeOK' /\ Keyed'
  <2>1. /\ UNCHANGED <<manifest, volume, mode, pull, push, written, acked, orphaned>>
        /\ Fault("lose") /\ unseen' = unseen \cup {r}
    BY <1>2 DEF Lose
  <2>2. faults' \in 0 .. MaxFaults BY <2>1, FaultIsTyped DEF FaultKinds
  <2>3. cas' \in [Rels -> Seq(Objects)] /\ legacy' \in [Rels -> Content] /\ Keyed'
    BY <1>2, LoseDoes
  <2> QED BY <2>1, <2>2, <2>3 DEF TypeOK, volume
<1>3. CASE Stop BY <1>3, KeyedStays DEF Stop, TypeOK, bucket, volume, aux
<1>4. CASE PushAborts
  <2>1. /\ UNCHANGED <<bucket, volume, mode, pull, written, acked, orphaned, unseen>>
        /\ Fault("abort") /\ push' = Idle
    BY <1>4 DEF PushAborts
  <2>2. faults' \in 0 .. MaxFaults BY <2>1, FaultIsTyped DEF FaultKinds
  <2> QED BY <2>1, <2>2, IdleTyped, PushTyped, KeyedStays DEF bucket
<1>5. CASE Crash
  <2>1. /\ UNCHANGED <<bucket, volume, written, acked, orphaned, unseen>>
        /\ Fault("crash") /\ push' = Idle /\ pull' = NoPull /\ mode' = "down"
    BY <1>5 DEF Crash
  <2>2. faults' \in 0 .. MaxFaults BY <2>1, FaultIsTyped DEF FaultKinds
  <2> QED BY <2>1, <2>2, IdleTyped, NoPullIsTyped, KeyedStays DEF TypeOK, bucket, volume
<1>6. CASE Wipe
  <2>1. /\ UNCHANGED <<bucket, mode, pull, push, written, acked, orphaned, unseen>> /\ Fault("wipe")
        /\ files' = Nothing /\ cache' = Nothing /\ repair' = {} /\ shadow' = Nothing
    BY <1>6 DEF Wipe
  <2>2. faults' \in 0 .. MaxFaults BY <2>1, FaultIsTyped DEF FaultKinds
  <2> QED BY <2>1, <2>2, Empty, KeyedStays DEF TypeOK, bucket
<1>7. CASE Garble
  <2>1. /\ UNCHANGED <<cas, legacy, volume, mode, pull, push, written, acked, orphaned, unseen>>
        /\ Fault("garble") /\ manifest' = [state |-> "garbled", entries |-> Nothing, misfit |-> {}]
    BY <1>7 DEF Garble
  <2>2. faults' \in 0 .. MaxFaults BY <2>1, FaultIsTyped DEF FaultKinds
  <2>3. manifest' \in [state : {"absent", "ok", "garbled"}, entries : [Rels -> Content], misfit : SUBSET Rels]
    BY <2>1, Empty
  <2> QED BY <2>1, <2>2, <2>3, KeyedStays DEF TypeOK, volume
<1> QED BY <1>1, <1>2, <1>3, <1>4, <1>5, <1>6, <1>7 DEF World

-----------------------------------------------------------------------------
(* A push runs while the vault serves, nothing the system keeps is newer    *)
(* than what was written, and a pull goes by the manifest it has read.     *)

Quiet ==
  /\ push.pc = "idle" => push = Idle
  /\ mode # "serving" => push.pc = "idle"

Past ==
  /\ \A r \in Rels :
       /\ files[r] <= written[r] /\ legacy[r] <= written[r] /\ manifest.entries[r] <= written[r]
       /\ shadow[r] <= written[r] /\ push.man[r] <= written[r]
       /\ \A o \in ToSet(cas[r]) : o.hash <= written[r]
  /\ push.pc = "put" => push.hash <= written[push.rel]

Read ==
  /\ mode = "pull" /\ pull.known /\ manifest.state = "ok" =>
       pull.man = manifest.entries /\ pull.misfit = manifest.misfit
  /\ ~pull.known => pull.man = Nothing
  /\ manifest.state # "ok" => manifest.entries = Nothing

BaseInv == TypeOK /\ Keyed /\ Quiet /\ Past /\ Read

LEMMA QuietKept ==
  ASSUME TypeOK, Quiet, [Next]_vars
  PROVE  Quiet'
<1>1. CASE PullStep
  <2>1. UNCHANGED push /\ mode # "serving"
    BY <1>1 DEF PullStep, PullStart, PullFails, PullFile, Reconcile, ReconcileSkipped
  <2> QED BY <2>1 DEF Quiet
<1>2. ASSUME push' = Idle PROVE Quiet'
  BY <1>2, IdleIsTyped DEF Quiet
<1>3. ASSUME mode = "serving", mode' = mode, push'.pc # "idle" PROVE Quiet'
  BY <1>3 DEF Quiet
<1>4. CASE PushStep
  <2>1. ASSUME ~PushStart PROVE push.pc # "idle"
    BY <1>4, <2>1
    DEF PushStep, PushFile, PushHash, PushPut, PushPutFails, PushManifest, PushSave
  <2>2. mode = "serving" /\ mode' = mode
    BY <1>4, <2>1
    DEF PushStep, PushStart, PushFile, PushHash, PushPut, PushPutFails, PushManifest, PushSave, Quiet
  <2>3. push' = Idle \/ push'.pc # "idle"
    BY <1>4, StartDoes, FileDoes, HashDoes, PutDoes, PutFailsDoes, ManifestDoes, SaveDoes
    DEF PushStep
  <2> QED BY <1>2, <1>3, <2>2, <2>3
<1>5. ASSUME NEW r \in Rels, Write(r) \/ Unlink(r) PROVE Quiet'
  <2>1. mode = "serving" /\ mode' = mode BY <1>5 DEF Write, Unlink
  <2>2. PICK sized \in BOOLEAN : Touched(r, sized) /\ (sized = push.sized \/ push.pc = "hash")
    BY <1>5, TouchPicked
  <2>3. push'.pc = push.pc /\ (push = Idle /\ sized = push.sized => push' = Idle)
    BY <2>2, TouchDoes
  <2> QED BY <2>1, <2>2, <2>3 DEF Quiet
<1>6. CASE PushAborts \/ Crash BY <1>2, <1>6 DEF PushAborts, Crash
<1>7. CASE Stop BY <1>7 DEF Stop, Quiet
<1>8. CASE UNCHANGED <<push, mode>> BY <1>8 DEF Quiet
<1> QED
  BY <1>1, <1>4, <1>5, <1>6, <1>7, <1>8 DEF Next, World, Wipe, Garble, Lose, vars

LEMMA HeldIsPast ==
  ASSUME TypeOK, Past, NEW r \in Rels, NEW h \in Content, Held(r, h)
  PROVE  h <= written[r]
<1>1. ASSUME [hash |-> h, data |-> h] \in ToSet(cas[r]) PROVE h <= written[r]
  BY <1>1 DEF Past
<1> QED BY <1>1 DEF Past, Held

\* Steps that upload nothing.
LEMMA PastKeeps ==
  ASSUME TypeOK, Past, UNCHANGED <<cas, legacy, manifest, written>>,
         \A r \in Rels : files'[r] <= written[r] /\ shadow'[r] <= written[r] /\ push'.man[r] <= written[r],
         push'.pc = "put" => push'.hash <= written[push'.rel]
  PROVE  Past'
BY DEF Past

LEMMA NothingIsPast ==
  ASSUME TypeOK
  PROVE  \A r \in Rels : Nothing[r] <= written[r] /\ Idle.man[r] <= written[r]
<1>1. \A r \in Rels : written[r] \in Nat BY Bounds DEF TypeOK
<1> QED BY <1>1, Empty, IdleIsTyped

LEMMA UploadIsPast ==
  ASSUME TypeOK, Keyed, Past, push.pc = "put", files[push.rel] # 0, Upload,
         UNCHANGED <<manifest, written, files, shadow>>, push'.pc # "put",
         \A r \in Rels : push'.man[r] <= written[r]
  PROVE  Past'
<1>1. push.hash <= written[push.rel] /\ files[push.rel] <= written[push.rel] /\ push.rel \in Rels
  BY DEF Past, TypeOK
<1>2. CASE push.publish
  <2>1. /\ legacy' = legacy /\ \A q \in Rels \ {push.rel} : cas'[q] = cas[q]
        /\ ToSet(cas'[push.rel]) =
             {o \in ToSet(cas[push.rel]) : o.hash # push.hash}
               \cup {[hash |-> push.hash, data |-> files[push.rel]]}
    BY <1>2, UploadDoes
  <2>2. ASSUME NEW r \in Rels, NEW o \in ToSet(cas'[r]) PROVE o.hash <= written[r]
    <3>1. CASE r = push.rel BY <1>1, <2>1, <2>2, <3>1 DEF Past
    <3>2. CASE r # push.rel
      <4>1. o \in ToSet(cas[r]) BY <2>1, <2>2, <3>2
      <4> QED BY <4>1 DEF Past
    <3> QED BY <3>1, <3>2
  <2> QED BY <2>1, <2>2 DEF Past
<1>3. CASE ~push.publish
  <2>1. cas' = cas /\ legacy' = [legacy EXCEPT ![push.rel] = files[push.rel]]
    BY <1>3, UploadDoes
  <2>2. \A r \in Rels : legacy'[r] <= written[r] BY <1>1, <2>1 DEF Past, TypeOK
  <2> QED BY <2>1, <2>2 DEF Past
<1> QED BY <1>2, <1>3

LEMMA PastKept ==
  ASSUME TypeOK, Keyed, Past, [Next]_vars
  PROVE  Past'
<1>0. /\ \A r \in Rels : /\ files[r] <= written[r] /\ shadow[r] <= written[r]
                         /\ push.man[r] <= written[r] /\ legacy[r] <= written[r]
                         /\ manifest.entries[r] <= written[r]
      /\ push.pc = "put" => push.hash <= written[push.rel]
      /\ \A r \in Rels : Nothing[r] <= written[r] /\ Idle.man[r] <= written[r]
  BY NothingIsPast DEF Past
<1>1. ASSUME UNCHANGED <<cas, legacy, manifest, written, shadow, push>>,
             \A r \in Rels : files'[r] <= written[r]
      PROVE  Past'
  BY <1>0, <1>1, PastKeeps
<1>2. ASSUME NEW r \in Rels, PullFile(r) PROVE Past'
  <2>1. UNCHANGED <<cas, legacy, manifest, written, shadow, push>>
    BY <1>2 DEF PullFile, bucket
  <2>2. /\ \A q \in Rels \ {r} : files'[q] = files[q]
        /\ files'[r] = files[r] \/ Held(r, files'[r])
        /\ files' \in [Rels -> Content]
    BY <1>2, PullDoes
  <2>3. files'[r] <= written[r] BY <1>0, <2>2, HeldIsPast
  <2> QED BY <1>0, <1>1, <2>1, <2>2, <2>3
<1>3. CASE Reconcile
  <2>1. UNCHANGED <<cas, legacy, manifest, written, shadow, push>>
    BY <1>3 DEF Reconcile, bucket
  <2>2. ASSUME NEW r \in Rels PROVE files'[r] <= written[r]
    <3>1. files'[r] = files[r] \/ (files'[r] # 0 /\ files'[r] = Newest(r)) BY <1>3, ReconcileDoes
    <3>2. files'[r] = Newest(r) /\ files'[r] # 0 => Held(r, files'[r]) /\ files'[r] \in Content
      BY NewestIsHeld DEF Held, InCas
    <3> QED BY <1>0, <3>1, <3>2, HeldIsPast
  <2> QED BY <1>1, <2>1, <2>2
<1>4. ASSUME UNCHANGED <<cas, legacy, manifest, written, shadow, files>>,
             \A r \in Rels : push'.man[r] <= written[r],
             push'.pc = "put" => push'.hash <= written[push'.rel]
      PROVE  Past'
  BY <1>0, <1>4, PastKeeps
<1>5. CASE PushStart
  <2>1. UNCHANGED <<cas, legacy, manifest, written, shadow, files>>
    BY <1>5 DEF PushStart, bucket, volume
  <2>2. push'.pc = "file" /\ push'.man \in {manifest.entries, Nothing, shadow} BY <1>5, StartDoes
  <2>3. \A r \in Rels : push'.man[r] <= written[r] BY <1>0, <2>2
  <2> QED BY <1>4, <2>1, <2>2, <2>3
<1>6. ASSUME NEW r \in Rels, PushFile(r) PROVE Past'
  <2>1. UNCHANGED <<cas, legacy, manifest, written, shadow, files>>
    BY <1>6 DEF PushFile, bucket, volume
  <2>2. push'.pc # "put" /\ push'.man = push.man BY <1>6, FileDoes
  <2> QED BY <1>0, <1>4, <2>1, <2>2
<1>7. CASE PushHash
  <2>1. UNCHANGED <<cas, legacy, manifest, written, shadow, files>>
    BY <1>7 DEF PushHash, bucket, volume
  <2>2. /\ push'.man = push.man /\ push'.rel = push.rel /\ push.rel \in Rels
        /\ push'.pc = "put" => push'.hash = files[push.rel]
    BY <1>7, HashDoes
  <2> QED BY <1>0, <1>4, <2>1, <2>2
<1>8. CASE PushPut
  <2>1. /\ UNCHANGED <<manifest, written, files, shadow>> /\ Upload
        /\ push.pc = "put" /\ files[push.rel] # 0
    BY <1>8 DEF PushPut, volume, aux
  <2>2. /\ push'.pc # "put" /\ push.rel \in Rels
        /\ push'.man = [push.man EXCEPT ![push.rel] = push.hash]
    BY <1>8, PutDoes
  <2>3. \A r \in Rels : push'.man[r] <= written[r] BY <1>0, <2>1, <2>2 DEF TypeOK, Pushes
  <2> QED BY <2>1, <2>2, <2>3, UploadIsPast
<1>9. CASE PushPutFails
  <2>1. UNCHANGED <<manifest, written, files, shadow>> /\ push.pc = "put"
    BY <1>9 DEF PushPutFails, volume
  <2>2. push'.pc # "put" /\ push'.man = push.man BY <1>9, PutFailsDoes
  <2>3. UNCHANGED <<cas, legacy>> \/ (files[push.rel] # 0 /\ Upload) BY <1>9 DEF PushPutFails
  <2>4. \A r \in Rels : push'.man[r] <= written[r] BY <1>0, <2>2
  <2>5. CASE UNCHANGED <<cas, legacy>> BY <1>4, <2>1, <2>2, <2>4, <2>5
  <2>6. CASE files[push.rel] # 0 /\ Upload BY <2>1, <2>2, <2>4, <2>6, UploadIsPast
  <2> QED BY <2>3, <2>5, <2>6
<1>10. CASE PushManifest
  <2>1. UNCHANGED <<cas, legacy, written, files, shadow>> BY <1>10 DEF PushManifest, volume
  <2>2. /\ push'.pc = "save" /\ push'.man = push.man
        /\ manifest' = manifest \/ manifest'.entries = push.man
    BY <1>10, ManifestDoes DEF Rewritten
  <2>3. \A r \in Rels : manifest'.entries[r] <= written[r] BY <1>0, <2>2
  <2> QED BY <1>0, <2>1, <2>2, <2>3 DEF Past
<1>11. CASE PushSave
  <2>1. UNCHANGED <<cas, legacy, manifest, written, files>> BY <1>11 DEF PushSave, bucket
  <2>2. /\ push' = Idle /\ shadow' \in {shadow, Nothing, Pending}
        /\ \A r \in Rels : Pending[r] \in {push.man[r], 0}
    BY <1>11, SaveDoes
  <2>3. \A r \in Rels : shadow'[r] <= written[r] /\ push'.man[r] <= written[r]
    BY <1>0, <2>2, Empty
  <2>4. push'.pc # "put" BY <2>2, IdleIsTyped
  <2> QED BY <1>0, <2>1, <2>3, <2>4, PastKeeps
<1>12. ASSUME NEW r \in Rels, Write(r) \/ Unlink(r) PROVE Past'
  <2>1. UNCHANGED <<cas, legacy, manifest, shadow>>
    BY <1>12 DEF Write, Unlink, bucket
  <2>2. UNCHANGED <<push.pc, push.rel, push.hash, push.man>> BY <1>12, TouchPicked, TouchDoes
  <2>3. \A q \in Rels : files'[q] <= written'[q] /\ written[q] <= written'[q]
    <3>1. files \in [Rels -> Content] /\ written \in [Rels -> Content] BY DEF TypeOK
    <3>2. \A q \in Rels : written[q] \in Nat /\ files[q] \in Nat BY <3>1, Bounds
    <3>3. CASE Write(r)
      <4>1. /\ written' = [written EXCEPT ![r] = @ + 1]
            /\ files' = [files EXCEPT ![r] = written[r] + 1]
        BY <3>3 DEF Write
      <4> QED BY <1>0, <3>1, <3>2, <4>1
    <3>4. CASE Unlink(r) BY <1>0, <3>1, <3>2, <3>4 DEF Unlink, aux
    <3> QED BY <1>12, <3>3, <3>4
  <2>4. \A q \in Rels : /\ written[q] \in Nat /\ written'[q] \in Nat /\ legacy[q] \in Nat
                        /\ manifest.entries[q] \in Nat /\ shadow[q] \in Nat
                        /\ push.man[q] \in Nat
    <3>1. TypeOK' BY <1>12, WorldTypes DEF World
    <3>2. \A q \in Rels : written'[q] \in Nat BY <3>1, Bounds DEF TypeOK
    <3> QED BY <3>2, Bounds DEF TypeOK, Pushes
  <2>5. \A q \in Rels : \A o \in ToSet(cas[q]) : o.hash \in Nat
    <3> SUFFICES ASSUME NEW q \in Rels, NEW i \in DOMAIN cas[q] PROVE cas[q][i].hash \in Nat
      BY DEF ToSet
    <3>1. cas[q] \in Seq(Objects) BY DEF TypeOK
    <3>2. cas[q][i] \in Objects BY <3>1
    <3> QED BY <3>2, Bounds DEF Objects
  <2>6. \A q \in Rels : /\ legacy'[q] <= written'[q] /\ manifest'.entries[q] <= written'[q]
                        /\ shadow'[q] <= written'[q] /\ push'.man[q] <= written'[q]
    BY <1>0, <2>1, <2>2, <2>3, <2>4
  <2>7. \A q \in Rels : \A o \in ToSet(cas'[q]) : o.hash <= written'[q]
    BY <2>1, <2>3, <2>4, <2>5 DEF Past
  <2>8. push'.pc = "put" => push'.hash <= written'[push'.rel]
    <3> SUFFICES ASSUME push.pc = "put" PROVE push.hash <= written'[push.rel]
      BY <2>2
    <3>1. push.rel \in Rels /\ push.hash \in Nat BY Bounds DEF TypeOK, Pushes
    <3> QED BY <1>0, <2>3, <2>4, <3>1
  <2> QED BY <2>3, <2>6, <2>7, <2>8 DEF Past
<1>13. ASSUME NEW r \in Rels, Lose(r) PROVE Past'
  <2>1. UNCHANGED <<manifest, files, shadow, push, written>> BY <1>13 DEF Lose, volume
  <2>2. /\ \A q \in Rels \ {r} : cas'[q] = cas[q] /\ legacy'[q] = legacy[q]
        /\ legacy'[r] \in {0, legacy[r]} /\ ToSet(cas'[r]) \subseteq ToSet(cas[r])
    BY <1>13, LoseDoes
  <2>3. 0 <= written[r]
    <3>1. written \in [Rels -> Content] BY DEF TypeOK
    <3>2. written[r] \in Nat BY <3>1, Bounds
    <3> QED BY <3>2
  <2> QED BY <2>1, <2>2, <2>3 DEF Past
<1>14. CASE PushAborts \/ Crash
  <2>1. UNCHANGED <<cas, legacy, manifest, written, shadow, files>> /\ push' = Idle
    BY <1>14 DEF PushAborts, Crash, bucket, volume
  <2> QED BY <1>0, <1>4, <2>1, IdleIsTyped
<1>15. CASE Wipe
  <2>1. UNCHANGED <<cas, legacy, manifest, written, push>> /\ files' = Nothing /\ shadow' = Nothing
    BY <1>15 DEF Wipe, bucket
  <2> QED BY <1>0, <2>1, PastKeeps
<1>16. CASE Garble
  <2>1. UNCHANGED <<cas, legacy, written, push, files, shadow>> /\ manifest'.entries = Nothing
    BY <1>16 DEF Garble, volume
  <2> QED BY <1>0, <2>1 DEF Past
<1>17. CASE PullStart \/ PullFails \/ ReconcileSkipped \/ Stop \/ UNCHANGED vars
  <2>1. UNCHANGED <<cas, legacy, manifest, written, shadow, push, files>>
    BY <1>17 DEF PullStart, PullFails, ReconcileSkipped, Stop, vars, bucket, volume, aux
  <2> QED BY <1>0, <1>1, <2>1
<1> QED
  BY <1>2, <1>3, <1>5, <1>6, <1>7, <1>8, <1>9, <1>10, <1>11, <1>12, <1>13, <1>14, <1>15, <1>16, <1>17
  DEF Next, PullStep, PushStep, World

LEMMA ReadKept ==
  ASSUME TypeOK, Quiet, Read, [Next]_vars
  PROVE  Read'
<1>1. CASE PullStart BY <1>1, NoPullIsTyped DEF PullStart, Read, bucket, NoPull
<1>2. ASSUME pull' = NoPull, UNCHANGED manifest, mode' # "pull" PROVE Read'
  BY <1>2, NoPullIsTyped DEF Read
<1>3. ASSUME NEW r \in Rels, PullFile(r) PROVE Read'
  <2>1. UNCHANGED <<manifest, mode, pull.man, pull.misfit, pull.known>> BY <1>3 DEF PullFile, bucket, TypeOK
  <2> QED BY <2>1 DEF Read
<1>4. CASE Reconcile \/ ReconcileSkipped \/ Crash
  BY <1>2, <1>4 DEF Reconcile, ReconcileSkipped, Crash, bucket
<1>5. CASE PushManifest
  <2>1. mode = "serving" /\ UNCHANGED <<mode, pull>> BY <1>5 DEF PushManifest, Quiet
  <2>2. manifest' = manifest \/ manifest'.state = "ok" BY <1>5, ManifestDoes DEF Rewritten
  <2> QED BY <2>1, <2>2 DEF Read
<1>6. CASE Garble BY <1>6 DEF Garble, Read
<1>7. CASE PullFails \/ Stop
  <2>1. UNCHANGED <<manifest, pull>> /\ mode' # "pull" BY <1>7 DEF PullFails, Stop, bucket
  <2> QED BY <2>1 DEF Read
<1>8. CASE UNCHANGED <<manifest, pull, mode>> BY <1>8 DEF Read
<1> QED
  BY <1>1, <1>3, <1>4, <1>5, <1>6, <1>7, <1>8
  DEF Next, PullStep, PushStep, World, PushStart, PushFile, PushHash, PushPut, PushPutFails, PushSave,
      PushAborts, Write, Unlink, Wipe, Lose, vars, bucket

LEMMA BaseStep == ASSUME BaseInv, [Next]_vars PROVE BaseInv'
<1>1. TypeOK' /\ Keyed'
  <2>1. CASE UNCHANGED vars
    <3>1. TypeOK' BY <2>1 DEF BaseInv, TypeOK, vars, bucket, volume, aux
    <3> QED BY <2>1, <3>1, KeyedStays DEF BaseInv, vars, bucket
  <2> QED BY <2>1, PullTypes, PushTypes, WorldTypes DEF BaseInv, Next
<1> QED BY <1>1, QuietKept, PastKept, ReadKept DEF BaseInv

LEMMA BaseInit == ASSUME Init PROVE BaseInv
<1>1. PICK layout \in Layouts, held \in SUBSET Rels, local \in SUBSET Rels :
        LET old == [r \in Rels |-> IF r \in held THEN 1 ELSE 0]
        IN /\ local \subseteq held
           /\ layout = "fresh" => held = {}
           /\ cas = [r \in Rels |-> <<>>]
           /\ legacy = old
           /\ manifest = IF layout = "inherited" THEN [state |-> "ok", entries |-> old, misfit |-> {}]
                         ELSE [state |-> "absent", entries |-> Nothing, misfit |-> {}]
           /\ files = [r \in Rels |-> IF r \in local THEN 1 ELSE 0]
           /\ cache = Nothing /\ repair = {} /\ shadow = Nothing
           /\ mode = "down" /\ pull = NoPull /\ push = Idle
           /\ written = old /\ acked = old /\ faults = 0 /\ orphaned = {} /\ unseen = {}
  BY DEF Init
<1> DEFINE old == [r \in Rels |-> IF r \in held THEN 1 ELSE 0]
           there == [r \in Rels |-> IF r \in local THEN 1 ELSE 0]
<1>2. old \in [Rels -> Content] /\ there \in [Rels -> Content] BY Bounds
<1>3. \A r \in Rels : there[r] <= old[r] /\ 0 <= old[r] /\ old[r] <= old[r]
  <2> SUFFICES ASSUME NEW r \in Rels
               PROVE  there[r] <= old[r] /\ 0 <= old[r] /\ old[r] <= old[r]
    OBVIOUS
  <2> QED BY <1>1
<1>4. /\ cas = [r \in Rels |-> <<>>] /\ legacy = old /\ files = there
      /\ manifest = IF layout = "inherited" THEN [state |-> "ok", entries |-> old, misfit |-> {}]
                    ELSE [state |-> "absent", entries |-> Nothing, misfit |-> {}]
      /\ cache = Nothing /\ repair = {} /\ shadow = Nothing
      /\ mode = "down" /\ pull = NoPull /\ push = Idle
      /\ written = old /\ acked = old /\ faults = 0 /\ orphaned = {} /\ unseen = {}
  BY <1>1
<1> HIDE DEF old, there
<1>5. /\ manifest \in [state : {"absent", "ok", "garbled"}, entries : [Rels -> Content], misfit : SUBSET Rels]
      /\ manifest.entries \in {old, Nothing} /\ (manifest.state # "ok" => manifest.entries = Nothing)
  BY <1>2, <1>4, Empty
<1>6. cas \in [Rels -> Seq(Objects)] /\ \A r \in Rels : DOMAIN cas[r] = {} BY <1>4
<1>7. TypeOK
  BY <1>2, <1>4, <1>5, <1>6, Empty, Bounds, IdleIsTyped, NoPullIsTyped DEF TypeOK
<1>8. Keyed BY <1>6 DEF Keyed, OneEach
<1>9. Quiet BY <1>4, IdleIsTyped DEF Quiet
<1>10. Past
  <2>1. \A r \in Rels : ToSet(cas[r]) = {} BY <1>6 DEF ToSet
  <2> QED BY <1>3, <1>4, <1>5, <2>1, Empty, IdleIsTyped DEF Past
<1>11. Read BY <1>4, <1>5, NoPullIsTyped DEF Read
<1> QED BY <1>7, <1>8, <1>9, <1>10, <1>11 DEF BaseInv

-----------------------------------------------------------------------------
(* The hash cache.                                                         *)

\* What is about to be recorded is the hash of the file, unless it was
\* written since its metadata was read.
Fresh == push.pc = "put" /\ push.fresh => push.hash = files[push.rel]

CacheInv == CacheIsCurrent /\ Fresh

\* While no push runs, nothing is remembered by one.
LEMMA IdleCache ==
  ASSUME TypeOK, Quiet, mode # "serving"
  PROVE  push.pc = "idle" /\ \A r \in Rels : push.cache[r] = 0
BY IdleIsTyped, Empty DEF Quiet

LEMMA CacheStep ==
  ASSUME BaseInv, CacheInv, [Next]_vars
  PROVE  CacheInv'
<1>0. /\ TypeOK /\ Quiet /\ CacheIsCurrent /\ Fresh
      /\ \A r \in Rels : Idle.cache[r] = 0 /\ Nothing[r] = 0
  BY IdleIsTyped, Empty DEF BaseInv, CacheInv
<1>1. ASSUME UNCHANGED push, mode # "serving",
             \A r \in Rels : (files'[r] = files[r] /\ cache'[r] = cache[r]) \/ cache'[r] = 0
      PROVE  CacheInv'
  BY <1>0, <1>1, IdleCache DEF CacheInv, CacheIsCurrent, Fresh
<1>2. CASE PullStep
  <2>1. UNCHANGED push /\ mode # "serving"
    BY <1>2 DEF PullStep, PullStart, PullFails, PullFile, Reconcile, ReconcileSkipped
  <2>2. \A r \in Rels : (files'[r] = files[r] /\ cache'[r] = cache[r]) \/ cache'[r] = 0
    BY <1>0, <1>2, PullDoes, ReconcileDoes
    DEF PullStep, PullStart, PullFails, ReconcileSkipped, volume
  <2> QED BY <1>1, <2>1, <2>2
<1>3. ASSUME UNCHANGED <<files, cache>>, push'.pc = "put" => push'.hash = files[push'.rel],
             \A r \in Rels : push'.cache[r] \in {push.cache[r], cache[r], 0, files[r]}
      PROVE  CacheInv'
  BY <1>0, <1>3 DEF CacheInv, CacheIsCurrent, Fresh
<1>4. CASE PushStart
  BY <1>3, <1>4, StartDoes, <1>0 DEF PushStart, volume
<1>5. ASSUME NEW r \in Rels, PushFile(r) PROVE CacheInv'
  BY <1>0, <1>3, <1>5, FileDoes DEF PushFile, volume
<1>6. CASE PushHash
  <2>1. UNCHANGED <<files, cache>> BY <1>6 DEF PushHash, volume
  <2>2. files[push.rel] \in Content /\ push.rel \in Rels BY <1>0, <1>6, HashDoes DEF TypeOK
  <2>3. push'.pc = "put" => push'.hash = files[push'.rel] BY <1>0, <1>6, HashDoes
  <2>4. \A r \in Rels : push'.cache[r] \in {push.cache[r], cache[r], 0, files[r]}
    BY <1>0, <1>6, <2>2, HashDoes, RecordedIsTyped
  <2> QED BY <1>3, <2>1, <2>3, <2>4
<1>7. CASE PushPut
  <2>1. UNCHANGED <<files, cache>> /\ push.pc = "put" BY <1>7 DEF PushPut, volume
  <2>2. /\ push'.pc = "file" /\ push.rel \in Rels /\ push'.cache = Recorded(push.hash)
        /\ push.hash \in Content
    BY <1>0, <1>7, PutDoes DEF TypeOK, Pushes
  <2>3. /\ \A q \in Rels \ {push.rel} : Recorded(push.hash)[q] = push.cache[q]
        /\ Recorded(push.hash)[push.rel] = IF push.fresh THEN push.hash ELSE 0
    BY <1>0, <2>2, RecordedIsTyped
  <2>4. \A r \in Rels : push'.cache[r] \in {push.cache[r], cache[r], 0, files[r]}
    BY <1>0, <2>1, <2>2, <2>3 DEF Fresh
  <2> QED BY <1>3, <2>1, <2>2, <2>4
<1>8. CASE PushPutFails BY <1>0, <1>3, <1>8, PutFailsDoes DEF PushPutFails, volume
<1>9. CASE PushManifest BY <1>0, <1>3, <1>9, ManifestDoes DEF PushManifest, volume
<1>10. CASE PushSave
  <2>1. push' = Idle /\ cache' \in {cache, Nothing, push.cache} BY <1>0, <1>10, SaveDoes
  <2>2. files' = files BY <1>10 DEF PushSave
  <2> QED BY <1>0, <2>1, <2>2, IdleIsTyped DEF CacheInv, CacheIsCurrent, Fresh
<1>11. ASSUME NEW r \in Rels, Write(r) \/ Unlink(r) PROVE CacheInv'
  <2>1. PICK sized \in BOOLEAN : Touched(r, sized) BY <1>0, <1>11, TouchPicked
  <2>2. /\ cache' = [cache EXCEPT ![r] = 0] /\ push'.cache = [push.cache EXCEPT ![r] = 0]
        /\ push'.fresh = (push.fresh /\ push.rel # r)
        /\ UNCHANGED <<push.pc, push.rel, push.hash>>
    BY <1>0, <2>1, TouchDoes
  <2>3. \A q \in Rels \ {r} : files'[q] = files[q] BY <1>0, <1>11 DEF Write, Unlink, TypeOK
  <2>4. CacheIsCurrent' BY <1>0, <2>2, <2>3 DEF CacheIsCurrent, TypeOK, Pushes
  <2>5. push.pc = "put" => push.rel \in Rels BY <1>0 DEF TypeOK
  <2>6. Fresh' BY ZenonT(30), <1>0, <2>2, <2>3, <2>5 DEF Fresh
  <2> QED BY <2>4, <2>6 DEF CacheInv
<1>12. CASE PushAborts \/ Crash
  <2>1. UNCHANGED <<files, cache>> /\ push' = Idle BY <1>12 DEF PushAborts, Crash, volume
  <2> QED BY <1>0, <1>3, <2>1, IdleIsTyped
<1>13. CASE Wipe BY <1>0, <1>1, <1>13 DEF Wipe
<1>14. CASE UNCHANGED <<files, cache, push>> BY <1>0, <1>14 DEF CacheInv, CacheIsCurrent, Fresh
<1> QED
  BY <1>2, <1>4, <1>5, <1>6, <1>7, <1>8, <1>9, <1>10, <1>11, <1>12, <1>13, <1>14
  DEF Next, PushStep, World, Stop, Garble, Lose, vars, volume

-----------------------------------------------------------------------------
(* What happens to the copy of a file.                                     *)

LEMMA HeldStays ==
  ASSUME UNCHANGED <<cas, legacy>>
  PROVE  \A r, h : Held(r, h)' <=> Held(r, h)
BY DEF Held

\* Unless an object is lost, the copy of a content goes only with an upload
\* to its own key, or to the path key of its file.
LEMMA UploadKeeps ==
  ASSUME TypeOK, Keyed, push.pc = "put", files[push.rel] # 0, Upload,
         NEW r \in Rels, NEW h, Held(r, h)
  PROVE  \/ Held(r, h)'
         \/ r = push.rel /\ (IF push.publish THEN h = push.hash ELSE legacy[r] = h)
<1> USE UploadDoes
<1>1. CASE push.publish
  <2>1. CASE r = push.rel
    <3>1. /\ legacy' = legacy
          /\ ToSet(cas'[push.rel]) =
               {o \in ToSet(cas[push.rel]) : o.hash # push.hash}
                 \cup {[hash |-> push.hash, data |-> files[push.rel]]}
      BY <1>1
    <3> QED BY <1>1, <2>1, <3>1 DEF Held
  <2>2. CASE r # push.rel
    <3>1. legacy' = legacy /\ cas'[r] = cas[r] BY <1>1, <2>2
    <3> QED BY <3>1 DEF Held
  <2> QED BY <2>1, <2>2
<1>2. CASE ~push.publish
  <2>1. cas' = cas /\ legacy' = [legacy EXCEPT ![push.rel] = files[push.rel]] BY <1>2
  <2>2. r # push.rel => legacy'[r] = legacy[r] BY <2>1 DEF TypeOK
  <2> QED BY <1>2, <2>1, <2>2 DEF Held
<1> QED BY <1>1, <1>2

\* The content that was uploaded is held, if it is the one that was hashed.
LEMMA UploadHolds ==
  ASSUME TypeOK, Keyed, push.pc = "put", files[push.rel] # 0, Upload,
         NEW r, r = push.rel, NEW h, h = push.hash, NEW d, d = files[push.rel]
  PROVE  /\ d = h \/ ~push.publish => Held(r, d)'
         /\ d = h /\ push.publish => InCas(r, h)'
<1>1. CASE push.publish
  <2>1. [hash |-> h, data |-> d] \in ToSet(cas'[r]) BY <1>1, UploadDoes
  <2> QED BY <1>1, <2>1 DEF Held, InCas
<1>2. CASE ~push.publish
  <2>1. legacy'[r] = d BY <1>2, UploadDoes DEF TypeOK
  <2> QED BY <1>2, <2>1 DEF Held
<1> QED BY <1>1, <1>2

\* A file that is written gets a content nothing in the system has seen.
LEMMA TouchedFile ==
  ASSUME BaseInv, NEW r \in Rels, Write(r) \/ Unlink(r)
  PROVE  /\ UNCHANGED <<cas, legacy, manifest, shadow, repair, unseen, mode, pull, acked, orphaned>>
         /\ \A q \in Rels \ {r} : files'[q] = files[q]
         /\ files'[r] \in Nat
         /\ \/ files'[r] = 0
            \/ /\ files'[r] > manifest.entries[r] /\ files'[r] > shadow[r]
               /\ files'[r] > push.man[r] /\ files'[r] > legacy[r]
         /\ UNCHANGED <<push.pc, push.rel, push.hash, push.man, push.misfit, push.repair, push.todo,
                        push.list, push.publish, push.pushed, push.stored, push.failed>>
<1>1. TypeOK /\ Past BY DEF BaseInv
<1>2. PICK sized \in BOOLEAN : Touched(r, sized) BY <1>1, TouchPicked
<1>3. UNCHANGED <<push.pc, push.rel, push.hash, push.man, push.misfit, push.repair, push.todo,
                  push.list, push.publish, push.pushed, push.stored, push.failed>>
  BY <1>1, <1>2, TouchDoes
<1>4. UNCHANGED <<cas, legacy, manifest, shadow, repair, unseen, mode, pull, acked, orphaned>>
  BY DEF Write, Unlink, bucket, aux
<1>5. files \in [Rels -> Content] BY <1>1 DEF TypeOK
<1>6. CASE Write(r)
  <2>1. files' = [files EXCEPT ![r] = written[r] + 1] BY <1>6 DEF Write
  <2>2. /\ manifest.entries[r] <= written[r] /\ shadow[r] <= written[r]
        /\ push.man[r] <= written[r] /\ legacy[r] <= written[r]
    BY <1>1 DEF Past
  <2>3. /\ manifest.entries \in [Rels -> Content] /\ shadow \in [Rels -> Content]
        /\ push.man \in [Rels -> Content] /\ legacy \in [Rels -> Content]
        /\ written \in [Rels -> Content]
    BY <1>1 DEF TypeOK, Pushes
  <2>4. /\ written[r] \in Nat /\ manifest.entries[r] \in Nat /\ shadow[r] \in Nat
        /\ push.man[r] \in Nat /\ legacy[r] \in Nat
    BY <2>3, Bounds
  <2> QED BY <1>3, <1>4, <1>5, <2>1, <2>2, <2>4
<1>7. CASE Unlink(r) BY <1>3, <1>4, <1>5, <1>7 DEF Unlink
<1> QED BY <1>6, <1>7

\* A file that was written after its hash was taken.
Late ==
  push.pc = "put" /\ files[push.rel] \notin {0, push.hash} =>
    /\ files[push.rel] > manifest.entries[push.rel]
    /\ files[push.rel] > push.man[push.rel] /\ files[push.rel] > shadow[push.rel]

LEMMA LateStep ==
  ASSUME BaseInv, Late, [Next]_vars
  PROVE  Late'
<1>0. TypeOK /\ Quiet BY DEF BaseInv
<1>1. ASSUME push'.pc # "put" PROVE Late' BY <1>1 DEF Late
<1>2. CASE PushHash
  <2>1. push'.pc = "put" => files'[push'.rel] = push'.hash
    BY <1>0, <1>2, HashDoes DEF PushHash, volume
  <2> QED BY <2>1 DEF Late
<1>3. CASE PushStep /\ ~PushHash
  <2>1. push'.pc # "put"
    BY <1>0, <1>3, StartDoes, FileDoes, PutDoes, PutFailsDoes, ManifestDoes, SaveDoes, IdleIsTyped
    DEF PushStep
  <2> QED BY <1>1, <2>1
<1>4. ASSUME NEW r \in Rels, Write(r) \/ Unlink(r) PROVE Late'
  <2>1. /\ UNCHANGED <<manifest, shadow, push.pc, push.rel, push.hash, push.man>>
        /\ \A q \in Rels \ {r} : files'[q] = files[q]
        /\ \/ files'[r] = 0
           \/ /\ files'[r] > manifest.entries[r] /\ files'[r] > shadow[r]
              /\ files'[r] > push.man[r]
    BY <1>4, TouchedFile
  <2>2. push.pc = "put" => push.rel \in Rels BY <1>0 DEF TypeOK
  <2> QED BY <2>1, <2>2 DEF Late
<1>5. CASE PullStep
  <2>1. UNCHANGED push /\ mode # "serving"
    BY <1>5 DEF PullStep, PullStart, PullFails, PullFile, Reconcile, ReconcileSkipped
  <2> QED BY <1>0, <1>1, <2>1 DEF Quiet
<1>6. CASE PushAborts \/ Crash BY <1>1, <1>6, IdleIsTyped DEF PushAborts, Crash
<1>7. CASE Wipe BY <1>0, <1>1, <1>7 DEF Wipe, Quiet
<1>8. CASE Garble
  <2>1. UNCHANGED <<files, shadow, push>> /\ manifest'.entries = Nothing BY <1>8 DEF Garble, volume
  <2>2. push.pc = "put" => push.rel \in Rels BY <1>0 DEF TypeOK
  <2>3. push.pc = "put" => files[push.rel] \in Nat BY <1>0, <2>2, Bounds DEF TypeOK
  <2> QED BY <2>1, <2>2, <2>3, Empty DEF Late
<1>9. CASE UNCHANGED <<files, shadow, push, manifest>> BY <1>9 DEF Late
<1> QED
  BY <1>2, <1>3, <1>4, <1>5, <1>6, <1>7, <1>8, <1>9
  DEF Next, World, Stop, Lose, vars, volume, bucket

-----------------------------------------------------------------------------
(* Lost objects.                                                           *)

Noted(r) ==
  \/ r \in unseen
  \/ r \in repair /\ (push.pc # "idle" => r \in push.repair \cap push.list)

\* A content that is not held and that a push would skip.
Losses ==
  \A r \in Present(files) :
    /\ manifest.entries[r] = files[r] => Held(r, files[r]) \/ Noted(r) \/ r \in manifest.misfit
    /\ push.publish /\ push.man[r] = files[r] =>
         Held(r, files[r]) \/ Noted(r) \/ r \in push.misfit

\* Steps that leave the bucket and the volume's notes alone.
LEMMA LossesKeep ==
  ASSUME Losses, UNCHANGED <<cas, legacy, repair, unseen, push.list, push.publish>>,
         \A r \in Rels : files'[r] \in {files[r], 0} \/ Held(r, files'[r])
                           \/ files'[r] \notin {manifest'.entries[r], push'.man[r]},
         \/ manifest' = manifest \/ \A r \in Rels : manifest'.entries[r] = 0
         \/ push.publish /\ manifest' = Rewritten,
         push'.man = push.man, push'.misfit = push.misfit, push'.repair = push.repair,
         (push'.pc = "idle") <=> (push.pc = "idle")
  PROVE  Losses'
<1> SUFFICES ASSUME NEW r \in Rels, files'[r] # 0
             PROVE  /\ manifest'.entries[r] = files'[r] =>
                         Held(r, files[r])' \/ Noted(r)' \/ r \in manifest'.misfit
                    /\ push'.publish /\ push'.man[r] = files'[r] =>
                         Held(r, files[r])' \/ Noted(r)' \/ r \in push'.misfit
  BY DEF Losses, Present
<1>1. Noted(r)' <=> Noted(r) BY DEF Noted
<1>2. Held(r, files[r])' <=> Held(r, files'[r]) BY DEF Held
<1>3. CASE files'[r] = files[r] BY <1>1, <1>2, <1>3 DEF Losses, Present, Rewritten
<1>4. CASE Held(r, files'[r]) BY <1>2, <1>4
<1> QED BY <1>3, <1>4

LEMMA PutKeepsLosses ==
  ASSUME BaseInv, Late, Losses, push.pc = "put", files[push.rel] # 0, Upload,
         UNCHANGED <<manifest, volume, unseen, push.list, push.publish>>, push'.pc = "file",
         push'.man \in {push.man, [push.man EXCEPT ![push.rel] = push.hash]},
         \A r \in push.misfit : r = push.rel \/ r \in push'.misfit,
         push.repair \ {push.rel} \subseteq push'.repair
  PROVE  Losses'
<1>0. /\ TypeOK /\ Keyed BY DEF BaseInv
<1>1. UNCHANGED <<files, repair, manifest, unseen, push.list, push.publish>> BY DEF volume
<1> SUFFICES ASSUME NEW r \in Rels, files[r] # 0
             PROVE  /\ manifest.entries[r] = files[r] =>
                         Held(r, files[r])' \/ Noted(r)' \/ r \in manifest.misfit
                    /\ push.publish /\ push'.man[r] = files[r] =>
                         Held(r, files[r])' \/ Noted(r)' \/ r \in push'.misfit
  BY <1>1 DEF Losses, Present
<1>2. Held(r, files[r])' <=> (\E f : f = files[r] /\ Held(r, f)') BY <1>1 DEF Held
<1>3. CASE r # push.rel
  <2>1. Held(r, files[r]) => Held(r, files[r])'
    <3> SUFFICES ASSUME NEW f, f = files[r], Held(r, f) PROVE Held(r, f)'
      BY <1>2
    <3> QED BY <1>0, <1>3, UploadKeeps
  <2>2. Noted(r) => Noted(r)' BY <1>1, <1>3 DEF Noted
  <2>3. push'.man[r] = push.man[r] BY <1>0, <1>3 DEF TypeOK, Pushes
  <2> QED BY <1>1, <1>3, <2>1, <2>2, <2>3 DEF Losses, Present
<1>4. CASE r = push.rel /\ (files[r] = push.hash \/ ~push.publish)
  <2>1. ASSUME NEW f, f = files[r] PROVE Held(r, f)' BY <1>0, <1>4, <2>1, UploadHolds
  <2> QED BY <1>2, <2>1
<1>5. CASE r = push.rel /\ files[r] # push.hash
  <2>1. files[r] > manifest.entries[r] /\ files[r] > push.man[r] BY <1>5 DEF Late
  <2>2. push'.man[r] \in {push.man[r], push.hash} BY <1>0, <1>5 DEF TypeOK, Pushes
  <2>3. files[r] \in Nat /\ manifest.entries[r] \in Nat /\ push.man[r] \in Nat
    BY <1>0, Bounds DEF TypeOK, Pushes
  <2> QED BY <1>5, <2>1, <2>2, <2>3
<1> QED BY <1>3, <1>4, <1>5

LEMMA PullKeepsLosses ==
  ASSUME BaseInv, Losses, PullStep
  PROVE  Losses'
<1>0. TypeOK /\ Quiet /\ Read BY DEF BaseInv
<1>1. UNCHANGED <<cas, legacy, manifest, push>> /\ mode # "serving"
  BY DEF PullStep, PullStart, PullFails, PullFile, Reconcile, ReconcileSkipped, bucket
<1>2. push = Idle /\ push.pc = "idle" /\ ~push.publish BY <1>0, <1>1, IdleIsTyped DEF Quiet
<1>3. ASSUME UNCHANGED <<repair, unseen>>,
             \A r \in Rels : files'[r] = files[r] \/ Held(r, files'[r])
      PROVE  Losses'
  <2>1. \A r \in Rels : files'[r] \in {files[r], 0} \/ Held(r, files'[r])
                           \/ files'[r] \notin {manifest'.entries[r], push'.man[r]}
    BY <1>3
  <2> QED BY <1>1, <1>3, <2>1, LossesKeep
<1>4. ASSUME NEW r \in Rels, PullFile(r) PROVE Losses'
  <2>1. UNCHANGED <<repair, unseen>> BY <1>4 DEF PullFile
  <2>2. \A q \in Rels : files'[q] = files[q] \/ Held(q, files'[q]) BY <1>0, <1>4, PullDoes
  <2> QED BY <1>3, <2>1, <2>2
<1>5. CASE Reconcile
  <2> SUFFICES ASSUME NEW r \in Rels, files'[r] # 0, manifest.entries[r] = files'[r],
                      ~Held(r, files'[r]), r \notin manifest.misfit
               PROVE  r \in unseen' \cup repair'
    BY <1>1, <1>2 DEF Losses, Present, Noted, Held
  <2>1. files'[r] = files[r]
    <3>1. files'[r] = Newest(r) /\ files'[r] # 0 => Held(r, files'[r])
      BY <1>0, NewestIsHeld DEF Held, InCas
    <3> QED BY <1>0, <1>5, <3>1, ReconcileDoes
  <2>2. r \in unseen \cup repair BY <2>1 DEF Losses, Present, Noted
  <2>3. \/ /\ pull.known
           /\ pull.man[r] # 0 /\ r \notin pull.misfit /\ files'[r] # 0
                /\ ~Held(r, pull.man[r]) => r \in unseen' \cup repair'
        \/ r \in unseen \cup repair => r \in unseen' \cup repair'
    BY <1>0, <1>5, ReconcileDoes
  <2>4. manifest.state = "ok" BY <1>0, Empty DEF Read
  <2>5. pull.known => pull.man[r] = files'[r] /\ r \notin pull.misfit
    BY <1>0, <1>5, <2>4 DEF Read, Reconcile
  <2> QED BY <2>2, <2>3, <2>5
<1>6. CASE PullStart \/ PullFails \/ ReconcileSkipped
  <2>1. UNCHANGED <<repair, unseen, files>>
    BY <1>6 DEF PullStart, PullFails, ReconcileSkipped, volume
  <2> QED BY <1>3, <2>1
<1> QED BY <1>4, <1>5, <1>6 DEF PullStep

LEMMA PushKeepsLosses ==
  ASSUME BaseInv, Late, Losses, PushStep
  PROVE  Losses'
<1>0. TypeOK BY DEF BaseInv
<1>1. CASE PushStart
  <2>1. UNCHANGED <<cas, legacy, manifest, files, repair, unseen>> /\ push.pc = "idle"
    BY <1>1 DEF PushStart, bucket, volume
  <2>2. /\ push'.list = Present(files) /\ push'.repair = repair
        /\ push'.publish => (push'.man = manifest.entries /\ push'.misfit = manifest.misfit)
                              \/ push'.man = Nothing
    BY <1>0, <1>1, StartDoes
  <2> SUFFICES ASSUME NEW r \in Rels, files[r] # 0
               PROVE  /\ manifest.entries[r] = files[r] =>
                           Held(r, files[r]) \/ Noted(r)' \/ r \in manifest.misfit
                      /\ push'.publish /\ push'.man[r] = files[r] =>
                           Held(r, files[r]) \/ Noted(r)' \/ r \in push'.misfit
    BY <2>1 DEF Losses, Present, Held
  <2>3. Noted(r) => Noted(r)' BY <2>1, <2>2 DEF Noted, Present
  <2> QED BY <2>2, <2>3, Empty DEF Losses, Present
<1>2. ASSUME UNCHANGED <<cas, legacy, manifest, files, repair, unseen>>, push.pc # "idle",
             push'.pc # "idle",
             UNCHANGED <<push.list, push.publish, push.man, push.misfit, push.repair>>
      PROVE  Losses'
  BY <1>2, LossesKeep
<1>3. ASSUME NEW r \in Rels, PushFile(r) PROVE Losses'
  BY <1>0, <1>2, <1>3, FileDoes DEF PushFile, bucket, volume
<1>4. CASE PushHash BY <1>0, <1>2, <1>4, HashDoes DEF PushHash, bucket, volume
<1>5. CASE PushPut
  <2>1. /\ push.pc = "put" /\ files[push.rel] # 0 /\ Upload
        /\ UNCHANGED <<manifest, volume, unseen>>
    BY <1>5 DEF PushPut, aux
  <2>2. /\ UNCHANGED <<push.list, push.publish>> /\ push'.pc = "file"
        /\ push'.man = [push.man EXCEPT ![push.rel] = push.hash]
        /\ push'.repair = push.repair \ {push.rel}
        /\ \A r \in push.misfit : r = push.rel \/ r \in push'.misfit
    BY <1>0, <1>5, PutDoes
  <2> QED BY <2>1, <2>2, PutKeepsLosses
<1>6. CASE PushPutFails
  <2>1. /\ push.pc = "put" /\ UNCHANGED <<manifest, volume, unseen>>
        /\ UNCHANGED <<cas, legacy>> \/ (files[push.rel] # 0 /\ Upload)
    BY <1>6 DEF PushPutFails
  <2>2. UNCHANGED <<push.list, push.publish, push.man, push.misfit, push.repair>> /\ push'.pc = "file"
    BY <1>0, <1>6, PutFailsDoes
  <2>3. CASE UNCHANGED <<cas, legacy>> BY <1>2, <2>1, <2>2, <2>3 DEF volume
  <2>4. CASE files[push.rel] # 0 /\ Upload BY <2>1, <2>2, <2>4, PutKeepsLosses
  <2> QED BY <2>1, <2>3, <2>4
<1>7. CASE PushManifest
  <2>1. UNCHANGED <<cas, legacy, files, repair, unseen>> /\ push.pc # "idle"
    BY <1>7 DEF PushManifest, volume
  <2>2. /\ UNCHANGED <<push.list, push.publish, push.man, push.misfit, push.repair>>
        /\ push'.pc = "save"
        /\ manifest' = manifest \/ (push.publish /\ manifest' = Rewritten)
    BY <1>0, <1>7, ManifestDoes
  <2>3. manifest' = manifest \/ (push.publish /\ manifest' = Rewritten) BY <2>2
  <2>4. UNCHANGED <<push.list, push.publish, push.man, push.misfit, push.repair>> BY <2>2
  <2>6. push'.pc # "idle" /\ push.pc # "idle" BY <2>1, <2>2
  <2>5. \A r \in Rels : files'[r] \in {files[r], 0} BY <2>1
  <2> QED BY <2>1, <2>3, <2>4, <2>5, <2>6, LossesKeep
<1>8. CASE PushSave
  <2>1. UNCHANGED <<cas, legacy, manifest, files>> /\ push.pc = "save"
    BY <1>8 DEF PushSave, bucket
  <2>2. /\ push' = Idle /\ unseen' = unseen \cup ((push.repair \cap push.list) \ repair')
    BY <1>0, <1>8, SaveDoes
  <2>3. \A r \in Rels : Noted(r) => Noted(r)' BY <2>1, <2>2, IdleIsTyped DEF Noted
  <2> QED BY <2>1, <2>2, <2>3, IdleIsTyped DEF Losses, Present, Held
<1> QED BY <1>1, <1>3, <1>4, <1>5, <1>6, <1>7, <1>8 DEF PushStep

LEMMA LossStep ==
  ASSUME BaseInv, Late, Losses, [Next]_vars
  PROVE  Losses'
<1>0. TypeOK /\ Keyed /\ Quiet BY DEF BaseInv
<1>1. ASSUME NEW r \in Rels, Write(r) \/ Unlink(r) PROVE Losses'
  <2>1. /\ UNCHANGED <<cas, legacy, manifest, repair, unseen>>
        /\ UNCHANGED <<push.pc, push.list, push.publish, push.man, push.misfit, push.repair>>
        /\ \A q \in Rels \ {r} : files'[q] = files[q]
        /\ files'[r] \in Nat
        /\ \/ files'[r] = 0
           \/ files'[r] > manifest.entries[r] /\ files'[r] > push.man[r]
    BY <1>1, TouchedFile
  <2>2. manifest.entries[r] \in Nat /\ push.man[r] \in Nat BY <1>0, Bounds DEF TypeOK, Pushes
  <2>3. \A q \in Rels : files'[q] \in {files[q], 0}
                          \/ files'[q] \notin {manifest'.entries[q], push'.man[q]}
    BY <2>1, <2>2
  <2> QED BY <2>1, <2>3, LossesKeep
<1>2. ASSUME NEW r \in Rels, Lose(r) PROVE Losses'
  <2>1. /\ UNCHANGED <<manifest, files, repair, push>> /\ unseen' = unseen \cup {r}
    BY <1>2 DEF Lose, volume
  <2>2. \A q \in Rels \ {r} : cas'[q] = cas[q] /\ legacy'[q] = legacy[q] BY <1>0, <1>2, LoseDoes
  <2>3. \A q \in Rels : Noted(q) => Noted(q)' BY <2>1 DEF Noted
  <2>4. \A q \in Rels \ {r} : Held(q, files[q]) => Held(q, files[q])' BY <2>1, <2>2 DEF Held
  <2>5. Noted(r)' BY <2>1 DEF Noted
  <2> QED BY <2>1, <2>3, <2>4, <2>5 DEF Losses, Present
<1>3. CASE PushAborts \/ Crash
  <2>1. UNCHANGED <<cas, legacy, manifest, files, repair, unseen>> /\ push' = Idle
    BY <1>3 DEF PushAborts, Crash, bucket, volume
  <2>2. \A q \in Rels : Noted(q) => Noted(q)' BY <2>1, IdleIsTyped DEF Noted
  <2> QED BY <2>1, <2>2, IdleIsTyped DEF Losses, Present, Held
<1>4. CASE Wipe BY <1>4, Empty DEF Wipe, Losses, Present
<1>5. CASE Garble
  <2>1. UNCHANGED <<cas, legacy, files, repair, unseen, push>> /\ manifest'.entries = Nothing
    BY <1>5 DEF Garble, volume
  <2>2. \A r \in Rels : manifest'.entries[r] = 0 BY <2>1, Empty
  <2> QED BY <2>1, <2>2, LossesKeep
<1>6. CASE Stop \/ UNCHANGED vars
  <2>1. UNCHANGED <<cas, legacy, manifest, files, repair, unseen, push>>
    BY <1>6 DEF Stop, vars, bucket, volume, aux
  <2> QED BY <2>1, LossesKeep
<1> QED
  BY <1>1, <1>2, <1>3, <1>4, <1>5, <1>6, PullKeepsLosses, PushKeepsLosses DEF Next, World

LEMMA LossesSuffice == ASSUME BaseInv, Losses PROVE LossIsRecorded
BY DEF Losses, Noted, LossIsRecorded, Present

-----------------------------------------------------------------------------
(* Skips.  While no object is lost, what any record names of a file that is *)
(* there as named is held.                                                 *)

Skips ==
  \A r \in Present(files) :
    files[r] \in {push.man[r], shadow[r], manifest.entries[r]} => Held(r, files[r])

LEMMA SkipsKeep ==
  ASSUME Skips, UNCHANGED <<cas, legacy>>,
         \A r \in Rels : files'[r] \in {files[r], 0} \/ Held(r, files'[r])
                           \/ files'[r] \notin {push'.man[r], shadow'[r], manifest'.entries[r]},
         \A r \in Rels : {push'.man[r], shadow'[r], manifest'.entries[r]}
                           \subseteq {push.man[r], shadow[r], manifest.entries[r], 0}
  PROVE  Skips'
BY DEF Skips, Present, Held

LEMMA PutKeepsSkips ==
  ASSUME BaseInv, Late, Skips, push.pc = "put", files[push.rel] # 0, Upload,
         UNCHANGED <<manifest, volume>>,
         push'.man \in {push.man, [push.man EXCEPT ![push.rel] = push.hash]}
  PROVE  Skips'
<1>0. /\ TypeOK /\ Keyed BY DEF BaseInv
<1>1. UNCHANGED <<files, shadow, manifest>> BY DEF volume
<1> SUFFICES ASSUME NEW r \in Rels, NEW f, f = files[r], f # 0,
                    f \in {push'.man[r], shadow[r], manifest.entries[r]}
             PROVE  Held(r, f)'
  BY <1>1 DEF Skips, Present, Held
<1>2. CASE r # push.rel
  <2>1. push'.man[r] = push.man[r] BY <1>0, <1>2 DEF TypeOK, Pushes
  <2>2. Held(r, f) BY <2>1 DEF Skips, Present
  <2> QED BY <1>0, <1>2, <2>2, UploadKeeps
<1>3. CASE r = push.rel /\ (f = push.hash \/ ~push.publish) BY <1>0, <1>3, UploadHolds
<1>4. CASE r = push.rel /\ f # push.hash
  <2>1. f > manifest.entries[r] /\ f > push.man[r] /\ f > shadow[r] BY <1>4 DEF Late
  <2>2. push'.man[r] \in {push.man[r], push.hash} BY <1>0, <1>4 DEF TypeOK, Pushes
  <2>3. f \in Nat /\ manifest.entries[r] \in Nat /\ push.man[r] \in Nat /\ shadow[r] \in Nat
    <3>1. /\ files \in [Rels -> Content] /\ manifest.entries \in [Rels -> Content]
          /\ push.man \in [Rels -> Content] /\ shadow \in [Rels -> Content]
      BY <1>0 DEF TypeOK, Pushes
    <3> QED BY <3>1, Bounds
  <2> QED BY <1>4, <2>1, <2>2, <2>3
<1> QED BY <1>2, <1>3, <1>4

LEMMA SkipStep ==
  ASSUME BaseInv, Late, Skips, [Next]_vars, "lose" \notin Faults
  PROVE  Skips'
<1>0. TypeOK /\ Keyed /\ Quiet BY DEF BaseInv
<1>1. ASSUME UNCHANGED <<cas, legacy, manifest, shadow, push>>,
             \A r \in Rels : files'[r] \in {files[r], 0} \/ Held(r, files'[r])
      PROVE  Skips'
  BY <1>1, SkipsKeep
<1>2. CASE PullStep
  <2>1. UNCHANGED <<cas, legacy, manifest, shadow, push>>
    BY <1>2
    DEF PullStep, PullStart, PullFails, PullFile, Reconcile, ReconcileSkipped, bucket, volume
  <2>2. \A r \in Rels : files'[r] = files[r] \/ Held(r, files'[r])
    <3>1. ASSUME NEW r \in Rels, files'[r] = Newest(r), files'[r] # 0 PROVE Held(r, files'[r])
      BY <1>0, <3>1, NewestIsHeld DEF Held, InCas
    <3> QED
      BY <1>0, <1>2, <3>1, PullDoes, ReconcileDoes
      DEF PullStep, PullStart, PullFails, ReconcileSkipped, volume
  <2> QED BY <1>1, <2>1, <2>2
<1>3. ASSUME UNCHANGED <<cas, legacy, files>>,
             \A r \in Rels : {push'.man[r], shadow'[r], manifest'.entries[r]}
                               \subseteq {push.man[r], shadow[r], manifest.entries[r], 0}
      PROVE  Skips'
  BY <1>3, SkipsKeep
<1>4. CASE PushStart
  <2>1. UNCHANGED <<cas, legacy, manifest, files, shadow>> BY <1>4 DEF PushStart, bucket, volume
  <2>2. push'.man \in {manifest.entries, Nothing, shadow} BY <1>0, <1>4, StartDoes
  <2>3. \A r \in Rels : {push'.man[r], shadow'[r], manifest'.entries[r]}
                          \subseteq {push.man[r], shadow[r], manifest.entries[r], 0}
    BY <2>1, <2>2, Empty
  <2> QED BY <1>3, <2>1, <2>3
<1>5. ASSUME UNCHANGED <<cas, legacy, manifest, files, shadow, push.man>> PROVE Skips'
  BY <1>3, <1>5
<1>6. ASSUME NEW r \in Rels, PushFile(r) PROVE Skips'
  BY <1>0, <1>5, <1>6, FileDoes DEF PushFile, bucket, volume
<1>7. CASE PushHash BY <1>0, <1>5, <1>7, HashDoes DEF PushHash, bucket, volume
<1>8. CASE PushPut
  <2>1. /\ push.pc = "put" /\ files[push.rel] # 0 /\ Upload /\ UNCHANGED <<manifest, volume>>
    BY <1>8 DEF PushPut
  <2>2. push'.man = [push.man EXCEPT ![push.rel] = push.hash] BY <1>0, <1>8, PutDoes
  <2> QED BY <2>1, <2>2, PutKeepsSkips
<1>9. CASE PushPutFails
  <2>1. /\ push.pc = "put" /\ UNCHANGED <<manifest, volume>>
        /\ UNCHANGED <<cas, legacy>> \/ (files[push.rel] # 0 /\ Upload)
    BY <1>9 DEF PushPutFails
  <2>2. push'.man = push.man BY <1>0, <1>9, PutFailsDoes
  <2>3. CASE UNCHANGED <<cas, legacy>> BY <1>5, <2>1, <2>2, <2>3 DEF volume
  <2>4. CASE files[push.rel] # 0 /\ Upload BY <2>1, <2>2, <2>4, PutKeepsSkips
  <2> QED BY <2>1, <2>3, <2>4
<1>10. CASE PushManifest
  <2>1. UNCHANGED <<cas, legacy, files, shadow>> BY <1>10 DEF PushManifest, volume
  <2>2. push'.man = push.man /\ (manifest' = manifest \/ manifest'.entries = push.man)
    BY <1>0, <1>10, ManifestDoes DEF Rewritten
  <2> QED BY <1>3, <2>1, <2>2
<1>11. CASE PushSave
  <2>1. UNCHANGED <<cas, legacy, manifest, files>> BY <1>11 DEF PushSave, bucket
  <2>2. /\ push'.man = Nothing /\ shadow' \in {shadow, Nothing, Pending}
        /\ \A r \in Rels : Pending[r] \in {push.man[r], 0}
    BY <1>0, <1>11, SaveDoes, IdleIsTyped
  <2>3. \A r \in Rels : {push'.man[r], shadow'[r], manifest'.entries[r]}
                          \subseteq {push.man[r], shadow[r], manifest.entries[r], 0}
    BY <2>1, <2>2, Empty
  <2> QED BY <1>3, <2>1, <2>3
<1>12. ASSUME NEW r \in Rels, Write(r) \/ Unlink(r) PROVE Skips'
  <2>1. /\ UNCHANGED <<cas, legacy, manifest, shadow, push.man>>
        /\ \A q \in Rels \ {r} : files'[q] = files[q]
        /\ files'[r] \in Nat
        /\ \/ files'[r] = 0
           \/ /\ files'[r] > manifest.entries[r] /\ files'[r] > push.man[r]
              /\ files'[r] > shadow[r]
    BY <1>12, TouchedFile
  <2>2. manifest.entries[r] \in Nat /\ push.man[r] \in Nat /\ shadow[r] \in Nat
    <3>1. /\ manifest.entries \in [Rels -> Content]
          /\ push.man \in [Rels -> Content] /\ shadow \in [Rels -> Content]
      BY <1>0 DEF TypeOK, Pushes
    <3> QED BY <3>1, Bounds
  <2>3. \A q \in Rels : files'[q] \in {files[q], 0}
                          \/ files'[q] \notin {push'.man[q], shadow'[q], manifest'.entries[q]}
    BY <2>1, <2>2
  <2> QED BY <2>1, <2>3, SkipsKeep
<1>13. CASE PushAborts \/ Crash
  <2>1. UNCHANGED <<cas, legacy, manifest, files, shadow>> /\ push' = Idle
    BY <1>13 DEF PushAborts, Crash, bucket, volume
  <2> QED BY <1>3, <2>1, IdleIsTyped, Empty
<1>14. CASE Wipe BY <1>14, Empty DEF Wipe, Skips, Present
<1>15. CASE Garble
  <2>1. UNCHANGED <<cas, legacy, files, shadow, push>> /\ manifest'.entries = Nothing
    BY <1>15 DEF Garble, volume
  <2> QED BY <1>3, <2>1, Empty
<1>16. CASE Stop \/ UNCHANGED vars
  <2>1. UNCHANGED <<cas, legacy, manifest, files, shadow, push>>
    BY <1>16 DEF Stop, vars, bucket, volume
  <2> QED BY <1>5, <2>1
<1> QED
  BY <1>2, <1>4, <1>6, <1>7, <1>8, <1>9, <1>10, <1>11, <1>12, <1>13, <1>14, <1>15, <1>16
  DEF Next, PushStep, World, Lose, Fault

LEMMA SkipsSuffice == ASSUME Skips PROVE SkipsAreHeld
BY DEF Skips, SkipsAreHeld, Records

-----------------------------------------------------------------------------
(* The manifest.  What it names is held by content-addressed objects, and,  *)
(* where every GET succeeds, also by path-keyed ones: only then does a push *)
(* that knows of no manifest, and uploads in place, mean there is none.     *)

Named ==
  /\ "lose" \notin Faults /\ "race" \notin Faults
  /\ "get" \in Faults => "inherited" \notin Layouts

Kept(r, h) == InCas(r, h) \/ ("get" \notin Faults /\ legacy[r] = h)
Covers(f) == \A r \in Present(f) : Kept(r, f[r])

\* What is uploaded is what was hashed.
Steady == push.pc = "put" => files[push.rel] \in {0, push.hash}

InPlace ==
  "get" \notin Faults /\ push.pc # "idle" /\ ~push.publish => manifest.state # "ok"

ManifestInv ==
  /\ Covers(manifest.entries)
  /\ push.publish => Covers(push.man)
  /\ Steady /\ InPlace

LEMMA SteadyStep ==
  ASSUME BaseInv, Named, Steady, [Next]_vars
  PROVE  Steady'
<1>0. TypeOK /\ Quiet BY DEF BaseInv
<1>1. ASSUME push'.pc # "put" PROVE Steady' BY <1>1 DEF Steady
<1>2. CASE PushHash BY <1>0, <1>2, HashDoes DEF PushHash, volume, Steady
<1>3. CASE PushStep /\ ~PushHash
  <2>1. push'.pc # "put"
    BY <1>0, <1>3, StartDoes, FileDoes, PutDoes, PutFailsDoes, ManifestDoes, SaveDoes, IdleIsTyped
    DEF PushStep
  <2> QED BY <1>1, <2>1
<1>4. ASSUME NEW r \in Rels, Write(r) \/ Unlink(r) PROVE Steady'
  <2>1. /\ UNCHANGED <<push.pc, push.rel, push.hash>>
        /\ \A q \in Rels \ {r} : files'[q] = files[q]
    BY <1>4, TouchedFile
  <2>2. push.pc = "put" => push.rel \in Rels BY <1>0 DEF TypeOK
  <2>3. push.pc = "put" /\ push.rel = r => files'[r] = 0
    <3>1. ASSUME push.pc = "put", push.rel = r, Write(r) PROVE FALSE
      BY <3>1 DEF Write, Fault, Named
    <3>2. Unlink(r) => files'[r] = 0 BY <1>0 DEF Unlink, TypeOK
    <3> QED BY <1>4, <3>1, <3>2
  <2> QED BY <2>1, <2>2, <2>3 DEF Steady
<1>5. CASE PullStep
  <2>1. UNCHANGED push /\ mode # "serving"
    BY <1>5 DEF PullStep, PullStart, PullFails, PullFile, Reconcile, ReconcileSkipped
  <2> QED BY <1>0, <1>1, <2>1 DEF Quiet
<1>6. CASE PushAborts \/ Crash BY <1>1, <1>6, IdleIsTyped DEF PushAborts, Crash
<1>7. CASE Wipe BY <1>0, <1>1, <1>7 DEF Wipe, Quiet
<1>8. CASE UNCHANGED <<files, push>> BY <1>8 DEF Steady
<1> QED
  BY <1>2, <1>3, <1>4, <1>5, <1>6, <1>7, <1>8 DEF Next, World, Stop, Lose, Garble, vars, volume

LEMMA InPlaceStep ==
  ASSUME BaseInv, InPlace, [Next]_vars
  PROVE  InPlace'
<1>0. TypeOK /\ Quiet BY DEF BaseInv
<1>1. ASSUME push'.pc = "idle" PROVE InPlace' BY <1>1 DEF InPlace
<1>2. CASE PushStart
  <2>1. ~push'.publish => manifest.state # "ok" \/ "get" \in Faults
    BY <1>0, <1>2, StartDoes DEF Fault
  <2> QED BY <1>2, <2>1 DEF InPlace, PushStart, bucket
<1>3. ASSUME push.pc # "idle", push'.publish = push.publish,
             manifest' = manifest \/ push.publish \/ manifest'.state # "ok"
      PROVE  InPlace'
  BY <1>3 DEF InPlace
<1>4. CASE PushStep /\ ~PushStart /\ ~PushSave
  <2>1. push.pc # "idle"
    BY <1>4 DEF PushStep, PushFile, PushHash, PushPut, PushPutFails, PushManifest
  <2>2. push'.publish = push.publish
    BY <1>0, <1>4, FileDoes, HashDoes, PutDoes, PutFailsDoes, ManifestDoes DEF PushStep
  <2>3. manifest' = manifest \/ push.publish
    BY <1>0, <1>4, ManifestDoes
    DEF PushStep, PushFile, PushHash, PushPut, PushPutFails, bucket
  <2> QED BY <1>3, <2>1, <2>2, <2>3
<1>5. CASE PushSave BY <1>0, <1>1, <1>5, SaveDoes, IdleIsTyped
<1>6. ASSUME NEW r \in Rels, Write(r) \/ Unlink(r) PROVE InPlace'
  BY <1>6, TouchedFile DEF InPlace
<1>7. CASE PushAborts \/ Crash BY <1>1, <1>7, IdleIsTyped DEF PushAborts, Crash
<1>8. CASE UNCHANGED push /\ (manifest' = manifest \/ manifest'.state # "ok") BY <1>8 DEF InPlace
<1> QED
  BY <1>2, <1>4, <1>5, <1>6, <1>7, <1>8
  DEF Next, World, PullStep, PullStart, PullFails, PullFile, Reconcile, ReconcileSkipped, Stop, Lose,
      Wipe, Garble, vars, bucket

LEMMA KeptStays ==
  ASSUME UNCHANGED <<cas, legacy>>
  PROVE  \A r, h : Kept(r, h)' <=> Kept(r, h)
BY DEF Kept, InCas

LEMMA UploadCovers ==
  ASSUME TypeOK, Keyed, Steady, push.pc = "put", files[push.rel] # 0, Upload,
         NEW r \in Rels, NEW h, Kept(r, h), push.publish \/ "get" \in Faults
  PROVE  Kept(r, h)'
<1>1. files[push.rel] = push.hash /\ push.rel \in Rels BY DEF Steady, TypeOK
<1>2. CASE push.publish
  <2>1. /\ legacy' = legacy /\ \A q \in Rels \ {push.rel} : cas'[q] = cas[q]
        /\ ToSet(cas'[push.rel]) =
             {o \in ToSet(cas[push.rel]) : o.hash # push.hash}
               \cup {[hash |-> push.hash, data |-> files[push.rel]]}
    BY <1>2, UploadDoes
  <2> QED BY <1>1, <2>1 DEF Kept, InCas
<1>3. CASE ~push.publish
  <2>1. cas' = cas BY <1>3, UploadDoes
  <2> QED BY <1>3, <2>1 DEF Kept, InCas
<1> QED BY <1>2, <1>3

LEMMA PutKeepsManifest ==
  ASSUME BaseInv, ManifestInv, push.pc = "put", files[push.rel] # 0, Upload, UNCHANGED manifest,
         push'.publish = push.publish,
         push'.man \in {push.man, [push.man EXCEPT ![push.rel] = push.hash]}
  PROVE  Covers(manifest.entries)' /\ (push'.publish => Covers(push.man)')
<1>0. /\ TypeOK /\ Keyed /\ Steady /\ InPlace /\ Read BY DEF BaseInv, ManifestInv
<1>1. Covers(manifest.entries)'
  <2> SUFFICES ASSUME NEW r \in Rels, NEW h, h = manifest.entries[r], h # 0
               PROVE  Kept(r, h)'
    BY DEF Covers, Present, Kept, InCas
  <2>1. Kept(r, h) BY DEF ManifestInv, Covers, Present
  <2>2. push.publish \/ "get" \in Faults BY <1>0, Empty DEF InPlace, Read
  <2> QED BY <1>0, <2>1, <2>2, UploadCovers
<1>2. ASSUME push.publish PROVE Covers(push.man)'
  <2> SUFFICES ASSUME NEW r \in Rels, NEW h, h = push'.man[r], h # 0
               PROVE  Kept(r, h)'
    BY DEF Covers, Present, Kept, InCas
  <2>1. CASE h = push.man[r]
    <3>1. Kept(r, h) BY <1>2, <2>1 DEF ManifestInv, Covers, Present
    <3> QED BY <1>0, <1>2, <3>1, UploadCovers
  <2>2. CASE r = push.rel /\ h = push.hash
    <3>1. files[push.rel] = push.hash BY <1>0 DEF Steady
    <3>2. InCas(r, h)' BY <1>0, <1>2, <2>2, <3>1, UploadHolds
    <3> QED BY <3>2 DEF Kept
  <2>3. h = push.man[r] \/ (r = push.rel /\ h = push.hash) BY <1>0 DEF TypeOK, Pushes
  <2> QED BY <2>1, <2>2, <2>3
<1> QED BY <1>1, <1>2

LEMMA ManifestStep ==
  ASSUME BaseInv, Named, ManifestInv, [Next]_vars
  PROVE  ManifestInv'
<1>0. /\ TypeOK /\ Keyed /\ Quiet /\ Covers(manifest.entries) /\ (push.publish => Covers(push.man))
      /\ Steady' /\ InPlace'
  BY SteadyStep, InPlaceStep DEF BaseInv, ManifestInv
<1>1. ASSUME UNCHANGED <<cas, legacy>>,
             manifest'.entries \in {manifest.entries, Nothing}
               \/ (push.publish /\ manifest'.entries = push.man),
             push'.publish => push'.man \in {manifest.entries, Nothing}
               \/ (push.publish /\ push'.man = push.man)
      PROVE  ManifestInv'
  <2>1. \A r, h : Kept(r, h)' <=> Kept(r, h) BY <1>1, KeptStays
  <2>2. Covers(manifest.entries)' BY <1>0, <1>1, <2>1, Empty DEF Covers, Present
  <2>3. push'.publish => Covers(push.man)' BY <1>0, <1>1, <2>1, Empty DEF Covers, Present
  <2> QED BY <1>0, <2>2, <2>3 DEF ManifestInv
<1>2. CASE PullStep
  BY <1>1, <1>2
  DEF PullStep, PullStart, PullFails, PullFile, Reconcile, ReconcileSkipped, bucket
<1>3. CASE PushStart BY <1>0, <1>1, <1>3, StartDoes DEF PushStart, bucket
<1>4. ASSUME NEW r \in Rels, PushFile(r) PROVE ManifestInv'
  BY <1>0, <1>1, <1>4, FileDoes DEF PushFile, bucket
<1>5. CASE PushHash BY <1>0, <1>1, <1>5, HashDoes DEF PushHash, bucket
<1>6. CASE PushPut
  <2>1. push.pc = "put" /\ files[push.rel] # 0 /\ Upload /\ UNCHANGED manifest
    BY <1>6 DEF PushPut
  <2>2. push'.publish = push.publish /\ push'.man = [push.man EXCEPT ![push.rel] = push.hash]
    BY <1>0, <1>6, PutDoes
  <2> QED BY <1>0, <2>1, <2>2, PutKeepsManifest DEF ManifestInv
<1>7. CASE PushPutFails
  <2>1. /\ push.pc = "put" /\ UNCHANGED manifest
        /\ UNCHANGED <<cas, legacy>> \/ (files[push.rel] # 0 /\ Upload)
    BY <1>7 DEF PushPutFails
  <2>2. push'.publish = push.publish /\ push'.man = push.man BY <1>0, <1>7, PutFailsDoes
  <2>3. CASE UNCHANGED <<cas, legacy>> BY <1>1, <2>1, <2>2, <2>3
  <2>4. CASE files[push.rel] # 0 /\ Upload
    BY <1>0, <2>1, <2>2, <2>4, PutKeepsManifest DEF ManifestInv
  <2> QED BY <2>1, <2>3, <2>4
<1>8. CASE PushManifest
  <2>1. UNCHANGED <<cas, legacy>> BY <1>8 DEF PushManifest
  <2>2. /\ push'.publish = push.publish /\ push'.man = push.man
        /\ manifest' = manifest \/ (push.publish /\ manifest'.entries = push.man)
    BY <1>0, <1>8, ManifestDoes DEF Rewritten
  <2> QED BY <1>1, <2>1, <2>2
<1>9. CASE PushSave \/ PushAborts \/ Crash
  <2>1. UNCHANGED bucket /\ push' = Idle
    BY <1>0, <1>9 DEF PushSave, PushAborts, Crash
  <2> QED BY <1>1, <2>1, IdleIsTyped DEF bucket
<1>10. ASSUME NEW r \in Rels, Write(r) \/ Unlink(r) PROVE ManifestInv'
  BY <1>1, <1>10, TouchedFile
<1>11. CASE Garble BY <1>1, <1>11 DEF Garble
<1>12. CASE Stop \/ Wipe \/ UNCHANGED vars BY <1>1, <1>12 DEF Stop, Wipe, vars, bucket
<1> QED
  BY <1>2, <1>3, <1>4, <1>5, <1>6, <1>7, <1>8, <1>9, <1>10, <1>11, <1>12
  DEF Next, PushStep, World, Lose, Fault, Named

LEMMA ManifestSuffices == ASSUME ManifestInv PROVE ManifestHeld
BY DEF ManifestInv, Covers, Kept, InCas, ManifestHeld, Held

-----------------------------------------------------------------------------
(* Sizes.  A push that has read a file's metadata records the size of the   *)
(* content it hashes, unless the file is resized in between.               *)

SizeInv ==
  /\ manifest.misfit = {} /\ push.misfit = {}
  /\ push.pc \in {"hash", "put"} => push.sized

LEMMA SizeStep ==
  ASSUME BaseInv, SizeInv, [Next]_vars, "resize" \notin Faults
  PROVE  SizeInv'
<1>0. TypeOK /\ Quiet BY DEF BaseInv
<1>1. CASE PullStep \/ UNCHANGED vars
  BY <1>1
  DEF PullStep, PullStart, PullFails, PullFile, Reconcile, ReconcileSkipped, SizeInv, vars, bucket
<1>2. CASE PushStart BY <1>0, <1>2, StartDoes DEF PushStart, SizeInv, bucket
<1>3. ASSUME NEW r \in Rels, PushFile(r) PROVE SizeInv'
  <2>1. push'.misfit = push.misfit /\ push'.pc \in {"file", "hash"} BY <1>0, <1>3, FileDoes
  <2>2. push'.pc = "hash" => push'.sized BY <1>0, <1>3, FileDoes
  <2> QED BY <1>3, <2>1, <2>2 DEF PushFile, SizeInv, bucket
<1>4. CASE PushHash
  <2>1. push.pc = "hash" BY <1>4 DEF PushHash
  <2>2. push'.misfit = push.misfit /\ push'.sized = push.sized BY <1>0, <1>4, HashDoes
  <2> QED BY <1>4, <2>1, <2>2 DEF PushHash, SizeInv, bucket
<1>5. CASE PushPut
  <2>1. push.pc = "put" /\ UNCHANGED manifest BY <1>5 DEF PushPut
  <2>2. push.sized /\ push'.misfit \subseteq push.misfit /\ push'.pc = "file"
    BY <1>0, <1>5, <2>1, PutDoes DEF SizeInv
  <2> QED BY <2>1, <2>2 DEF SizeInv
<1>6. CASE PushPutFails BY <1>0, <1>6, PutFailsDoes DEF PushPutFails, SizeInv
<1>7. CASE PushManifest
  <2>1. push'.misfit = push.misfit /\ push'.pc = "save" /\ manifest'.misfit \in {manifest.misfit, push.misfit}
    BY <1>0, <1>7, ManifestDoes DEF Rewritten
  <2> QED BY <2>1 DEF SizeInv
<1>8. CASE PushSave \/ PushAborts \/ Crash
  <2>1. push' = Idle /\ UNCHANGED bucket BY <1>8 DEF PushSave, PushAborts, Crash
  <2> QED BY <2>1, IdleIsTyped DEF SizeInv, bucket
<1>9. ASSUME NEW r \in Rels, Write(r) \/ Unlink(r) PROVE SizeInv'
  <2>1. UNCHANGED <<manifest, push.pc, push.misfit>> BY <1>9, TouchedFile
  <2>2. PICK sized \in BOOLEAN :
          Touched(r, sized) /\ (sized = push.sized \/ (push.pc = "hash" /\ Fault("resize")))
    BY <1>0, <1>9, TouchPicked
  <2>3. sized = push.sized BY <2>2 DEF Fault
  <2>4. push'.sized = push.sized BY <1>0, <2>2, <2>3, TouchDoes
  <2> QED BY <2>1, <2>4 DEF SizeInv
<1>10. CASE Garble BY <1>10 DEF Garble, SizeInv
<1>11. CASE UNCHANGED <<manifest, push>> BY <1>11 DEF SizeInv
<1> QED
  BY <1>1, <1>2, <1>3, <1>4, <1>5, <1>6, <1>7, <1>8, <1>9, <1>10, <1>11
  DEF Next, PushStep, World, Stop, Wipe, Lose, bucket

-----------------------------------------------------------------------------
(* Acknowledged contents.  No file on the volume is older than what a pull  *)
(* would bring, and that is no older than what a push has reported.         *)

Orderly == Faults \cap {"get", "race", "lose", "garble"} = {}

\* What a pull brings of a file: what the manifest names, or what is under
\* its path key when there is none.
Baseline(r) == IF manifest.state = "ok" THEN manifest.entries[r] ELSE legacy[r]

Ahead == \A r \in Rels : files[r] # 0 => files[r] >= Baseline(r)
Covered == \A r \in Rels \ orphaned : acked[r] <= Baseline(r)
Behind == \A r \in Rels : shadow[r] <= legacy[r]

Pulls ==
  mode = "pull" =>
    /\ pull.known <=> manifest.state = "ok"
    /\ ~pull.known => \A r \in Rels : legacy[r] # 0 => r \in pull.todo \/ files[r] # 0

\* The manifest a push would publish takes nothing back.
Publishing ==
  push.pc # "idle" /\ push.publish =>
    /\ \A r \in Rels : files[r] # 0 => files[r] >= push.man[r]
    /\ \A r \in Rels : push.man[r] >= Baseline(r) \/ (manifest.state # "ok" /\ push.man[r] = 0)
    /\ ~push.pushed \/ (push.pc = "save" /\ ~push.failed) => push.man = manifest.entries

\* What a push without a manifest knows of is under the path keys.
Staying ==
  push.pc # "idle" /\ ~push.publish => \A r \in Rels : push.man[r] <= legacy[r]

AckInv == Ahead /\ Covered /\ Behind /\ Pulls /\ Publishing /\ Staying

LEMMA NoFault == ASSUME Orderly PROVE ~Fault("get") /\ ~Fault("race") /\ ~Fault("lose") /\ ~Fault("garble")
BY DEF Orderly, Fault

LEMMA Numbers ==
  ASSUME TypeOK
  PROVE  /\ \A r \in Rels : /\ files[r] \in Nat /\ legacy[r] \in Nat /\ shadow[r] \in Nat
                            /\ acked[r] \in Nat /\ manifest.entries[r] \in Nat
                            /\ push.man[r] \in Nat /\ Baseline(r) \in Nat
<1>1. /\ files \in [Rels -> Content] /\ legacy \in [Rels -> Content] /\ shadow \in [Rels -> Content]
      /\ acked \in [Rels -> Content] /\ manifest.entries \in [Rels -> Content]
      /\ push.man \in [Rels -> Content]
  BY DEF TypeOK, Pushes
<1> QED BY <1>1, Bounds DEF Baseline

LEMMA PullKeepsAcked ==
  ASSUME BaseInv, Orderly, AckInv, PullStep
  PROVE  AckInv'
<1>0. /\ TypeOK /\ Quiet /\ Read /\ ~Fault("get")
      /\ Ahead /\ Covered /\ Behind /\ Pulls
  BY NoFault DEF BaseInv, AckInv
<1>1. /\ UNCHANGED <<cas, legacy, manifest, shadow, push, acked, orphaned>> /\ push.pc = "idle"
  BY <1>0
  DEF PullStep, PullStart, PullFails, PullFile, Reconcile, ReconcileSkipped, bucket, volume, Quiet
<1>2. \A r \in Rels : Baseline(r)' = Baseline(r) BY <1>1 DEF Baseline
<1>3. Covered' /\ Behind' /\ Publishing' /\ Staying'
  BY <1>0, <1>1, <1>2 DEF Covered, Behind, Publishing, Staying
<1>4. ASSUME UNCHANGED files, Pulls' PROVE AckInv'
  BY <1>0, <1>2, <1>3, <1>4 DEF AckInv, Ahead
<1>5. CASE PullStart
  <2>1. PICK readable \in BOOLEAN :
          /\ readable => manifest.state = "ok"
          /\ ~readable => manifest.state # "ok" \/ Fault("get")
          /\ pull' = IF readable
                     THEN [man |-> manifest.entries, misfit |-> manifest.misfit, known |-> TRUE,
                           todo |-> Present(manifest.entries)]
                     ELSE [NoPull EXCEPT !.todo = Present(legacy)]
    BY <1>5 DEF PullStart
  <2>2. Pulls' BY <1>0, <1>1, <2>1 DEF Pulls, Present, NoPull
  <2> QED BY <1>4, <1>5, <2>2 DEF PullStart, volume
<1>6. CASE PullFails \/ ReconcileSkipped
  BY <1>4, <1>6 DEF PullFails, ReconcileSkipped, volume, Pulls
<1>7. ASSUME NEW r \in Rels, PullFile(r) PROVE AckInv'
  <2>1. /\ mode = "pull" /\ mode' = mode /\ pull' = [pull EXCEPT !.todo = @ \ {r}]
    BY <1>7 DEF PullFile
  <2>2. pull'.known = pull.known /\ pull'.todo = pull.todo \ {r} BY <1>0, <2>1 DEF TypeOK
  <2>3. /\ \A q \in Rels \ {r} : files'[q] = files[q]
        /\ \/ files'[r] = files[r]
           \/ files[r] = 0 /\ files'[r] = IF pull.known THEN pull.man[r] ELSE legacy[r]
        /\ ~pull.known /\ legacy[r] # 0 => files'[r] # 0
    BY <1>0, <1>7, PullDoes
  <2>4. (IF pull.known THEN pull.man[r] ELSE legacy[r]) = Baseline(r)
    BY <1>0, <2>1 DEF Pulls, Read, Baseline
  <2>5. Ahead' BY <1>0, <1>2, <2>3, <2>4, Numbers DEF Ahead
  <2>6. Pulls' BY <1>0, <1>1, <2>1, <2>2, <2>3 DEF Pulls
  <2> QED BY <1>3, <2>5, <2>6 DEF AckInv
<1>8. CASE Reconcile
  <2>1. mode = "pull" /\ pull.todo = {} /\ mode' = "serving" BY <1>8 DEF Reconcile
  <2>2. ASSUME NEW q \in Rels, files'[q] # 0 PROVE files'[q] >= Baseline(q)
    <3>1. CASE files'[q] = files[q] BY <1>0, <2>2, <3>1 DEF Ahead
    <3>2. CASE files[q] = 0 /\ pull.man[q] = 0 /\ files'[q] = Newest(q)
      <4>1. Baseline(q) = 0 BY <1>0, <2>1, <3>2 DEF Pulls, Read, Baseline
      <4>2. Newest(q) \in Nat BY <1>0, NewestIsHeld, Bounds
      <4> QED BY <3>2, <4>1, <4>2
    <3> QED BY <1>0, <1>8, <3>1, <3>2, ReconcileDoes
  <2>3. Ahead' BY <1>2, <2>2 DEF Ahead
  <2>4. Pulls' BY <2>1 DEF Pulls
  <2> QED BY <1>3, <2>3, <2>4 DEF AckInv
<1> QED BY <1>5, <1>6, <1>7, <1>8 DEF PullStep

\* An upload under a content-addressed key changes no baseline, and one in
\* place raises it to the file's content.
LEMMA PutKeepsAcked ==
  ASSUME BaseInv, ManifestInv, Orderly, AckInv,
         push.pc = "put", files[push.rel] # 0, Upload,
         UNCHANGED <<manifest, volume, mode, pull, acked, orphaned, push.publish>>,
         push'.pc = "file",
         \/ push'.man = push.man /\ push'.pushed = push.pushed
         \/ push'.man = [push.man EXCEPT ![push.rel] = push.hash] /\ push'.pushed
  PROVE  AckInv'
<1>0. /\ TypeOK /\ Keyed /\ Quiet /\ Steady /\ InPlace
      /\ Ahead /\ Covered /\ Behind /\ Publishing /\ Staying
  BY DEF BaseInv, ManifestInv, AckInv
<1>1. /\ UNCHANGED <<files, shadow>> /\ mode = "serving" /\ push.rel \in Rels
      /\ files[push.rel] = push.hash
  BY <1>0 DEF volume, Quiet, Steady, TypeOK
<1>2. Pulls' BY <1>1 DEF Pulls
<1>3. \A r \in Rels : push'.man[r] = push.man[r] \/ (r = push.rel /\ push'.man[r] = files[r])
  BY <1>0, <1>1 DEF TypeOK, Pushes
<1>4. CASE push.publish
  <2>1. legacy' = legacy BY <1>0, <1>4, UploadDoes
  <2>2. \A r \in Rels : Baseline(r)' = Baseline(r) BY <2>1 DEF Baseline
  <2>3. Ahead' /\ Covered' /\ Behind'
    BY <1>0, <1>1, <2>1, <2>2 DEF Ahead, Covered, Behind
  <2>4. Staying' BY <1>4 DEF Staying
  <2>5. /\ \A r \in Rels : files[r] # 0 => files[r] >= push'.man[r]
        /\ \A r \in Rels : push'.man[r] >= Baseline(r) \/ (manifest.state # "ok" /\ push'.man[r] = 0)
    BY <1>0, <1>1, <1>3, <1>4, Numbers DEF Publishing, Ahead
  <2>6. ~push'.pushed => push'.man = manifest.entries BY <1>0, <1>4 DEF Publishing
  <2>7. Publishing' BY <1>1, <2>2, <2>5, <2>6 DEF Publishing
  <2> QED BY <1>2, <2>3, <2>4, <2>7 DEF AckInv
<1>5. CASE ~push.publish
  <2>1. legacy' = [legacy EXCEPT ![push.rel] = files[push.rel]] BY <1>0, <1>5, UploadDoes
  <2>2. manifest.state # "ok" BY <1>0, <1>5 DEF InPlace, Orderly
  <2>3. \A r \in Rels : Baseline(r) = legacy[r] /\ Baseline(r)' = legacy'[r]
    BY <2>2 DEF Baseline
  <2>4. files[push.rel] >= legacy[push.rel] BY <1>0, <1>1, <2>3 DEF Ahead
  <2>5. \A r \in Rels : /\ legacy'[r] >= legacy[r] /\ legacy'[r] \in {legacy[r], files[r]}
                        /\ r = push.rel => legacy'[r] = files[r]
    BY SMTT(30), <1>0, <2>1, <2>4, Numbers DEF TypeOK
  <2>6. Ahead' BY <1>0, <1>1, <2>3, <2>5, Numbers DEF Ahead
  <2>7. Covered' BY <1>0, <2>3, <2>5, Numbers DEF Covered
  <2>8. Behind' BY <1>0, <1>1, <2>5, Numbers DEF Behind
  <2>9. Staying' BY <1>0, <1>3, <1>5, <2>5, Numbers DEF Staying
  <2>10. Publishing' BY <1>5 DEF Publishing
  <2> QED BY <1>2, <2>6, <2>7, <2>8, <2>9, <2>10 DEF AckInv
<1> QED BY <1>4, <1>5

LEMMA PushKeepsAcked ==
  ASSUME BaseInv, ManifestInv, Orderly, AckInv, PushStep
  PROVE  AckInv'
<1>0. /\ TypeOK /\ Keyed /\ Quiet /\ Read /\ Steady /\ InPlace /\ ~Fault("get")
      /\ Ahead /\ Covered /\ Behind /\ Publishing /\ Staying
  BY NoFault DEF BaseInv, ManifestInv, AckInv
<1>1. mode = "serving" /\ mode' = "serving"
  BY <1>0
  DEF PushStep, PushStart, PushFile, PushHash, PushPut, PushPutFails, PushManifest, PushSave, Quiet
<1>2. Pulls' BY <1>1 DEF Pulls
<1>3. ASSUME UNCHANGED <<legacy, manifest, files, shadow, acked, orphaned>>, Publishing', Staying'
      PROVE  AckInv'
  <2>1. \A r \in Rels : Baseline(r)' = Baseline(r) BY <1>3 DEF Baseline
  <2> QED BY <1>0, <1>2, <1>3, <2>1 DEF AckInv, Ahead, Covered, Behind
<1>4. CASE PushStart
  <2>1. UNCHANGED <<legacy, manifest, files, shadow, acked, orphaned>>
    BY <1>4 DEF PushStart, bucket, volume
  <2>2. /\ push'.pc = "file" /\ ~push'.pushed
        /\ ~push'.publish => push'.man = shadow
        /\ push'.publish => (manifest.state = "ok" /\ push'.man = manifest.entries)
                              \/ (manifest.state # "ok" /\ push'.man = Nothing)
    BY <1>0, <1>4, StartDoes
  <2>3. Staying' BY <1>0, <2>1, <2>2 DEF Staying, Behind
  <2>4. ASSUME push'.publish
        PROVE  /\ \A r \in Rels : files[r] # 0 => files[r] >= push'.man[r]
               /\ \A r \in Rels : push'.man[r] >= Baseline(r)
                                    \/ (manifest.state # "ok" /\ push'.man[r] = 0)
               /\ push'.man = manifest.entries
    BY <1>0, <2>2, <2>4, Numbers, Empty DEF Ahead, Baseline, Read
  <2>5. \A r \in Rels : Baseline(r)' = Baseline(r) BY <2>1 DEF Baseline
  <2>6. Publishing' BY <2>1, <2>4, <2>5 DEF Publishing
  <2> QED BY <1>3, <2>1, <2>3, <2>6
<1>5. ASSUME UNCHANGED <<legacy, manifest, files, shadow, acked, orphaned>>,
             push.pc # "idle", push'.pc # "save",
             UNCHANGED <<push.man, push.publish, push.pushed>>
      PROVE  AckInv'
  <2>1. Staying' BY <1>0, <1>5 DEF Staying
  <2>2. \A r \in Rels : Baseline(r)' = Baseline(r) BY <1>5 DEF Baseline
  <2>3. Publishing' BY <1>0, <1>5, <2>2 DEF Publishing
  <2> QED BY <1>3, <1>5, <2>1, <2>3
<1>6. ASSUME NEW r \in Rels, PushFile(r) PROVE AckInv'
  BY <1>0, <1>5, <1>6, FileDoes DEF PushFile, bucket, volume
<1>7. CASE PushHash BY <1>0, <1>5, <1>7, HashDoes DEF PushHash, bucket, volume
<1>8. CASE PushPut
  <2>1. /\ push.pc = "put" /\ files[push.rel] # 0 /\ Upload
        /\ UNCHANGED <<manifest, volume, mode, pull, acked, orphaned>>
    BY <1>8 DEF PushPut, aux
  <2>2. /\ push'.publish = push.publish /\ push'.pc = "file" /\ push'.pushed
        /\ push'.man = [push.man EXCEPT ![push.rel] = push.hash]
    BY <1>0, <1>8, PutDoes
  <2> QED BY <2>1, <2>2, PutKeepsAcked
<1>9. CASE PushPutFails
  <2>1. /\ push.pc = "put" /\ UNCHANGED <<manifest, volume, mode, pull, acked, orphaned>>
        /\ UNCHANGED <<cas, legacy>> \/ (files[push.rel] # 0 /\ Upload)
    BY <1>9 DEF PushPutFails
  <2>2. /\ UNCHANGED <<push.publish, push.man, push.pushed>> /\ push'.pc = "file"
    BY <1>0, <1>9, PutFailsDoes
  <2>3. CASE UNCHANGED <<cas, legacy>> BY <1>5, <2>1, <2>2, <2>3 DEF volume
  <2>4. CASE files[push.rel] # 0 /\ Upload BY <2>1, <2>2, <2>4, PutKeepsAcked
  <2> QED BY <2>1, <2>3, <2>4
<1>10. CASE PushManifest
  <2>1. /\ UNCHANGED <<legacy, files, shadow, acked>> /\ push.pc = "file"
        /\ orphaned' = orphaned \cup {r \in Present(legacy) : manifest' # manifest /\ push.man[r] = 0}
    BY <1>10 DEF PushManifest, volume
  <2>2. /\ push'.pc = "save" /\ UNCHANGED <<push.man, push.publish, push.pushed>>
        /\ manifest' = manifest \/ (push.publish /\ manifest' = Rewritten)
        /\ push.pushed /\ push.publish /\ ~push'.failed => manifest' = Rewritten
    BY <1>0, <1>10, ManifestDoes
  <2>3. Staying' BY <1>0, <2>1, <2>2 DEF Staying
  <2>4. Behind' BY <1>0, <2>1 DEF Behind
  <2>5. CASE manifest' = manifest
    <3>1. \A r \in Rels : Baseline(r)' = Baseline(r) BY <2>1, <2>5 DEF Baseline
    <3>2. Ahead' /\ Covered' BY <1>0, <2>1, <3>1 DEF Ahead, Covered
    <3>3. push.publish /\ (~push.pushed \/ ~push'.failed) => push.man = manifest.entries
      <4>1. manifest' = Rewritten => push.man = manifest.entries BY <2>5 DEF Rewritten
      <4> QED BY <1>0, <2>1, <2>2, <2>5, <4>1 DEF Publishing
    <3>4. Publishing' BY SMTT(30), <1>0, <2>1, <2>2, <2>5, <3>1, <3>3 DEF Publishing
    <3> QED BY <1>2, <2>3, <2>4, <3>2, <3>4 DEF AckInv
  <2>6. CASE push.publish /\ manifest' = Rewritten
    <3>0. manifest'.state = "ok" /\ manifest'.entries = push.man BY <2>6 DEF Rewritten
    <3>1. \A r \in Rels : Baseline(r)' = push.man[r] BY <3>0 DEF Baseline
    <3>2. /\ \A r \in Rels : files[r] # 0 => files[r] >= push.man[r]
          /\ \A r \in Rels : push.man[r] >= Baseline(r)
                               \/ (manifest.state # "ok" /\ push.man[r] = 0)
      BY <1>0, <2>1, <2>6 DEF Publishing
    <3>3. Ahead' BY <2>1, <3>1, <3>2 DEF Ahead
    <3>4. ASSUME NEW r \in Rels \ orphaned' PROVE acked[r] <= push.man[r]
      <4>1. acked[r] <= Baseline(r) BY <1>0, <2>1 DEF Covered
      <4>2. CASE push.man[r] >= Baseline(r) BY <1>0, <4>1, <4>2, Numbers
      <4>3. CASE manifest.state # "ok" /\ push.man[r] = 0
        <5>1. manifest' # manifest /\ Baseline(r) = legacy[r] BY <3>0, <4>3 DEF Baseline
        <5>2. legacy[r] = 0 BY <2>1, <4>3, <5>1 DEF Present
        <5> QED BY <4>1, <4>3, <5>1, <5>2
      <4> QED BY <3>2, <4>2, <4>3
    <3>5. Covered' BY <2>1, <3>1, <3>4 DEF Covered
    <3>6. Publishing' BY <1>0, <2>1, <2>2, <2>6, <3>0, <3>1, <3>2, Numbers DEF Publishing
    <3> QED BY <1>2, <2>3, <2>4, <3>3, <3>5, <3>6 DEF AckInv
  <2> QED BY <2>2, <2>5, <2>6
<1>11. CASE PushSave
  <2>1. UNCHANGED <<legacy, manifest, files, orphaned>> /\ push.pc = "save"
    BY <1>11 DEF PushSave, bucket
  <2>2. /\ push' = Idle
        /\ shadow' \in {shadow, Nothing} \/ (~push.publish /\ shadow' = Pending)
        /\ \A r \in Rels : Pending[r] \in {push.man[r], 0}
        /\ \A r \in Rels :
             acked'[r] = IF push.failed \/ push.man[r] = 0 THEN acked[r] ELSE push.man[r]
    BY <1>0, <1>11, SaveDoes
  <2>3. \A r \in Rels : Baseline(r)' = Baseline(r) BY <2>1 DEF Baseline
  <2>4. Publishing' /\ Staying' BY <2>2, IdleIsTyped DEF Publishing, Staying
  <2>5. Ahead' BY <1>0, <2>1, <2>3 DEF Ahead
  <2>6. Behind' BY <1>0, <2>1, <2>2, Empty, Numbers DEF Behind, Staying
  <2>7. ASSUME NEW r \in Rels, ~push.failed, push.man[r] # 0 PROVE push.man[r] <= Baseline(r)
    <3>1. CASE push.publish
      <4>1. push.man[r] = manifest.entries[r] BY <1>0, <2>1, <2>7, <3>1 DEF Publishing
      <4>2. manifest.state = "ok" BY <1>0, <2>7, <4>1, Empty DEF Read
      <4> QED BY <1>0, <4>1, <4>2, Numbers DEF Baseline
    <3>2. CASE ~push.publish
      <4>1. manifest.state # "ok" BY <1>0, <2>1, <3>2 DEF InPlace, Orderly
      <4> QED BY <1>0, <2>1, <3>2, <4>1 DEF Staying, Baseline
    <3> QED BY <3>1, <3>2
  <2>8. Covered' BY <1>0, <2>1, <2>2, <2>3, <2>7 DEF Covered
  <2> QED BY <1>2, <2>4, <2>5, <2>6, <2>8 DEF AckInv
<1> QED BY <1>4, <1>6, <1>7, <1>8, <1>9, <1>10, <1>11 DEF PushStep

LEMMA WorldKeepsAcked ==
  ASSUME BaseInv, Orderly, AckInv, World
  PROVE  AckInv'
<1>0. /\ TypeOK /\ Quiet /\ Ahead /\ Covered /\ Behind /\ Pulls /\ Publishing /\ Staying
  BY DEF BaseInv, AckInv
<1>1. ASSUME NEW r \in Rels, Write(r) \/ Unlink(r) PROVE AckInv'
  <2>1. /\ UNCHANGED <<legacy, manifest, shadow, mode, pull, acked, orphaned>>
        /\ \A q \in Rels \ {r} : files'[q] = files[q]
        /\ files'[r] \in Nat
        /\ \/ files'[r] = 0
           \/ /\ files'[r] > manifest.entries[r] /\ files'[r] > push.man[r]
              /\ files'[r] > legacy[r]
        /\ UNCHANGED <<push.pc, push.man, push.publish, push.pushed, push.failed>>
    BY <1>1, TouchedFile
  <2>2. \A q \in Rels : Baseline(q)' = Baseline(q) BY <2>1 DEF Baseline
  <2>3. files'[r] = 0 \/ files'[r] >= Baseline(r) BY <1>0, <2>1, Numbers DEF Baseline
  <2>4. Ahead' BY <1>0, <2>1, <2>2, <2>3 DEF Ahead
  <2>5. Covered' /\ Behind' /\ Staying' BY <1>0, <2>1, <2>2 DEF Covered, Behind, Staying
  <2>6. files'[r] = 0 \/ files'[r] >= push.man[r] BY <1>0, <2>1, Numbers
  <2>7. Publishing' BY <1>0, <2>1, <2>2, <2>6 DEF Publishing
  <2>8. Pulls'
    <3>1. mode' # "pull" BY <1>1 DEF Write, Unlink
    <3> QED BY <3>1 DEF Pulls
  <2> QED BY <2>4, <2>5, <2>7, <2>8 DEF AckInv
<1>2. ASSUME UNCHANGED <<legacy, manifest, acked, orphaned>>, mode' = "down",
             push'.pc = "idle", shadow' \in {shadow, Nothing},
             \A r \in Rels : files'[r] \in {files[r], 0}
      PROVE  AckInv'
  <2>1. \A q \in Rels : Baseline(q)' = Baseline(q) BY <1>2 DEF Baseline
  <2>2. Ahead' /\ Covered' BY <1>0, <1>2, <2>1 DEF Ahead, Covered
  <2>3. Behind' BY <1>0, <1>2, Empty, Numbers DEF Behind
  <2>4. Pulls' /\ Publishing' /\ Staying' BY <1>2 DEF Pulls, Publishing, Staying
  <2> QED BY <2>2, <2>3, <2>4 DEF AckInv
<1>3. CASE Stop BY <1>2, <1>3 DEF Stop, bucket, volume, aux
<1>4. CASE Crash BY <1>2, <1>4, IdleIsTyped DEF Crash, bucket, volume
<1>5. CASE Wipe BY <1>0, <1>2, <1>5, Empty DEF Wipe, bucket, Quiet
<1>6. CASE PushAborts
  <2>1. /\ UNCHANGED <<legacy, manifest, acked, orphaned, shadow, files, mode, pull>>
        /\ push'.pc = "idle"
    BY <1>6, IdleIsTyped DEF PushAborts, bucket, volume
  <2>2. \A q \in Rels : Baseline(q)' = Baseline(q) BY <2>1 DEF Baseline
  <2> QED
    BY <1>0, <2>1, <2>2 DEF AckInv, Ahead, Covered, Behind, Pulls, Publishing, Staying
<1> QED BY <1>1, <1>3, <1>4, <1>5, <1>6, NoFault DEF World, Garble, Lose

LEMMA AckStep ==
  ASSUME BaseInv, ManifestInv, Orderly, AckInv, [Next]_vars
  PROVE  AckInv'
<1>1. CASE UNCHANGED vars
  <2>1. \A q \in Rels : Baseline(q)' = Baseline(q) BY <1>1 DEF Baseline, vars, bucket
  <2> QED
    BY <1>1, <2>1
    DEF AckInv, Ahead, Covered, Behind, Pulls, Publishing, Staying, vars, bucket, volume, aux
<1> QED BY <1>1, PullKeepsAcked, PushKeepsAcked, WorldKeepsAcked DEF Next

LEMMA AckSuffices ==
  ASSUME BaseInv, ManifestInv, AckInv
  PROVE  AckedIsRestorable
<1> SUFFICES ASSUME NEW r \in Rels \ (orphaned \cup manifest.misfit) PROVE Pulled(r) >= acked[r]
  BY DEF AckedIsRestorable
<1>1. TypeOK /\ Read BY DEF BaseInv
<1>2. acked[r] <= Baseline(r) BY DEF AckInv, Covered
<1>3. Newest(r) \in Nat BY <1>1, NewestIsHeld, Bounds
<1>4. manifest.state = "ok" /\ manifest.entries[r] # 0 => Held(r, manifest.entries[r])
  BY DEF ManifestInv, Covers, Present, Kept, InCas, Held
<1> QED BY <1>1, <1>2, <1>3, <1>4, Numbers DEF Pulled, Baseline

-----------------------------------------------------------------------------
(* The theorems.                                                           *)

LEMMA Invariance == Spec => []BaseInv
BY BaseInit, BaseStep, PTL DEF Spec

LEMMA InitHolds ==
  ASSUME Init
  PROVE  /\ CacheInv /\ Late /\ Losses /\ Skips
         /\ Named => ManifestInv
         /\ SizeInv /\ AckInv
<1>1. PICK layout \in Layouts, held \in SUBSET Rels, local \in SUBSET Rels :
        LET old == [r \in Rels |-> IF r \in held THEN 1 ELSE 0]
        IN /\ local \subseteq held
           /\ legacy = old
           /\ manifest = IF layout = "inherited" THEN [state |-> "ok", entries |-> old, misfit |-> {}]
                         ELSE [state |-> "absent", entries |-> Nothing, misfit |-> {}]
           /\ files = [r \in Rels |-> IF r \in local THEN 1 ELSE 0]
           /\ cache = Nothing /\ shadow = Nothing /\ mode = "down" /\ push = Idle /\ acked = old
  BY ZenonT(30) DEF Init
<1>2. /\ push.pc = "idle" /\ ~push.publish /\ push.man = Nothing /\ push.cache = Nothing
      /\ \A r \in Rels : Nothing[r] = 0
  BY <1>1, IdleIsTyped, Empty
<1>3. \A r \in Rels : /\ files[r] \in {0, legacy[r]} /\ legacy[r] \in {0, 1}
                      /\ manifest.entries[r] \in {0, legacy[r]} /\ acked[r] = legacy[r]
                      /\ Baseline(r) = legacy[r]
  <2> SUFFICES ASSUME NEW r \in Rels
               PROVE  /\ files[r] \in {0, legacy[r]} /\ legacy[r] \in {0, 1}
                      /\ manifest.entries[r] \in {0, legacy[r]} /\ acked[r] = legacy[r]
                      /\ Baseline(r) = legacy[r]
    OBVIOUS
  <2> QED BY <1>1, Empty DEF Baseline
<1>4. CacheInv BY <1>1, <1>2 DEF CacheInv, CacheIsCurrent, Fresh
<1>5. Late BY <1>2 DEF Late
<1>6. Losses /\ Skips BY <1>1, <1>2, <1>3 DEF Losses, Skips, Present, Held
<1>7. ASSUME Named PROVE ManifestInv
  <2>1. ASSUME NEW r \in Rels, manifest.entries[r] # 0 PROVE Kept(r, manifest.entries[r])
    <3>1. layout = "inherited" BY <1>1, <1>2, <2>1
    <3>2. "get" \notin Faults BY <1>7, <3>1 DEF Named
    <3> QED BY <1>3, <2>1, <3>2 DEF Kept
  <2> QED BY <1>2, <2>1 DEF ManifestInv, Covers, Present, Steady, InPlace
<1>8. AckInv
  BY <1>1, <1>2, <1>3 DEF AckInv, Ahead, Covered, Behind, Pulls, Publishing, Staying
<1>9. SizeInv BY <1>1, <1>2, IdleIsTyped DEF SizeInv
<1> QED BY <1>4, <1>5, <1>6, <1>7, <1>8, <1>9

(* Every variable of the sync keeps its type.                              *)
THEOREM TypeCorrect == Spec => []TypeOK
BY Invariance, PTL DEF BaseInv

(* A remembered hash is the hash of the file as it is, whatever fails or is *)
(* written in between (cache.rs:1-7).                                      *)
THEOREM RememberedHashesAreCurrent == Spec => []CacheIsCurrent
<1>1. BaseInv /\ CacheInv /\ [Next]_vars => CacheInv' BY CacheStep
<1> QED BY <1>1, InitHolds, Invariance, PTL DEF Spec, CacheInv

(* A file whose object a boot found gone stays on the repair list until it  *)
(* has been uploaded, whatever fails (state.rs:261-263, 723-727).          *)
THEOREM LossesAreRecorded == Spec => []LossIsRecorded
<1>1. BaseInv /\ Late /\ Losses /\ [Next]_vars => (Late /\ Losses)'
  BY LateStep, LossStep
<1> QED BY <1>1, InitHolds, Invariance, LossesSuffice, PTL DEF Spec

(* While nobody deletes an object, no record makes a push skip a file the   *)
(* bucket does not hold (state.rs:201-203, 608-614).                       *)
THEOREM SkipsAreJustified ==
  ASSUME "lose" \notin Faults
  PROVE  Spec => []SkipsAreHeld
<1>1. BaseInv /\ Late /\ Skips /\ [Next]_vars => (Late /\ Skips)'
  BY LateStep, SkipStep
<1> QED BY <1>1, InitHolds, Invariance, SkipsSuffice, PTL DEF Spec

(* A manifest entry records a size that is not its content's only because   *)
(* a file was resized between its metadata and its hash: no failure, stop   *)
(* or crash makes one (state.rs:16-17, 624-651).                           *)
THEOREM SizesStayTrue ==
  ASSUME "resize" \notin Faults
  PROVE  Spec => []SizesAreTrue
<1>1. BaseInv /\ SizeInv /\ [Next]_vars => SizeInv' BY SizeStep
<1>2. SizeInv => SizesAreTrue BY DEF SizeInv, SizesAreTrue
<1> QED BY <1>1, <1>2, InitHolds, Invariance, PTL DEF Spec

(* What the manifest names can be fetched at every moment, where no object  *)
(* is deleted, no file is written while it is uploaded, and no GET fails in *)
(* a bucket whose manifest names path keys (state.rs:19-22, 102-105); of a  *)
(* file that was resized while it was pushed, where its size is recorded as *)
(* it is (SizesStayTrue says when that is every file).                     *)
THEOREM ManifestStaysHeld ==
  ASSUME Named
  PROVE  Spec => []ManifestHeld
<1>1. BaseInv /\ ManifestInv /\ [Next]_vars => ManifestInv' BY ManifestStep
<1> QED BY <1>1, InitHolds, Invariance, ManifestSuffices, PTL DEF Spec

(* What a push has reported as saved survives the loss of the volume, where *)
(* beyond that no GET fails and the manifest stays readable (state.rs:1-8,  *)
(* 548-551); again but for the files it records at another content's size. *)
THEOREM AckedStaysRestorable ==
  ASSUME Orderly
  PROVE  Spec => []AckedIsRestorable
<1>1. Named BY DEF Orderly, Named
<1>2. BaseInv /\ ManifestInv /\ AckInv /\ [Next]_vars => (ManifestInv /\ AckInv)'
  BY <1>1, ManifestStep, AckStep
<1> QED BY <1>1, <1>2, InitHolds, Invariance, AckSuffices, PTL DEF Spec

=============================================================================
