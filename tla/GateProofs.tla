------------------------------ MODULE GateProofs ------------------------------
(* Theorems about Gate, for any number of connections and slots, any       *)
(* timeouts and any time to live of a verdict.                             *)
EXTENDS Gate, FiniteSetTheorems, TLAPS

LEMMA Bounds ==
  /\ MaxConns \in Nat
  /\ ReadTimeout \in Nat /\ ReadTimeout > 0
  /\ ProbeTimeout \in Nat /\ ProbeTimeout > 0
  /\ Ttl \in Nat /\ Ttl > 0
BY GateAssumption

-----------------------------------------------------------------------------
(* The handled connections and their number.                               *)

LEMMA HandledIsFinite == IsFiniteSet(Handled) /\ Cardinality(Handled) \in Nat
BY GateAssumption, FS_Subset, FS_CardinalityType DEF Handled

LEMMA Enters ==
  ASSUME NEW c \in Conns, c \notin Handled, Handled' = Handled \union {c}
  PROVE  Cardinality(Handled') = Cardinality(Handled) + 1
BY HandledIsFinite, FS_AddElement

LEMMA Leaves ==
  ASSUME NEW c \in Conns, c \in Handled, Handled' = Handled \ {c}
  PROVE  Cardinality(Handled') = Cardinality(Handled) - 1
BY HandledIsFinite, FS_RemoveElement

\* A record of `conn` is replaced.
LEMMA Becomes ==
  ASSUME conn \in [Conns -> Connections], NEW c \in Conns, NEW r \in Connections,
         conn' = [conn EXCEPT ![c] = r]
  PROVE  /\ conn' \in [Conns -> Connections]
         /\ conn'[c] = r
         /\ \A d \in Conns \ {c} : conn'[d] = conn[d]
OBVIOUS

LEMMA ClosedType ==
  /\ Closed("none") \in Connections /\ Closed("200") \in Connections
  /\ Closed("503") \in Connections
  /\ \A code : Closed(code).pc = "closed" /\ Closed(code).code = code
BY Bounds DEF Closed, Connections

\* What an answer does, whoever gives it.
LEMMA AnswersKeeps ==
  ASSUME TypeOK, NEW c \in Handled, NEW code \in {"none", "200", "503"}, Answers(c, code),
         active = Cardinality(Handled)
  PROVE  /\ conn' \in [Conns -> Connections]
         /\ conn'[c] = Closed(code)
         /\ \A d \in Conns \ {c} : conn'[d] = conn[d]
         /\ Handled' = Handled \ {c}
         /\ active' \in 0 .. MaxConns
         /\ active' = Cardinality(Handled')
<1>0. c \in Conns BY DEF Handled
<1>1. Closed(code) \in Connections /\ Closed(code).pc = "closed" BY ClosedType
<1>2. /\ conn' \in [Conns -> Connections]
      /\ conn'[c] = Closed(code)
      /\ \A d \in Conns \ {c} : conn'[d] = conn[d]
  BY <1>0, <1>1, Becomes DEF Answers, TypeOK
<1>3. Handled' = Handled \ {c} BY <1>0, <1>1, <1>2 DEF Handled
<1>4. Cardinality(Handled') = Cardinality(Handled) - 1 BY <1>0, <1>3, Leaves
<1>5. active' = active - 1 BY DEF Answers
<1>6. Cardinality(Handled') \in Nat
  BY <1>3, HandledIsFinite, FS_RemoveElement, FS_CardinalityType
<1> QED BY <1>2, <1>3, <1>4, <1>5, <1>6, Bounds DEF TypeOK

-----------------------------------------------------------------------------
(* What each step does to the connections: `c` moves, the others stay.     *)

Others(c) == \A d \in Conns \ {c} : conn'[d] = conn[d]

LEMMA OpensKeeps ==
  ASSUME TypeOK, NEW c \in Conns, Opens(c)
  PROVE  /\ conn' \in [Conns -> Connections] /\ Others(c)
         /\ conn[c].pc = "closed" /\ conn'[c].pc = "backlog" /\ conn'[c].status = "none"
BY Bounds DEF Opens, TypeOK, Connections, Closed, Others

LEMMA AdmitKeeps ==
  ASSUME TypeOK, NEW c \in Conns, Admit(c)
  PROVE  /\ conn' \in [Conns -> Connections] /\ Others(c)
         /\ conn[c].pc = "backlog" /\ conn'[c].pc = "reading" /\ conn'[c].age = 0
         /\ conn'[c].status = conn[c].status
BY ZenonT(30), Bounds DEF Admit, TypeOK, Connections, Others

LEMMA TurnsAwayKeeps ==
  ASSUME TypeOK, NEW c \in Conns, Reject(c) \/ SpawnFails(c)
  PROVE  /\ conn' \in [Conns -> Connections] /\ Others(c)
         /\ conn[c].pc = "backlog" /\ conn'[c].pc = "closed" /\ conn'[c].status = "none"
BY Bounds DEF Reject, SpawnFails, TypeOK, Connections, Closed, Others

LEMMA HeadAliveKeeps ==
  ASSUME TypeOK, NEW c \in Conns, HeadAlive(c)
  PROVE  /\ conn' \in [Conns -> Connections] /\ Others(c)
         /\ conn[c].pc = "reading" /\ conn'[c].pc = "asking"
         /\ conn'[c].age = conn[c].age /\ conn'[c].status = conn[c].status
BY DEF HeadAlive, TypeOK, Connections, Others

LEMMA AskProbeKeeps ==
  ASSUME TypeOK, NEW c \in Conns, AskProbe(c)
  PROVE  /\ conn' \in [Conns -> Connections] /\ Others(c)
         /\ conn[c].pc = "asking" /\ conn'[c].pc = "probing" /\ conn'[c].probe = 0
         /\ conn'[c].age = conn[c].age /\ conn'[c].status = conn[c].status
<1>1. conn[c] \in Connections BY DEF TypeOK
<1>2. conn' = [conn EXCEPT ![c] = [conn[c] EXCEPT !.pc = "probing", !.probe = 0]]
  BY DEF AskProbe, TypeOK, Connections
<1>3. [conn[c] EXCEPT !.pc = "probing", !.probe = 0] \in Connections
  <2> DEFINE r == [conn[c] EXCEPT !.pc = "probing"]
  <2>1. 0 \in 0 .. ProbeTimeout BY Bounds
  <2>2. r \in Connections BY <1>1 DEF Connections
  <2> HIDE DEF r
  <2>3. [r EXCEPT !.probe = 0] \in Connections BY <2>1, <2>2 DEF Connections
  <2> QED BY <2>3 DEF r
<1> QED BY <1>1, <1>2, <1>3, Becomes DEF AskProbe, TypeOK, Connections, Others

LEMMA VaultAnswersKeeps ==
  ASSUME TypeOK, NEW c \in Conns, VaultAnswers(c)
  PROVE  /\ conn' \in [Conns -> Connections] /\ Others(c)
         /\ conn[c].pc = "probing" /\ conn'[c].pc = "probing"
         /\ conn'[c].age = conn[c].age /\ conn'[c].probe = conn[c].probe
         /\ conn'[c].status = IF vault = "refusing" THEN "bad" ELSE "2xx"
BY DEF VaultAnswers, TypeOK, Connections, Others

LEMMA TickKeeps ==
  ASSUME TypeOK, Tick
  PROVE  /\ conn' \in [Conns -> Connections]
         /\ \A c \in Conns :
              /\ conn'[c].pc = conn[c].pc /\ conn'[c].status = conn[c].status
              /\ conn[c].pc \in {"reading", "asking", "probing"} => conn'[c].age = conn[c].age + 1
              /\ conn[c].pc = "probing" => conn'[c].probe = conn[c].probe + 1
         /\ Handled' = Handled
<1>1. ASSUME NEW c \in Conns
      PROVE  /\ conn'[c] \in Connections
             /\ conn'[c].pc = conn[c].pc /\ conn'[c].status = conn[c].status
             /\ conn[c].pc \in {"reading", "asking", "probing"} => conn'[c].age = conn[c].age + 1
             /\ conn[c].pc = "probing" => conn'[c].probe = conn[c].probe + 1
  <2>1. conn[c] \in Connections BY DEF TypeOK
  <2>2. conn[c].pc = "probing" => conn[c].probe < ProbeTimeout
    <3>1. ~Urgent(c) BY DEF Tick
    <3> QED BY <2>1, <3>1, Bounds DEF Urgent, Connections
  <2>3. CASE c \in Handled
    <3>1. conn'[c] = [conn[c] EXCEPT !.age = @ + 1,
                        !.probe = IF conn[c].pc = "probing" THEN @ + 1 ELSE @]
      BY <2>3 DEF Tick
    <3>2. /\ conn[c].age + 1 \in Nat
          /\ conn[c].pc = "probing" => conn[c].probe + 1 \in 0 .. ProbeTimeout
      BY <2>1, <2>2, Bounds DEF Connections
    <3> QED BY <2>1, <3>1, <3>2 DEF Connections
  <2>4. CASE c \notin Handled
    <3>1. conn'[c] = conn[c] BY <2>4 DEF Tick
    <3> QED BY <2>1, <2>4, <3>1 DEF Handled
  <2> QED BY <2>3, <2>4
<1>2. DOMAIN conn' = Conns /\ conn' = [c \in Conns |-> conn'[c]] BY DEF Tick
<1> QED BY <1>1, <1>2 DEF Handled

LEMMA HealthKeeps ==
  ASSUME TypeOK, [Next]_vars
  PROVE  health' \in HealthChecks
<1> USE DEF TypeOK, HealthChecks
<1>0. health \in HealthChecks OBVIOUS
<1>1. CASE Excused BY <1>1 DEF Excused
<1>2. CASE UNCHANGED health BY <1>2
<1>3. CASE HealthBegins BY <1>3, Bounds DEF HealthBegins, Off
<1>4. ASSUME NEW c \in Conns, HealthAsks(c) PROVE health' \in HealthChecks
  BY <1>4 DEF HealthAsks
<1>5. CASE HealthHears \/ HealthRefused
  <2>1. \A result \in {"healthy", "unhealthy"} : Off(result) \in HealthChecks BY DEF Off
  <2>2. ASSUME NEW excuse \in BOOLEAN, HealthWaits(excuse) PROVE health' \in HealthChecks
    BY <2>2 DEF HealthWaits, Off
  <2>3. health.excuse \in BOOLEAN OBVIOUS
  <2> QED BY <1>5, <2>1, <2>2, <2>3 DEF HealthHears, HealthRefused
<1>6. CASE Tick
  <2>1. health' \in {health, [health EXCEPT !.age = @ + 1, !.wait = @ + 1],
                      [health EXCEPT !.age = @ + 1, !.pc = "next"]}
    BY <1>6 DEF Tick
  <2>2. [health EXCEPT !.age = @ + 1] \in HealthChecks OBVIOUS
  <2>3. \A h \in HealthChecks : [h EXCEPT !.wait = h.wait + 1] \in HealthChecks
    OBVIOUS
  <2>4. \A h \in HealthChecks : [h EXCEPT !.pc = "next"] \in HealthChecks
    OBVIOUS
  <2>5. [health EXCEPT !.age = @ + 1].wait = health.wait OBVIOUS
  <2> HIDE DEF HealthChecks
  <2> QED BY <2>1, <2>2, <2>3, <2>4, <2>5
<1> QED
  BY <1>1, <1>2, <1>3, <1>4, <1>5, <1>6
  DEF Next, vars, history, Serves, Connect, Admit, Reject, SpawnFails, HeadAlive, HeadDenied,
      AskCached, AskProbe, VaultAnswers, ProbeEnds, AcceptFails, VaultChanges

-----------------------------------------------------------------------------
(* Slots and types.                                                        *)

Slots == active = Cardinality(Handled)

\* Connections that move outside the handlers, or within them.
LEMMA HandledStays ==
  ASSUME TypeOK, Slots, NEW c \in Conns, Others(c), UNCHANGED active,
         c \in Handled <=> c \in Handled'
  PROVE  Slots' /\ active' \in 0 .. MaxConns
<1>1. Handled' = Handled BY DEF Handled, Others
<1> QED BY <1>1 DEF Slots, TypeOK

LEMMA TellsTheCache ==
  ASSUME TypeOK, NEW ok \in BOOLEAN PROVE Code(ok) \in {"none", "200", "503"}
BY DEF Code

LEMMA SlotsStep ==
  ASSUME TypeOK, Slots, [Next]_vars
  PROVE  conn' \in [Conns -> Connections] /\ Slots' /\ active' \in 0 .. MaxConns
<1> DEFINE Kept == conn' \in [Conns -> Connections] /\ Slots' /\ active' \in 0 .. MaxConns
<1>0. ASSUME NEW c \in Conns, Opens(c), UNCHANGED active
      PROVE  Kept
  BY <1>0, OpensKeeps, HandledStays DEF Handled
<1>1. ASSUME NEW c \in Conns, Connect(c) PROVE Kept
  BY <1>0, <1>1 DEF Connect
<1>2. ASSUME NEW c \in Conns, HealthAsks(c) PROVE Kept
  BY <1>0, <1>2 DEF HealthAsks
<1>3. ASSUME NEW c \in Conns, Admit(c) PROVE Kept
  <2>1. Handled' = Handled \union {c} /\ c \notin Handled
    BY <1>3, AdmitKeeps DEF Handled, Others
  <2>2. Cardinality(Handled') = Cardinality(Handled) + 1 BY <2>1, Enters
  <2>3. active' = active + 1 /\ active < MaxConns BY <1>3 DEF Admit, TryAcquire
  <2> QED BY <1>3, <2>2, <2>3, AdmitKeeps, Bounds DEF Slots, TypeOK
<1>4. ASSUME NEW c \in Conns, Reject(c) \/ SpawnFails(c)
      PROVE  Kept
  BY <1>4, TurnsAwayKeeps, HandledStays DEF Handled, Reject, SpawnFails
<1>5. ASSUME NEW c \in Conns, HeadAlive(c) PROVE Kept
  BY <1>5, HeadAliveKeeps, HandledStays DEF Handled, HeadAlive
<1>6. ASSUME NEW c \in Conns, AskProbe(c) PROVE Kept
  BY <1>6, AskProbeKeeps, HandledStays DEF Handled, AskProbe
<1>7. ASSUME NEW c \in Conns, VaultAnswers(c) PROVE Kept
  BY <1>7, VaultAnswersKeeps, HandledStays DEF Handled, VaultAnswers
<1>8. ASSUME NEW c \in Conns, HeadDenied(c) \/ AskCached(c) \/ ProbeEnds(c)
      PROVE  Kept
  <2>1. c \in Handled BY <1>8 DEF HeadDenied, AskCached, ProbeEnds, Handled
  <2>2. \E code \in {"none", "200", "503"} : Answers(c, code)
    BY <1>8 DEF HeadDenied, AskCached, ProbeEnds, Code
  <2> QED BY <2>1, <2>2, AnswersKeeps DEF Slots
<1>9. CASE Tick
  BY <1>9, TickKeeps DEF Tick, Slots, TypeOK
<1>10. CASE UNCHANGED <<conn, active>>
  BY <1>10 DEF Slots, TypeOK, Handled
<1> QED
  BY <1>1, <1>2, <1>3, <1>4, <1>5, <1>6, <1>7, <1>8, <1>9, <1>10
  DEF Next, Serves, vars, AcceptFails, HealthBegins, HealthRefused, HealthHears, VaultChanges, history

LEMMA TypeStep ==
  ASSUME TypeOK, Slots, [Next]_vars
  PROVE  TypeOK' /\ Slots'
<1>1. conn' \in [Conns -> Connections] /\ Slots' /\ active' \in 0 .. MaxConns BY SlotsStep
<1>2. health' \in HealthChecks BY HealthKeeps
<1>3. awake' \in BOOLEAN /\ vault' \in Vaults /\ lock' \in Conns \union {Nobody}
  BY DEF TypeOK, Next, Serves, vars, history, Connect, HealthAsks, Admit, Reject, SpawnFails, HeadAlive,
         HeadDenied, AskCached, AskProbe, VaultAnswers, ProbeEnds, AcceptFails, HealthBegins,
         HealthRefused, HealthHears, VaultChanges, Tick
<1>4. verdict' \in [known : BOOLEAN, ok : BOOLEAN, age : 0 .. Ttl]
  <2>1. CASE Tick
    <3>1. verdict.age \in 0 .. Ttl BY DEF TypeOK
    <3>2. verdict.age < Ttl => verdict.age + 1 \in 0 .. Ttl BY <3>1, Bounds
    <3> QED BY <2>1, <3>2 DEF Tick, TypeOK
  <2>2. CASE \E c \in Conns : ProbeEnds(c)
    <3>1. \A ok \in BOOLEAN : [known |-> TRUE, ok |-> ok, age |-> 0] \in [known : BOOLEAN, ok : BOOLEAN, age : 0 .. Ttl]
      BY Bounds
    <3> QED BY <2>2, <3>1 DEF ProbeEnds
  <2>3. CASE UNCHANGED verdict BY <2>3 DEF TypeOK
  <2> QED
    BY <2>1, <2>2, <2>3
    DEF Next, Serves, vars, history, Connect, HealthAsks, Admit, Reject, SpawnFails, HeadAlive,
        HeadDenied, AskCached, AskProbe, VaultAnswers, AcceptFails, HealthBegins,
        HealthRefused, HealthHears, VaultChanges
<1>5. good' \in 0 .. Horizon /\ bad' \in 0 .. Horizon /\ quiet' \in 0 .. Ttl
  <2> Horizon \in Nat BY Bounds DEF Horizon
  <2>1. CASE Tick
    <3>1. \A n \in 0 .. Horizon : Older(n) \in 0 .. Horizon BY DEF Older
    <3>2. 0 \in 0 .. Horizon /\ \A n \in 0 .. Ttl : n < Ttl => n + 1 \in 0 .. Ttl BY Bounds
    <3> QED BY <2>1, <3>1, <3>2 DEF Tick, TypeOK
  <2>2. CASE VaultChanges BY <2>2 DEF VaultChanges, TypeOK
  <2>3. CASE \E c \in Conns : AskProbe(c) BY <2>3, Bounds DEF AskProbe, TypeOK
  <2>4. CASE UNCHANGED history BY <2>4 DEF history, TypeOK
  <2> QED
    BY <2>1, <2>2, <2>3, <2>4
    DEF Next, Serves, vars, history, Connect, HealthAsks, Admit, Reject, SpawnFails, HeadAlive,
        HeadDenied, AskCached, VaultAnswers, ProbeEnds, AcceptFails, HealthBegins, HealthRefused, HealthHears
<1> QED BY <1>1, <1>2, <1>3, <1>4, <1>5 DEF TypeOK

-----------------------------------------------------------------------------
(* The mutex: whoever probes holds it, and only who probes has an answer.  *)

Locked ==
  /\ lock # Nobody => conn[lock].pc = "probing"
  /\ \A c \in Conns : conn[c].pc = "probing" => c = lock
  /\ \A c \in Conns : conn[c].pc # "probing" => conn[c].status = "none"

LEMMA NobodyProbes == ASSUME TypeOK, Locked PROVE lock = Nobody <=> \A c \in Conns : conn[c].pc # "probing"
BY GateAssumption DEF TypeOK, Locked

\* A connection that does not probe moves to where it does not either.
LEMMA LockedStays ==
  ASSUME TypeOK, Locked, NEW c \in Conns, Others(c), UNCHANGED lock,
         conn[c].pc # "probing", conn'[c].pc # "probing", conn'[c].status = "none"
  PROVE  Locked'
BY GateAssumption DEF TypeOK, Locked, Others

LEMMA ClosedStatus == \A code : Closed(code).status = "none"
BY DEF Closed

LEMMA LockedStep ==
  ASSUME TypeOK, Slots, Locked, [Next]_vars
  PROVE  Locked'
<1>1. ASSUME NEW c \in Conns, Connect(c) \/ HealthAsks(c) PROVE Locked'
  BY <1>1, OpensKeeps, LockedStays DEF Connect, HealthAsks
<1>2. ASSUME NEW c \in Conns, Admit(c) PROVE Locked'
  BY ZenonT(30), <1>2, AdmitKeeps, LockedStays DEF Admit, Locked
<1>3. ASSUME NEW c \in Conns, Reject(c) \/ SpawnFails(c) PROVE Locked'
  BY <1>3, TurnsAwayKeeps, LockedStays DEF Reject, SpawnFails
<1>4. ASSUME NEW c \in Conns, HeadAlive(c) PROVE Locked'
  BY <1>4, HeadAliveKeeps, LockedStays DEF HeadAlive, Locked
<1>5. ASSUME NEW c \in Conns, HeadDenied(c) \/ AskCached(c) PROVE Locked'
  <2>1. c \in Handled /\ conn[c].pc # "probing" /\ UNCHANGED lock
    BY <1>5 DEF HeadDenied, AskCached, Handled
  <2>2. PICK code \in {"none", "200", "503"} : Answers(c, code)
    BY <1>5 DEF HeadDenied, AskCached, Code
  <2>3. conn'[c] = Closed(code) /\ Others(c) BY <2>1, <2>2, AnswersKeeps DEF Slots, Others
  <2> QED BY <2>1, <2>3, ClosedType, ClosedStatus, LockedStays
<1>6. ASSUME NEW c \in Conns, AskProbe(c) PROVE Locked'
  <2>1. \A d \in Conns : conn[d].pc # "probing" BY <1>6, NobodyProbes DEF AskProbe
  <2>2. lock' = c BY <1>6 DEF AskProbe
  <2> QED BY <1>6, <2>1, <2>2, AskProbeKeeps DEF Locked, Others
<1>7. ASSUME NEW c \in Conns, VaultAnswers(c) PROVE Locked'
  <2>1. UNCHANGED lock BY <1>7 DEF VaultAnswers
  <2> QED BY <1>7, <2>1, VaultAnswersKeeps, GateAssumption DEF Locked, Others, TypeOK
<1>8. ASSUME NEW c \in Conns, ProbeEnds(c) PROVE Locked'
  <2>1. c \in Handled /\ conn[c].pc = "probing" /\ lock' = Nobody
    BY <1>8 DEF ProbeEnds, Handled
  <2>2. PICK code \in {"none", "200", "503"} : Answers(c, code) BY <1>8 DEF ProbeEnds, Code
  <2>3. conn'[c] = Closed(code) /\ Others(c) BY <2>1, <2>2, AnswersKeeps DEF Slots, Others
  <2>4. \A d \in Conns \ {c} : conn[d].pc # "probing" BY <2>1 DEF Locked
  <2> QED BY <2>1, <2>3, <2>4, ClosedType, ClosedStatus DEF Locked, Others
<1>9. CASE Tick
  <2>1. UNCHANGED lock BY <1>9 DEF Tick
  <2> QED BY <1>9, <2>1, TickKeeps, GateAssumption DEF Locked, TypeOK
<1>10. CASE UNCHANGED <<conn, lock>> BY <1>10 DEF Locked
<1> QED
  BY <1>1, <1>2, <1>3, <1>4, <1>5, <1>6, <1>7, <1>8, <1>9, <1>10
  DEF Next, Serves, vars, history, AcceptFails, HealthBegins, HealthRefused, HealthHears, VaultChanges

-----------------------------------------------------------------------------
(* How long a handler has been there.  One that waits for the mutex waits   *)
(* for the probe of its holder; when that has ended, the verdict is fresh.  *)

Waits ==
  /\ \A c \in Conns : conn[c].pc = "reading" => conn[c].age <= ReadTimeout
  /\ \A c \in Conns : conn[c].pc = "probing" => conn[c].age <= ReadTimeout + conn[c].probe
  /\ \A c \in Conns : conn[c].pc = "asking" =>
       IF lock # Nobody THEN conn[c].age <= ReadTimeout + conn[lock].probe
       ELSE conn[c].age <= ReadTimeout \/ (CacheHit /\ conn[c].age <= ReadTimeout + ProbeTimeout)

\* Nothing changes for a handler but that one that is not there any more.
LEMMA WaitsStays ==
  ASSUME TypeOK, Locked, Waits, NEW c \in Conns, Others(c), UNCHANGED <<lock, verdict>>,
         conn[c].pc # "probing", conn'[c].pc \in {"closed", "backlog"}
  PROVE  Waits'
<1>1. CacheHit' <=> CacheHit BY DEF CacheHit
<1>2. lock # Nobody => lock \in Conns \ {c} BY DEF Locked, TypeOK
<1> QED BY <1>1, <1>2 DEF Waits, Others

LEMMA WaitsStep ==
  ASSUME TypeOK, Slots, Locked, Waits, [Next]_vars
  PROVE  Waits'
<1> USE Bounds
<1>0. TypeOK' /\ Locked' BY TypeStep, LockedStep
<1>1. ASSUME NEW c \in Conns, Connect(c) \/ HealthAsks(c) PROVE Waits'
  BY <1>1, OpensKeeps, WaitsStays DEF Connect, HealthAsks
<1>2. ASSUME NEW c \in Conns, Admit(c) PROVE Waits'
  <2>1. UNCHANGED <<lock, verdict>> BY <1>2 DEF Admit
  <2>2. CacheHit' <=> CacheHit BY <2>1 DEF CacheHit
  <2>3. lock # Nobody => lock \in Conns \ {c} BY <1>2 DEF Locked, TypeOK, Admit
  <2> QED BY <1>2, <2>1, <2>2, <2>3, AdmitKeeps DEF Waits, Others
<1>3. ASSUME NEW c \in Conns, Reject(c) \/ SpawnFails(c) PROVE Waits'
  BY <1>3, TurnsAwayKeeps, WaitsStays DEF Reject, SpawnFails
<1>4. ASSUME NEW c \in Conns, HeadAlive(c) PROVE Waits'
  <2>1. UNCHANGED <<lock, verdict>> BY <1>4 DEF HeadAlive
  <2>2. CacheHit' <=> CacheHit BY <2>1 DEF CacheHit
  <2>3. lock # Nobody => lock \in Conns \ {c} /\ conn[lock].probe \in Nat
    BY <1>4 DEF Locked, TypeOK, HeadAlive, Connections
  <2>4. conn[c].age \in Nat /\ conn[c].age <= ReadTimeout
    BY <1>4, HeadAliveKeeps DEF Waits, TypeOK, Connections
  <2> QED BY <1>4, <2>1, <2>2, <2>3, <2>4, HeadAliveKeeps DEF Waits, Others
<1>5. ASSUME NEW c \in Conns, HeadDenied(c) \/ AskCached(c) PROVE Waits'
  <2>1. c \in Handled /\ conn[c].pc # "probing" /\ UNCHANGED <<lock, verdict>>
    BY <1>5 DEF HeadDenied, AskCached, Handled
  <2>2. PICK code \in {"none", "200", "503"} : Answers(c, code)
    BY <1>5 DEF HeadDenied, AskCached, Code
  <2>3. conn'[c].pc = "closed" /\ Others(c)
    BY <2>1, <2>2, AnswersKeeps, ClosedType DEF Slots, Others
  <2> QED BY <2>1, <2>3, WaitsStays
<1>6. ASSUME NEW c \in Conns, AskProbe(c) PROVE Waits'
  <2>1. lock = Nobody /\ ~CacheHit /\ lock' = c BY <1>6 DEF AskProbe
  <2>2. \A d \in Conns : conn[d].pc = "asking" => conn[d].age <= ReadTimeout /\ conn[d].age \in Nat
    BY <2>1 DEF Waits, TypeOK, Connections
  <2>3. \A d \in Conns : conn[d].pc # "probing" BY <2>1, NobodyProbes
  <2>4. c # Nobody BY GateAssumption
  <2> QED BY <1>6, <2>1, <2>2, <2>3, <2>4, AskProbeKeeps DEF Waits, Others
<1>7. ASSUME NEW c \in Conns, VaultAnswers(c) PROVE Waits'
  <2>1. UNCHANGED <<lock, verdict>> BY <1>7 DEF VaultAnswers
  <2>2. CacheHit' <=> CacheHit BY <2>1 DEF CacheHit
  <2>3. lock # Nobody => lock \in Conns /\ conn'[lock].probe = conn[lock].probe
    BY <1>7, VaultAnswersKeeps DEF TypeOK, Others
  <2> QED BY <1>7, <2>1, <2>2, <2>3, VaultAnswersKeeps DEF Waits, Others
<1>8. ASSUME NEW c \in Conns, ProbeEnds(c) PROVE Waits'
  <2>1. c \in Handled /\ conn[c].pc = "probing" /\ lock = c /\ lock' = Nobody
    BY <1>8 DEF ProbeEnds, Handled, Locked
  <2>2. PICK code \in {"none", "200", "503"} : Answers(c, code) BY <1>8 DEF ProbeEnds, Code
  <2>3. conn'[c].pc = "closed" /\ Others(c)
    BY <2>1, <2>2, AnswersKeeps, ClosedType DEF Slots, Others
  <2>4. CacheHit' BY <1>8 DEF ProbeEnds, CacheHit
  <2>5. \A d \in Conns : conn[d].pc = "asking" => conn[d].age <= ReadTimeout + ProbeTimeout
    <3>1. c # Nobody /\ conn[c].probe \in 0 .. ProbeTimeout BY GateAssumption DEF TypeOK, Connections
    <3>2. \A d \in Conns : conn[d].age \in Nat BY DEF TypeOK, Connections
    <3> QED BY <2>1, <3>1, <3>2 DEF Waits
  <2>6. \A d \in Conns \ {c} : conn[d].pc # "probing" BY <2>1 DEF Locked
  <2> QED BY <2>1, <2>3, <2>4, <2>5, <2>6 DEF Waits, Others
<1>9. CASE Tick
  <2>1. UNCHANGED lock BY <1>9 DEF Tick
  <2>2. \A c \in Conns : conn[c].age \in Nat /\ conn[c].probe \in Nat BY DEF TypeOK, Connections
  <2>3. \A c \in Conns : conn[c].pc = "reading" => conn[c].age < ReadTimeout
    <3>1. \A c \in Conns : ~Urgent(c) BY <1>9 DEF Tick
    <3> QED BY <2>2, <3>1 DEF Urgent
  <2>4. \A c \in Conns : conn[c].pc = "asking" => lock # Nobody BY <1>9 DEF Tick, Urgent
  <2>5. lock # Nobody => lock \in Conns /\ conn'[lock].probe = conn[lock].probe + 1
    BY <1>9, TickKeeps DEF Locked, TypeOK
  <2> QED BY <1>9, <2>1, <2>2, <2>3, <2>4, <2>5, TickKeeps DEF Waits
<1>10. CASE UNCHANGED <<conn, lock, verdict>>
  <2>1. CacheHit' <=> CacheHit BY <1>10 DEF CacheHit
  <2> QED BY <1>10, <2>1 DEF Waits
<1> QED
  BY <1>1, <1>2, <1>3, <1>4, <1>5, <1>6, <1>7, <1>8, <1>9, <1>10
  DEF Next, Serves, vars, history, AcceptFails, HealthBegins, HealthRefused, HealthHears, VaultChanges

-----------------------------------------------------------------------------
(* Probes: while the mutex is free, at least as much time has passed since  *)
(* the last probe began as since its verdict was cached.                    *)

Spaced ==
  lock = Nobody => IF verdict.known THEN quiet >= verdict.age ELSE quiet = Ttl

LEMMA SpacedStep ==
  ASSUME TypeOK, Spaced, [Next]_vars
  PROVE  Spaced'
<1> USE Bounds DEF TypeOK, Spaced
<1>1. ASSUME NEW c \in Conns, AskProbe(c) PROVE Spaced'
  <2>1. c # Nobody BY GateAssumption
  <2> QED BY <1>1, <2>1 DEF AskProbe
<1>2. ASSUME NEW c \in Conns, ProbeEnds(c) PROVE Spaced'
  <2>1. verdict'.known /\ verdict'.age = 0 /\ UNCHANGED quiet BY <1>2 DEF ProbeEnds, history
  <2> QED BY <2>1
<1>3. CASE Tick
  <2>1. UNCHANGED lock /\ verdict'.known = verdict.known BY <1>3 DEF Tick
  <2>2. verdict'.age = IF verdict.known /\ verdict.age < Ttl THEN verdict.age + 1 ELSE verdict.age
    BY <1>3 DEF Tick
  <2>3. quiet' = IF quiet < Ttl THEN quiet + 1 ELSE quiet BY <1>3 DEF Tick
  <2>4. quiet \in 0 .. Ttl /\ verdict.age \in 0 .. Ttl OBVIOUS
  <2> QED BY <2>1, <2>2, <2>3, <2>4
<1>4. CASE UNCHANGED <<lock, verdict, quiet>> BY <1>4
<1> QED
  BY <1>1, <1>2, <1>3, <1>4
  DEF Next, Serves, vars, history, Connect, HealthAsks, Admit, Reject, SpawnFails, HeadAlive,
      HeadDenied, AskCached, VaultAnswers, AcceptFails, HealthBegins, HealthRefused, HealthHears, VaultChanges

LEMMA SpacedProbes ==
  ASSUME TypeOK, Spaced, [Next]_vars, lock = Nobody, lock' # Nobody
  PROVE  quiet >= Ttl /\ (verdict.known => verdict.age >= Ttl)
<1>1. PICK c \in Conns : AskProbe(c)
  BY DEF Next, Serves, vars, history, Connect, HealthAsks, Admit, Reject, SpawnFails, HeadAlive,
         HeadDenied, AskCached, VaultAnswers, ProbeEnds, AcceptFails, HealthBegins,
         HealthRefused, HealthHears, VaultChanges, Tick
<1>2. ~CacheHit BY <1>1 DEF AskProbe
<1> QED BY <1>2, Bounds DEF TypeOK, Spaced, CacheHit

-----------------------------------------------------------------------------
(* Verdicts: an answer is no older than the probe it came on, and a cached   *)
(* one no older than that and the time it has been cached.  A probe a unit   *)
(* has passed in was one the vault could have failed.                        *)

Recent ==
  /\ CanAnswer(vault) => good = 0
  /\ CanFail(vault) => bad = 0
  /\ \A c \in Conns : conn[c].pc = "probing" =>
       /\ conn[c].status = "2xx" => good <= conn[c].probe
       /\ conn[c].status = "bad" \/ conn[c].probe > 0 => bad = 0
  /\ CacheHit => IF verdict.ok THEN good <= ProbeTimeout + verdict.age
                 ELSE bad <= verdict.age

LEMMA RecentStays ==
  ASSUME TypeOK, Recent, NEW c \in Conns, Others(c), UNCHANGED <<verdict, vault, good, bad>>,
         conn'[c].pc # "probing"
  PROVE  Recent'
<1>1. CacheHit' <=> CacheHit BY DEF CacheHit
<1> QED BY <1>1 DEF Recent, Others

LEMMA RecentStep ==
  ASSUME TypeOK, Slots, Locked, Recent, [Next]_vars
  PROVE  Recent'
<1> USE Bounds
<1>1. ASSUME NEW c \in Conns, Connect(c) \/ HealthAsks(c) PROVE Recent'
  BY <1>1, OpensKeeps, RecentStays DEF Connect, HealthAsks, history
<1>2. ASSUME NEW c \in Conns, Admit(c) PROVE Recent'
  BY <1>2, AdmitKeeps, RecentStays DEF Admit, history
<1>3. ASSUME NEW c \in Conns, Reject(c) \/ SpawnFails(c) PROVE Recent'
  BY <1>3, TurnsAwayKeeps, RecentStays DEF Reject, SpawnFails, history
<1>4. ASSUME NEW c \in Conns, HeadAlive(c) PROVE Recent'
  BY <1>4, HeadAliveKeeps, RecentStays DEF HeadAlive, history
<1>5. ASSUME NEW c \in Conns, HeadDenied(c) \/ AskCached(c) PROVE Recent'
  <2>1. c \in Handled BY <1>5 DEF HeadDenied, AskCached, Handled
  <2>2. PICK code \in {"none", "200", "503"} : Answers(c, code)
    BY <1>5 DEF HeadDenied, AskCached, Code
  <2>3. conn'[c].pc = "closed" /\ Others(c)
    BY <2>1, <2>2, AnswersKeeps, ClosedType DEF Slots, Others
  <2> QED BY <1>5, <2>3, RecentStays DEF HeadDenied, AskCached, history
<1>6. ASSUME NEW c \in Conns, AskProbe(c) PROVE Recent'
  <2>1. UNCHANGED <<verdict, vault, good, bad>> BY <1>6 DEF AskProbe
  <2>2. CacheHit' <=> CacheHit BY <2>1 DEF CacheHit
  <2>3. conn'[c].status = "none" BY <1>6, AskProbeKeeps DEF Locked
  <2> QED BY <1>6, <2>1, <2>2, <2>3, AskProbeKeeps DEF Recent, Others
<1>7. ASSUME NEW c \in Conns, VaultAnswers(c) PROVE Recent'
  <2>1. UNCHANGED <<verdict, vault, good, bad>> BY <1>7 DEF VaultAnswers, history
  <2>2. CacheHit' <=> CacheHit BY <2>1 DEF CacheHit
  <2>3. conn[c].probe \in Nat BY DEF TypeOK, Connections
  <2>4. vault = "refusing" => bad = 0 BY DEF Recent, CanFail
  <2>5. vault # "refusing" => good = 0 BY <1>7 DEF VaultAnswers, Recent, CanAnswer, TypeOK, Vaults
  <2> QED BY <1>7, <2>1, <2>2, <2>3, <2>4, <2>5, VaultAnswersKeeps DEF Recent, Others
<1>8. ASSUME NEW c \in Conns, ProbeEnds(c) PROVE Recent'
  <2>1. c \in Handled /\ conn[c].pc = "probing" BY <1>8 DEF ProbeEnds, Handled
  <2>2. PICK code \in {"none", "200", "503"} : Answers(c, code) BY <1>8 DEF ProbeEnds, Code
  <2>3. conn'[c].pc = "closed" /\ Others(c)
    BY <2>1, <2>2, AnswersKeeps, ClosedType DEF Slots, Others
  <2>4. UNCHANGED <<vault, good, bad>> BY <1>8 DEF ProbeEnds, history
  <2>5. conn[c].probe \in 0 .. ProbeTimeout /\ conn[c].status \in {"none", "2xx", "bad"}
        /\ good \in Nat
    BY DEF TypeOK, Connections
  <2>6. verdict' = [known |-> TRUE, ok |-> conn[c].status = "2xx", age |-> 0] BY <1>8 DEF ProbeEnds
  <2>7. conn[c].status = "2xx" => good <= ProbeTimeout BY <2>1, <2>5 DEF Recent
  <2>8. conn[c].status # "2xx" => bad = 0
    <3>1. conn[c].status # "2xx" => conn[c].status = "bad" \/ conn[c].probe > 0
      BY <1>8, <2>5 DEF ProbeEnds
    <3> QED BY <2>1, <3>1 DEF Recent
  <2>9. (verdict'.ok <=> conn[c].status = "2xx") /\ verdict'.age = 0 BY <2>6, Zenon
  <2>10. bad \in Nat BY DEF TypeOK
  <2>11. IF verdict'.ok THEN good' <= ProbeTimeout + verdict'.age ELSE bad' <= verdict'.age
    BY <2>4, <2>5, <2>7, <2>8, <2>9, <2>10
  <2> QED BY <2>3, <2>4, <2>11 DEF Recent, Others
<1>9. CASE Tick
  <2>1. \A n \in Nat : Older(n) \in Nat /\ Older(n) <= n + 1 BY DEF Older
  <2>2. good \in Nat /\ bad \in Nat /\ \A c \in Conns : conn[c].probe \in Nat
    BY DEF TypeOK, Connections
  <2>3. UNCHANGED vault /\ good' \in Nat /\ good' <= good + 1 /\ bad' \in Nat /\ bad' <= bad + 1
        /\ (CanAnswer(vault) => good' = 0) /\ (CanFail(vault) => bad' = 0)
    <3>1. /\ UNCHANGED vault
          /\ good' = IF CanAnswer(vault) THEN 0 ELSE Older(good)
          /\ bad' = IF CanFail(vault) THEN 0 ELSE Older(bad)
      BY <1>9 DEF Tick
    <3> HIDE DEF Older
    <3> QED BY <2>1, <2>2, <3>1
  <2>4. \A c \in Conns : conn[c].pc = "probing" => CanFail(vault)
    BY <1>9 DEF Tick, Urgent, CanFail
  <2>5. CacheHit' => CacheHit /\ verdict'.age = verdict.age + 1 /\ verdict'.ok = verdict.ok
    <3>1. verdict' = IF verdict.known /\ verdict.age < Ttl
                     THEN [verdict EXCEPT !.age = @ + 1] ELSE verdict
      BY <1>9 DEF Tick
    <3> QED BY <3>1 DEF CacheHit, TypeOK
  <2>6. verdict.age \in Nat BY DEF TypeOK
  <2>7. ASSUME NEW c \in Conns, conn'[c].pc = "probing"
        PROVE  /\ conn'[c].status = "2xx" => good' <= conn'[c].probe
               /\ bad' = 0
    BY <1>9, <2>2, <2>3, <2>4, <2>7, TickKeeps DEF Recent
  <2>8. CacheHit' => IF verdict'.ok THEN good' <= ProbeTimeout + verdict'.age
                     ELSE bad' <= verdict'.age
    BY <2>2, <2>3, <2>5, <2>6 DEF Recent
  <2> QED BY <2>3, <2>7, <2>8 DEF Recent
<1>10. CASE VaultChanges
  <2>1. /\ good' \in {0, good} /\ bad' \in {0, bad}
        /\ (CanAnswer(vault') => good' = 0) /\ (CanFail(vault') => bad' = 0)
        /\ UNCHANGED <<conn, verdict>>
    BY <1>10 DEF VaultChanges
  <2>2. CacheHit' <=> CacheHit BY <2>1 DEF CacheHit
  <2>3. verdict.age \in Nat /\ \A c \in Conns : conn[c].probe \in Nat BY DEF TypeOK, Connections
  <2> QED BY <2>1, <2>2, <2>3 DEF Recent
<1>11. CASE UNCHANGED <<conn, verdict, vault, good, bad>>
  <2>1. CacheHit' <=> CacheHit BY <1>11 DEF CacheHit
  <2> QED BY <1>11, <2>1 DEF Recent
<1> QED
  BY <1>1, <1>2, <1>3, <1>4, <1>5, <1>6, <1>7, <1>8, <1>9, <1>10, <1>11
  DEF Next, Serves, vars, history, AcceptFails, HealthBegins, HealthRefused, HealthHears

\* Only a handler that gives a verdict leaves with one.
LEMMA RecentVerdicts ==
  ASSUME TypeOK, Slots, Locked, Recent, [Next]_vars, NEW c \in Handled, c \notin Handled'
  PROVE  /\ conn'[c].code = "200" => good <= ProbeTimeout + Ttl
         /\ conn'[c].code = "503" => bad <= ProbeTimeout + Ttl
<1> USE Bounds
<1> DEFINE Honest == /\ conn'[c].code = "200" => good <= ProbeTimeout + Ttl
                     /\ conn'[c].code = "503" => bad <= ProbeTimeout + Ttl
<1>0. c \in Conns /\ good \in Nat /\ bad \in Nat /\ verdict.age \in 0 .. Ttl
  BY DEF Handled, TypeOK
<1>a. ASSUME NEW code \in {"none", "200", "503"}, Answers(c, code) PROVE conn'[c].code = code
  BY <1>a, AnswersKeeps, ClosedType DEF Slots
<1>1. ASSUME NEW d \in Conns, Others(d), d \in Handled <=> d \in Handled' PROVE FALSE
  BY <1>0, <1>1 DEF Handled, Others
<1>2. ASSUME NEW d \in Conns, HeadDenied(d) \/ AskCached(d) \/ ProbeEnds(d) PROVE d = c
  <2>1. d \in Handled BY <1>2 DEF HeadDenied, AskCached, ProbeEnds, Handled
  <2>2. PICK code \in {"none", "200", "503"} : Answers(d, code)
    BY <1>2 DEF HeadDenied, AskCached, ProbeEnds, Code
  <2>3. Handled' = Handled \ {d} BY <2>1, <2>2, AnswersKeeps DEF Slots
  <2> QED BY <2>3
<1>3. CASE HeadDenied(c) BY <1>3, <1>a DEF HeadDenied
<1>4. CASE AskCached(c)
  <2>1. verdict.ok \in BOOLEAN BY DEF TypeOK
  <2>2. conn'[c].code = Code(verdict.ok) BY <1>4, <1>a, <2>1 DEF AskCached, Code
  <2>3. IF verdict.ok THEN good <= ProbeTimeout + verdict.age ELSE bad <= verdict.age
    BY <1>4 DEF AskCached, Recent
  <2> QED BY <1>0, <2>1, <2>2, <2>3 DEF Code
<1>5. CASE ProbeEnds(c)
  <2>1. conn[c].probe \in 0 .. ProbeTimeout /\ conn[c].status \in {"none", "2xx", "bad"}
    BY <1>0 DEF TypeOK, Connections
  <2>2. conn[c].pc = "probing" /\ (conn[c].status # "none" \/ conn[c].probe >= ProbeTimeout)
    BY <1>5 DEF ProbeEnds
  <2>3. CASE conn[c].status = "2xx"
    <3>1. good <= ProbeTimeout BY <1>0, <2>1, <2>2, <2>3 DEF Recent
    <3>2. conn'[c].code = "200" BY <1>5, <1>a, <2>3 DEF ProbeEnds, Code
    <3> QED BY <1>0, <3>1, <3>2
  <2>4. CASE conn[c].status # "2xx"
    <3>1. bad = 0 BY <1>0, <2>1, <2>2, <2>4 DEF Recent
    <3>2. conn'[c].code = "503" BY <1>5, <1>a, <2>4 DEF ProbeEnds, Code
    <3> QED BY <1>0, <3>1, <3>2
  <2> QED BY <2>3, <2>4
<1>6. ASSUME NEW d \in Conns, Connect(d) \/ HealthAsks(d) PROVE FALSE
  BY <1>1, <1>6, OpensKeeps DEF Connect, HealthAsks, Handled
<1>7. ASSUME NEW d \in Conns, Admit(d) PROVE FALSE
  BY <1>0, <1>7, AdmitKeeps DEF Handled, Others
<1>8. ASSUME NEW d \in Conns, Reject(d) \/ SpawnFails(d) PROVE FALSE
  BY <1>1, <1>8, TurnsAwayKeeps DEF Handled
<1>9. ASSUME NEW d \in Conns, HeadAlive(d) PROVE FALSE
  BY <1>1, <1>9, HeadAliveKeeps DEF Handled
<1>10. ASSUME NEW d \in Conns, AskProbe(d) PROVE FALSE
  BY <1>1, <1>10, AskProbeKeeps DEF Handled
<1>11. ASSUME NEW d \in Conns, VaultAnswers(d) PROVE FALSE
  BY <1>1, <1>11, VaultAnswersKeeps DEF Handled
<1>12. CASE Tick BY <1>12, TickKeeps
<1>13. CASE UNCHANGED conn BY <1>13 DEF Handled
<1> QED
  BY <1>2, <1>3, <1>4, <1>5, <1>6, <1>7, <1>8, <1>9, <1>10, <1>11, <1>12, <1>13
  DEF Next, Serves, vars, AcceptFails, HealthBegins, HealthRefused, HealthHears, VaultChanges

-----------------------------------------------------------------------------
(* The health check.  What its verdict needs of the numbers: a cached       *)
(* verdict outlives a slice of sleep, the budget is longer than a probe,    *)
(* and the backlog has room for one connection more than there are slots.   *)

Measured ==
  /\ Ttl >= 2
  /\ HealthTimeout \in Nat /\ HealthTimeout > ProbeTimeout
  /\ Cardinality(Conns) > MaxConns

\* Nobody probes for what the cache knows.
Free == lock # Nobody => ~CacheHit

Sure == CacheHit /\ verdict.ok

\* A yes has just come, or the probe under way has run for n units.
Coming(n) ==
  \/ verdict.known /\ verdict.ok /\ verdict.age = 0
  \/ lock # Nobody /\ conn[lock].probe >= n

Backed ==
  health.pc # "off" =>
    /\ ~awake => health.excuse
    /\ CacheHit /\ ~verdict.ok => health.excuse

Timed ==
  /\ health.pc = "waiting" =>
       /\ health.conn \in Conns /\ health.wait <= ProbeTimeout
       /\ health.wait <= health.age /\ health.age <= HealthTimeout + health.wait
  /\ health.pc = "next" => health.age <= HealthTimeout
  /\ health.pc = "asleep" => health.age < HealthTimeout
  /\ health.pc = "off" => health.age = 0

Heard ==
  health.pc = "waiting" /\ conn[health.conn].pc = "closed" /\ conn[health.conn].code # "200" =>
    health.excuse

(* Without an excuse, a first attempt that waits will leave a yes in the   *)
(* cache, and the attempt that follows finds it there and is answered in   *)
(* the unit it begins in.                                                  *)
Attempts ==
  ~health.excuse =>
    /\ health.pc = "waiting" /\ health.age = health.wait /\ health.wait > 0 => Coming(health.wait)
    /\ health.pc = "asleep" => Coming(ProbeTimeout)
    /\ health.pc = "next" /\ health.age > 0 => Sure
    /\ health.pc = "waiting" /\ health.age # health.wait => Sure /\ health.wait = 0

Excusable == health.result = "unhealthy" => health.excuse

HealthInv == Free /\ Backed /\ Timed /\ Heard /\ Attempts /\ Excusable

LEMMA FreeStep ==
  ASSUME TypeOK, Free, [Next]_vars
  PROVE  Free'
<1> USE Bounds DEF TypeOK, Free, CacheHit
<1>1. ASSUME NEW c \in Conns, AskProbe(c) PROVE Free' BY <1>1 DEF AskProbe
<1>2. ASSUME NEW c \in Conns, ProbeEnds(c) PROVE Free' BY <1>2 DEF ProbeEnds
<1>3. CASE Tick
  <2>1. UNCHANGED lock /\ verdict'.known = verdict.known BY <1>3 DEF Tick
  <2>2. verdict'.age = IF verdict.known /\ verdict.age < Ttl THEN verdict.age + 1 ELSE verdict.age
    BY <1>3 DEF Tick
  <2> QED BY <2>1, <2>2
<1>4. CASE UNCHANGED <<lock, verdict>> BY <1>4
<1> QED
  BY <1>1, <1>2, <1>3, <1>4
  DEF Next, Serves, vars, history, Connect, HealthAsks, Admit, Reject, SpawnFails, HeadAlive,
      HeadDenied, AskCached, VaultAnswers, AcceptFails, HealthBegins, HealthRefused, HealthHears, VaultChanges

\* A check that has an excuse has nothing to answer for.
LEMMA ExcusedKeeps ==
  ASSUME TypeOK, Timed, Excusable, Excused
  PROVE  Backed' /\ Timed' /\ Heard' /\ Attempts' /\ Excusable'
<1>1. CASE health.pc = "off"
  <2>1. health' = health BY <1>1 DEF Excused
  <2> QED BY <1>1, <2>1 DEF Timed, Excusable, Backed, Heard, Attempts
<1>2. CASE health.pc # "off"
  <2>1. /\ health'.excuse /\ health'.pc = health.pc /\ health'.age = health.age
        /\ health'.wait = health.wait /\ health'.conn = health.conn /\ health'.result = health.result
    BY <1>2 DEF Excused, TypeOK, HealthChecks
  <2> QED BY <1>2, <2>1 DEF Timed, Excusable, Backed, Heard, Attempts
<1> QED BY <1>1, <1>2

\* Steps that leave the check, the mutex and the cache alone.
LEMMA QuietKeeps ==
  ASSUME TypeOK, HealthInv, UNCHANGED <<health, lock, verdict, awake>>,
         lock # Nobody => conn'[lock].probe = conn[lock].probe,
         \A c \in Conns : conn'[c].pc = "closed" /\ conn'[c].code # "200" /\ health.conn = c =>
           conn'[c] = conn[c] \/ health.excuse
  PROVE  Backed' /\ Timed' /\ Heard' /\ Attempts' /\ Excusable'
<1>1. (CacheHit' <=> CacheHit) /\ (Sure' <=> Sure) BY DEF CacheHit, Sure
<1>2. \A n : Coming(n)' <=> Coming(n) BY DEF Coming
<1>3. Backed' /\ Timed' /\ Excusable' BY <1>1 DEF HealthInv, Backed, Timed, Excusable
<1>4. Heard' BY DEF HealthInv, Heard, Timed
<1>5. Attempts' BY <1>1, <1>2 DEF HealthInv, Attempts
<1> QED BY <1>3, <1>4, <1>5

LEMMA ServesKeeps ==
  ASSUME TypeOK, Slots, Locked, HealthInv, NEW c \in Conns, Connect(c) \/ Serves(c)
  PROVE  Backed' /\ Timed' /\ Heard' /\ Attempts' /\ Excusable'
<1>0. TypeOK /\ Slots /\ Locked /\ Free /\ Backed /\ Timed /\ Heard /\ Attempts /\ Excusable
  BY DEF HealthInv
<1>1. ASSUME Others(c), conn[c].pc # "probing", UNCHANGED <<health, lock, verdict, awake>>,
             conn'[c].pc # "closed" \/ health.conn # c \/ conn'[c].code = "200" \/ health.excuse
      PROVE  Backed' /\ Timed' /\ Heard' /\ Attempts' /\ Excusable'
  <2>1. lock # Nobody => lock # c /\ lock \in Conns BY <1>0, <1>1 DEF Locked, TypeOK
  <2> QED BY <1>1, <2>1, QuietKeeps DEF Others
<1>2. CASE Connect(c) BY <1>1, <1>2, OpensKeeps DEF Connect
<1>3. CASE Admit(c) BY <1>1, <1>3, AdmitKeeps DEF Admit
<1>4. CASE Reject(c)
  <2>1. CASE health.conn = c BY <1>0, <1>4, <2>1, ExcusedKeeps DEF Reject
  <2>2. CASE health.conn # c BY <1>1, <1>4, <2>2, TurnsAwayKeeps DEF Reject
  <2> QED BY <2>1, <2>2
<1>5. CASE SpawnFails(c) BY <1>0, <1>5, ExcusedKeeps DEF SpawnFails
<1>6. CASE HeadAlive(c) BY <1>1, <1>6, HeadAliveKeeps DEF HeadAlive
<1>7. CASE HeadDenied(c)
  <2>1. c \in Handled /\ conn[c].pc # "probing" /\ Answers(c, "none")
    BY <1>7 DEF HeadDenied, Handled
  <2> QED BY <1>1, <1>7, <2>1, AnswersKeeps DEF HeadDenied, Slots, Others
<1>8. CASE AskCached(c)
  <2>1. /\ c \in Handled /\ conn[c].pc = "asking" /\ CacheHit /\ Answers(c, Code(verdict.ok))
        /\ UNCHANGED <<health, lock, verdict, awake>>
    BY <1>8 DEF AskCached, Handled
  <2>2. conn'[c] = Closed(Code(verdict.ok)) /\ Others(c)
    BY <2>1, AnswersKeeps DEF Slots, Others, Code
  <2>3. conn'[c].code = Code(verdict.ok) BY <2>2, ClosedType
  <2>4. CASE verdict.ok BY <1>1, <2>1, <2>2, <2>3, <2>4 DEF Code
  <2>5. CASE ~verdict.ok /\ health.excuse BY <1>1, <2>1, <2>2, <2>5
  <2>6. CASE health.conn # c BY <1>1, <2>1, <2>2, <2>6
  <2>7. CASE health.pc = "off"
    <3>1. health'.pc = "off" /\ UNCHANGED health BY <2>1, <2>7
    <3> QED BY <1>0, <3>1 DEF Backed, Timed, Heard, Attempts, Excusable
  <2> QED BY <1>0, <2>1, <2>4, <2>5, <2>6, <2>7 DEF Backed
<1>9. CASE AskProbe(c)
  <2>1. /\ lock = Nobody /\ ~CacheHit /\ UNCHANGED <<health, verdict, awake>>
        /\ Others(c) /\ conn'[c].pc = "probing"
    BY <1>9, AskProbeKeeps DEF AskProbe
  <2>2. ~CacheHit' /\ ~Sure BY <2>1 DEF CacheHit, Sure
  <2>3. \A n : ~Coming(n) BY <2>1, Bounds DEF Coming, CacheHit
  <2>4. Backed' /\ Timed' /\ Excusable' BY <1>0, <2>1, <2>2 DEF Backed, Timed, Excusable
  <2>5. Heard' BY <1>0, <2>1 DEF Heard, Timed, Others
  <2>6. Attempts' BY <1>0, <2>1, <2>2, <2>3 DEF Attempts
  <2> QED BY <2>4, <2>5, <2>6
<1>10. CASE VaultAnswers(c)
  <2>1. Others(c) /\ conn'[c].probe = conn[c].probe /\ conn'[c].pc = "probing"
    BY <1>10, VaultAnswersKeeps
  <2>2. UNCHANGED <<health, lock, verdict, awake>> BY <1>10 DEF VaultAnswers
  <2> QED BY <1>0, <2>1, <2>2, QuietKeeps DEF Others, TypeOK
<1>11. CASE ProbeEnds(c)
  <2> DEFINE ok == conn[c].status = "2xx"
  <2>1. CASE ~ok BY <1>0, <1>11, <2>1, ExcusedKeeps DEF ProbeEnds
  <2>2. CASE ok
    <3>1. /\ c \in Handled /\ Answers(c, "200") /\ UNCHANGED <<health, awake>>
          /\ verdict' = [known |-> TRUE, ok |-> TRUE, age |-> 0]
      BY <1>11, <2>2 DEF ProbeEnds, Handled, Code
    <3>2. conn'[c].code = "200" /\ Others(c) BY <3>1, AnswersKeeps, ClosedType DEF Slots, Others
    <3>3. Sure' /\ \A n : Coming(n)' BY <3>1, Bounds DEF Sure, CacheHit, Coming
    <3>4. Backed' /\ Timed' /\ Excusable'
      BY <1>0, <3>1 DEF Backed, Timed, Excusable
    <3>5. Heard' BY <1>0, <3>1, <3>2 DEF Heard, Timed, Others
    <3>6. Attempts'
      BY <1>0, <3>1, <3>3 DEF Attempts
    <3> QED BY <3>4, <3>5, <3>6
  <2> QED BY <2>1, <2>2
<1> QED
  BY <1>2, <1>3, <1>4, <1>5, <1>6, <1>7, <1>8, <1>9, <1>10, <1>11 DEF Serves

LEMMA HealthBeginsKeeps ==
  ASSUME TypeOK, HealthInv, Measured, HealthBegins
  PROVE  Backed' /\ Timed' /\ Heard' /\ Attempts' /\ Excusable'
<1>1. /\ health'.pc = "next" /\ health'.age = 0 /\ health'.result = "none"
      /\ health'.excuse = (~awake \/ (CacheHit /\ ~verdict.ok))
      /\ UNCHANGED <<awake, verdict>>
  BY DEF HealthBegins, Off
<1>2. Backed' BY <1>1 DEF Backed, CacheHit
<1>3. Timed' /\ Heard' /\ Attempts' /\ Excusable'
  BY <1>1 DEF Measured, Timed, Heard, Attempts, Excusable
<1> QED BY <1>2, <1>3

LEMMA HealthAsksKeeps ==
  ASSUME TypeOK, HealthInv, Measured, NEW c \in Conns, HealthAsks(c)
  PROVE  Backed' /\ Timed' /\ Heard' /\ Attempts' /\ Excusable'
<1>1. /\ health.pc = "next" /\ UNCHANGED <<awake, verdict, lock>>
      /\ conn'[c].pc = "backlog"
      /\ health' = [health EXCEPT !.pc = "waiting", !.wait = 0, !.conn = c]
  BY OpensKeeps DEF HealthAsks
<1>2. /\ health'.pc = "waiting" /\ health'.wait = 0 /\ health'.conn = c
      /\ health'.age = health.age /\ health'.excuse = health.excuse
      /\ health'.result = health.result /\ health.age \in Nat
  BY <1>1 DEF TypeOK, HealthChecks
<1>3. (CacheHit' <=> CacheHit) /\ (Sure' <=> Sure) BY <1>1 DEF CacheHit, Sure
<1>4. Backed' /\ Excusable' BY <1>1, <1>2, <1>3 DEF HealthInv, Backed, Excusable
<1>5. Timed'
  <2>1. health.age <= HealthTimeout BY <1>1 DEF HealthInv, Timed
  <2>2. 0 <= ProbeTimeout /\ HealthTimeout \in Nat BY Bounds DEF Measured
  <2> QED BY <1>1, <1>2, <2>1, <2>2 DEF Timed
<1>7. Heard' BY <1>1, <1>2 DEF Heard
<1>6. Attempts' BY <1>1, <1>2, <1>3 DEF HealthInv, Attempts
<1> QED BY <1>4, <1>5, <1>6, <1>7

LEMMA HealthHearsKeeps ==
  ASSUME TypeOK, HealthInv, Measured, HealthHears
  PROVE  Backed' /\ Timed' /\ Heard' /\ Attempts' /\ Excusable'
<1> DEFINE c == health.conn
           came == conn[c].pc = "closed"
<1>0. Backed /\ Timed /\ Heard /\ Attempts /\ Excusable BY DEF HealthInv
<1>1. /\ health.pc = "waiting" /\ UNCHANGED <<conn, awake, verdict, lock>>
      /\ came \/ health.wait >= ProbeTimeout
  BY DEF HealthHears
<1>2. (CacheHit' <=> CacheHit) /\ \A n : Coming(n)' <=> Coming(n) BY <1>1 DEF CacheHit, Coming
<1>3. health.age \in Nat /\ health.wait \in Nat /\ health.excuse \in BOOLEAN
  BY DEF TypeOK, HealthChecks
<1>4. /\ health.conn \in Conns /\ health.wait <= ProbeTimeout
      /\ health.wait <= health.age /\ health.age <= HealthTimeout + health.wait
  BY <1>0, <1>1 DEF Timed
<1>5. CASE came /\ conn[c].code = "200"
  <2>1. health' = Off("healthy") BY <1>5 DEF HealthHears
  <2>2. health'.pc = "off" /\ health'.age = 0 /\ health'.result = "healthy" BY <2>1 DEF Off
  <2> QED BY <2>2 DEF Backed, Timed, Heard, Attempts, Excusable
<1>6. ASSUME ~(came /\ conn[c].code = "200"), ~health.excuse
      PROVE  /\ health.age = health.wait /\ health.age < HealthTimeout
             /\ Coming(ProbeTimeout)
  <2>1. ~came BY <1>0, <1>1, <1>6 DEF Heard
  <2>2. health.wait = ProbeTimeout /\ health.wait > 0 BY <1>1, <1>3, <1>4, <2>1, Bounds
  <2>3. health.age = health.wait BY <1>0, <1>1, <1>6, <2>2 DEF Attempts
  <2>4. Coming(health.wait) BY <1>0, <1>1, <1>6, <2>2, <2>3 DEF Attempts
  <2> QED BY <1>3, <2>2, <2>3, <2>4 DEF Measured
<1>7. CASE ~(came /\ conn[c].code = "200") /\ health.age >= HealthTimeout
  <2>1. health' = [Off("unhealthy") EXCEPT !.excuse = health.excuse]
    BY <1>7 DEF HealthHears, HealthWaits
  <2>2. health'.pc = "off" /\ health'.age = 0 /\ health'.excuse = health.excuse
    BY <2>1 DEF Off
  <2>3. health.excuse BY <1>3, <1>6, <1>7, Bounds DEF Measured
  <2> QED BY <2>2, <2>3 DEF Backed, Timed, Heard, Attempts, Excusable
<1>8. CASE ~(came /\ conn[c].code = "200") /\ ~(health.age >= HealthTimeout)
  <2>1. health' = [health EXCEPT !.pc = "asleep", !.conn = Nobody, !.excuse = health.excuse]
    BY <1>8 DEF HealthHears, HealthWaits
  <2>2. /\ health'.pc = "asleep" /\ health'.age = health.age /\ health'.excuse = health.excuse
        /\ health'.result = health.result
    BY <2>1 DEF TypeOK, HealthChecks
  <2>3. health.age < HealthTimeout BY <1>3, <1>8 DEF Measured
  <2>4. Timed' /\ Heard' /\ Excusable' BY <1>0, <2>2, <2>3 DEF Timed, Heard, Excusable
  <2>5. Backed' BY <1>0, <1>1, <1>2, <2>2 DEF Backed
  <2>6. Attempts' BY <1>2, <1>6, <1>8, <2>2 DEF Attempts
  <2> QED BY <2>4, <2>5, <2>6
<1> QED BY <1>5, <1>7, <1>8

\* A check whose connect failed is excused.
LEMMA HealthRefusedKeeps ==
  ASSUME TypeOK, HealthInv, Measured, HealthRefused
  PROVE  Backed' /\ Timed' /\ Heard' /\ Attempts' /\ Excusable'
<1>0. Backed /\ Timed /\ Heard /\ Attempts /\ Excusable BY DEF HealthInv
<1>1. health.pc = "next" /\ UNCHANGED <<conn, awake, verdict, lock>> BY DEF HealthRefused
<1>2. health.age \in Nat BY DEF TypeOK, HealthChecks
<1>3. CASE health.age >= HealthTimeout
  <2>1. health' = [Off("unhealthy") EXCEPT !.excuse = TRUE]
    BY <1>3 DEF HealthRefused, HealthWaits
  <2>2. health'.pc = "off" /\ health'.age = 0 /\ health'.excuse BY <2>1 DEF Off
  <2> QED BY <2>2 DEF Backed, Timed, Heard, Attempts, Excusable
<1>4. CASE ~(health.age >= HealthTimeout)
  <2>1. health' = [health EXCEPT !.pc = "asleep", !.conn = Nobody, !.excuse = TRUE]
    BY <1>4 DEF HealthRefused, HealthWaits
  <2>2. /\ health'.pc = "asleep" /\ health'.age = health.age /\ health'.excuse
        /\ health'.result = health.result
    BY <2>1 DEF TypeOK, HealthChecks
  <2>3. health.age < HealthTimeout BY <1>2, <1>4 DEF Measured
  <2> QED BY <1>0, <2>2, <2>3 DEF Backed, Timed, Heard, Attempts, Excusable
<1> QED BY <1>3, <1>4

\* The check's connection moves within the unit, unless another one probes.
LEMMA TickFinds ==
  ASSUME TypeOK, Locked, HealthInv, Tick, health.pc = "waiting", ~health.excuse
  PROVE  /\ lock # Nobody
         /\ health.wait < ProbeTimeout
<1>0. /\ health.conn \in Conns /\ health.wait <= ProbeTimeout /\ awake
  BY DEF HealthInv, Timed, Backed
<1>1. ~HealthUrgent /\ ~Urgent(health.conn) BY <1>0 DEF Tick
<1>2. ~(health.wait >= ProbeTimeout) /\ conn[health.conn].pc # "closed" BY <1>1 DEF HealthUrgent
<1>3. conn[health.conn].pc \notin {"backlog", "reading"} BY <1>0, <1>1 DEF Urgent
<1>4. conn[health.conn].pc \in {"asking", "probing"}
  BY <1>0, <1>2, <1>3 DEF TypeOK, Connections
<1>5. conn[health.conn].pc = "asking" => lock # Nobody BY <1>1 DEF Urgent
<1>6. conn[health.conn].pc = "probing" => lock # Nobody BY <1>0, GateAssumption DEF Locked
<1> QED BY <1>0, <1>2, <1>4, <1>5, <1>6, Bounds DEF TypeOK, HealthChecks

\* Some connection is free when time passes and nothing has failed.
LEMMA RoomInBacklog ==
  ASSUME TypeOK, Slots, Measured, Tick, awake
  PROVE  \E c \in Conns : conn[c].pc = "closed"
<1> SUFFICES ASSUME \A c \in Conns : conn[c].pc # "closed" PROVE FALSE
  OBVIOUS
<1>1. \A c \in Conns : conn[c].pc # "backlog" BY DEF Tick, Urgent
<1>2. Handled = Conns BY <1>1 DEF TypeOK, Connections, Handled
<1> QED BY <1>2, Bounds, HandledIsFinite DEF Slots, TypeOK, Measured

LEMMA HealthTickKeeps ==
  ASSUME TypeOK, Slots, Locked, HealthInv, Measured, Tick
  PROVE  Backed' /\ Timed' /\ Heard' /\ Attempts' /\ Excusable'
<1> USE Bounds
<1>0. Free /\ Backed /\ Timed /\ Heard /\ Attempts /\ Excusable BY DEF HealthInv
<1>1. /\ awake' = TRUE /\ lock' = lock
      /\ verdict'.known = verdict.known /\ verdict'.ok = verdict.ok
      /\ verdict'.age = IF verdict.known /\ verdict.age < Ttl THEN verdict.age + 1 ELSE verdict.age
      /\ verdict.age \in 0 .. Ttl
  BY DEF Tick, TypeOK
<1>2. CacheHit' => CacheHit BY <1>1 DEF CacheHit
<1>3. health.age \in Nat /\ health.wait \in Nat BY DEF TypeOK, HealthChecks
<1>4. CASE health.pc = "off"
  <2>1. health' = health BY <1>4 DEF Tick
  <2> QED BY <1>0, <1>4, <2>1 DEF Backed, Timed, Heard, Attempts, Excusable
<1>5. CASE health.pc = "next"
  <2>1. health' = health BY <1>5 DEF Tick
  <2>2. health.excuse
    <3>1. ~(\E c \in Conns : conn[c].pc = "closed") BY <1>5 DEF Tick, HealthUrgent
    <3>2. ~awake BY <3>1, RoomInBacklog
    <3> QED BY <1>0, <1>5, <3>2 DEF Backed
  <2> QED BY <1>0, <1>5, <2>1, <2>2 DEF Backed, Timed, Heard, Attempts, Excusable
<1>6. CASE health.pc = "asleep"
  <2>1. /\ health'.pc = "next" /\ health'.age = health.age + 1 /\ health'.excuse = health.excuse
        /\ health'.result = health.result
    BY <1>6 DEF Tick, TypeOK, HealthChecks
  <2>2. health.age < HealthTimeout BY <1>0, <1>6 DEF Timed
  <2>3. Timed' /\ Heard' /\ Excusable'
    BY <1>0, <1>3, <2>1, <2>2 DEF Measured, Timed, Heard, Excusable
  <2>4. Backed' BY <1>0, <1>1, <1>2, <1>6, <2>1 DEF Backed
  <2>5. ~health.excuse => Sure'
    <3>1. lock # Nobody => conn[lock].probe < ProbeTimeout
      <4> SUFFICES ASSUME lock # Nobody PROVE conn[lock].probe < ProbeTimeout
        OBVIOUS
      <4>1. lock \in Conns /\ conn[lock].pc = "probing" /\ conn[lock].probe \in 0 .. ProbeTimeout
        BY DEF Locked, TypeOK, Connections
      <4>2. ~Urgent(lock) BY <4>1 DEF Tick
      <4> QED BY <4>1, <4>2 DEF Urgent
    <3>2. lock # Nobody => conn[lock].probe \in Nat BY DEF TypeOK, Connections
    <3>3. ~health.excuse => verdict.known /\ verdict.ok /\ verdict.age = 0
      BY <1>0, <1>6, <3>1, <3>2 DEF Attempts, Coming
    <3> QED BY <1>1, <3>3 DEF Measured, Sure, CacheHit
  <2>6. Attempts' BY <2>1, <2>5 DEF Attempts
  <2> QED BY <2>3, <2>4, <2>6
<1>7. CASE health.pc = "waiting"
  <2>1. /\ health'.pc = "waiting" /\ health'.age = health.age + 1 /\ health'.wait = health.wait + 1
        /\ health'.excuse = health.excuse /\ health'.conn = health.conn
        /\ health'.result = health.result
    BY <1>7 DEF Tick, TypeOK, HealthChecks
  <2>2. health.conn \in Conns /\ ~HealthUrgent BY <1>0, <1>7 DEF Timed, Tick
  <2>3. health.wait < ProbeTimeout /\ conn[health.conn].pc # "closed"
    BY <1>3, <1>7, <2>2 DEF HealthUrgent
  <2>4. Timed' /\ Excusable'
    BY <1>0, <1>3, <1>7, <2>1, <2>3 DEF Measured, Timed, Excusable
  <2>5. Heard' BY <2>1, <2>2, <2>3, TickKeeps DEF Heard
  <2>6. Backed' BY <1>0, <1>1, <1>2, <1>7, <2>1 DEF Backed
  <2>7. ASSUME ~health.excuse PROVE health.age = health.wait /\ Coming(health.wait)'
    <3>1. lock # Nobody BY <1>7, <2>7, TickFinds
    <3>2. lock \in Conns /\ conn[lock].pc = "probing" /\ conn[lock].probe \in Nat
      BY <3>1 DEF Locked, TypeOK, Connections
    <3>3. ~CacheHit BY <1>0, <3>1 DEF Free
    <3>4. health.age = health.wait BY <1>0, <1>7, <2>7, <3>3 DEF Attempts, Sure
    <3>5. conn[lock].probe >= health.wait
      BY <1>0, <1>3, <1>7, <2>7, <3>2, <3>3, <3>4 DEF Attempts, Coming, CacheHit
    <3>6. conn'[lock].probe = conn[lock].probe + 1 BY <3>2, TickKeeps
    <3>7. conn'[lock'].probe >= health'.wait BY <1>1, <1>3, <2>1, <3>2, <3>5, <3>6
    <3> QED BY <1>1, <2>1, <3>1, <3>4, <3>7 DEF Coming
  <2>8. Attempts' BY <1>3, <2>1, <2>7 DEF Attempts
  <2> QED BY <2>4, <2>5, <2>6, <2>8
<1> QED BY <1>4, <1>5, <1>6, <1>7 DEF TypeOK, HealthChecks

LEMMA HealthStep ==
  ASSUME TypeOK, Slots, Locked, HealthInv, Measured, [Next]_vars
  PROVE  HealthInv'
<1>0. /\ TypeOK /\ Slots /\ Locked
      /\ Free /\ Backed /\ Timed /\ Heard /\ Attempts /\ Excusable
  BY DEF HealthInv
<1>1. Free' BY <1>0, FreeStep
<1>2. ASSUME NEW c \in Conns, Connect(c) \/ Serves(c) PROVE HealthInv'
  BY <1>0, <1>1, <1>2, ServesKeeps DEF HealthInv
<1>3. ASSUME NEW c \in Conns, HealthAsks(c) PROVE HealthInv'
  BY <1>0, <1>1, <1>3, HealthAsksKeeps DEF HealthInv
<1>4. CASE AcceptFails BY <1>0, <1>1, <1>4, ExcusedKeeps DEF HealthInv, AcceptFails
<1>5. CASE HealthBegins BY <1>0, <1>1, <1>5, HealthBeginsKeeps DEF HealthInv
<1>6. CASE HealthHears BY <1>0, <1>1, <1>6, HealthHearsKeeps DEF HealthInv
<1>7. CASE VaultChanges \/ UNCHANGED vars
  <2>1. UNCHANGED <<conn, health, lock, verdict, awake>> BY <1>7 DEF VaultChanges, vars
  <2> QED BY <1>0, <1>1, <2>1, QuietKeeps DEF HealthInv
<1>8. CASE Tick BY <1>0, <1>1, <1>8, HealthTickKeeps DEF HealthInv
<1>9. CASE HealthRefused BY <1>0, <1>1, <1>9, HealthRefusedKeeps DEF HealthInv
<1> QED BY <1>2, <1>3, <1>4, <1>5, <1>6, <1>7, <1>8, <1>9 DEF Next

-----------------------------------------------------------------------------
(* The theorems.                                                           *)

IInv == TypeOK /\ Slots /\ Locked /\ Waits /\ Spaced /\ Recent

LEMMA InitHolds == ASSUME Init PROVE IInv
<1> USE Bounds
<1>1. Closed("none") \in Connections /\ Closed("none").pc = "closed" /\ Closed("none").status = "none"
  BY ClosedType, ClosedStatus
<1>2. conn \in [Conns -> Connections] /\ \A c \in Conns : conn[c] = Closed("none")
  BY <1>1 DEF Init
<1>3. Handled = {} BY <1>1, <1>2 DEF Handled
<1>4. Slots BY <1>3, FS_EmptySet DEF Init, Slots
<1>5. TypeOK
  <2>1. Off("none") \in HealthChecks BY DEF Off, HealthChecks
  <2>2. [known |-> FALSE, ok |-> FALSE, age |-> 0] \in [known : BOOLEAN, ok : BOOLEAN, age : 0 .. Ttl]
    OBVIOUS
  <2>3. 0 \in 0 .. MaxConns /\ 0 \in 0 .. Horizon /\ Ttl \in 0 .. Ttl BY DEF Horizon
  <2> QED BY <1>2, <2>1, <2>2, <2>3 DEF Init, TypeOK
<1>6. Locked /\ Waits BY <1>1, <1>2 DEF Init, Locked, Waits
<1>7. Spaced BY DEF Init, Spaced
<1>8. Recent BY <1>1, <1>2 DEF Init, Recent, CacheHit
<1> QED BY <1>4, <1>5, <1>6, <1>7, <1>8 DEF IInv

LEMMA StepHolds == ASSUME IInv, [Next]_vars PROVE IInv'
BY TypeStep, LockedStep, WaitsStep, SpacedStep, RecentStep DEF IInv

LEMMA Invariance == Spec => []IInv
BY InitHolds, StepHolds, PTL DEF Spec

(* Every variable of the gate keeps its type; in particular no more than     *)
(* MaxConns permits are ever taken (limiter.rs:30-39).                       *)
THEOREM TypeCorrect == Spec => []TypeOK
BY Invariance, PTL DEF IInv

(* Every path out of a connection gives its slot back, and no slot is held   *)
(* for longer than one read and one probe (server.rs:88-91, liveness.rs:36). *)
THEOREM SlotsReturn == Spec => []SlotsAreGivenBack
<1>1. ASSUME IInv PROVE SlotsAreGivenBack
  <2>1. ASSUME NEW c \in Handled PROVE conn[c].age <= ReadTimeout + ProbeTimeout
    <3>1. c \in Conns /\ conn[c].age \in Nat /\ conn[c].probe \in 0 .. ProbeTimeout
      BY <1>1 DEF IInv, TypeOK, Connections, Handled
    <3>2. lock # Nobody => conn[lock].probe \in 0 .. ProbeTimeout
      BY <1>1 DEF IInv, TypeOK, Connections
    <3> QED BY <1>1, <3>1, <3>2, Bounds DEF IInv, Waits, Handled
  <2> QED BY <1>1, <2>1 DEF IInv, Slots, SlotsAreGivenBack
<1> QED BY <1>1, Invariance, PTL

(* The vault is probed by one handler at a time, and not again before a      *)
(* cache window has passed since the probe before began (liveness.rs:36-47). *)
THEOREM ProbesKeepTheirDistance == Spec => ProbesAreSpaced
<1>1. ASSUME IInv, [Next]_vars
      PROVE  [lock = Nobody /\ lock' # Nobody =>
                quiet >= Ttl /\ (verdict.known => verdict.age >= Ttl)]_vars
  BY <1>1, SpacedProbes DEF IInv
<1> QED BY <1>1, Invariance, PTL DEF Spec, ProbesAreSpaced

(* An answer tells what the vault could do within the last probe and the     *)
(* time to live of a verdict (liveness.rs:38-48, probe.rs:20-60).            *)
THEOREM VerdictsStayRecent == Spec => VerdictsAreRecent
<1>1. ASSUME IInv, [Next]_vars
      PROVE  [\A c \in Handled : c \notin Handled' =>
                /\ conn'[c].code = "200" => good <= ProbeTimeout + Ttl
                /\ conn'[c].code = "503" => bad <= ProbeTimeout + Ttl]_vars
  BY <1>1, RecentVerdicts DEF IInv
<1> QED BY <1>1, Invariance, PTL DEF Spec, VerdictsAreRecent

(* The health check is over within its budget and one probe, and calls the  *)
(* vault unhealthy only if the gate turned it away or a probe did fail      *)
(* (healthcheck.rs:1-12), whenever a cached verdict outlives a slice of     *)
(* sleep and the budget a probe.                                            *)
THEOREM HealthcheckStaysHonest ==
  ASSUME Measured
  PROVE  Spec => []HealthcheckIsHonest
<1>1. ASSUME Init PROVE HealthInv
  <2>1. lock = Nobody /\ health.pc = "off" /\ health.age = 0 /\ health.result = "none"
    BY <1>1 DEF Init, Off
  <2> QED
    BY <2>1 DEF HealthInv, Free, Backed, Timed, Heard, Attempts, Excusable
<1>2. IInv /\ HealthInv /\ [Next]_vars => HealthInv'
  BY HealthStep DEF IInv
<1>3. ASSUME IInv, HealthInv PROVE HealthcheckIsHonest
  <2>1. health \in HealthChecks BY <1>3 DEF IInv, TypeOK
  <2> QED BY <1>3, <2>1, Bounds DEF Measured, HealthInv, Timed, Excusable, HealthcheckIsHonest, HealthChecks
<1> QED BY <1>1, <1>2, <1>3, Invariance, InitHolds, StepHolds, PTL DEF Spec
=============================================================================
