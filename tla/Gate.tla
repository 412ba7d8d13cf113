--------------------------------- MODULE Gate ---------------------------------
(***************************************************************************)
(* The gatekeeper on the public port (runtime/gate/server.rs, limiter.rs,  *)
(* liveness.rs, probe.rs) and the image's health check (healthcheck.rs),   *)
(* which asks it over the loopback.                                        *)
(*                                                                         *)
(* Time is counted in units.  What the code does at once, it does before   *)
(* the next unit begins (Urgent); what a peer does, it does when it likes, *)
(* until a timeout ends the wait.                                          *)
(***************************************************************************)
EXTENDS Integers, FiniteSets

CONSTANTS
  Conns,         \* connections at one time, in the backlog or accepted
  Nobody,        \* no connection
  MaxConns,      \* MAX_CONNS
  ReadTimeout,   \* READ_TIMEOUT, for the whole request head
  ProbeTimeout,  \* PROBE_TIMEOUT, for one probe from end to end
  Ttl,           \* PROBE_TTL
  HealthTimeout, \* HEALTHCHECK_TIMEOUT
  Failures       \* whether spawns, accepts and connects may fail

ASSUME GateAssumption ==
  /\ IsFiniteSet(Conns) /\ Nobody \notin Conns
  /\ MaxConns \in Nat
  /\ {ReadTimeout, ProbeTimeout, Ttl, HealthTimeout} \subseteq Nat \ {0}
  /\ Failures \in BOOLEAN

VARIABLES
  conn,      \* each connection and its handler
  active,    \* permits taken from the limiter
  awake,     \* the accept loop is not in its backoff
  lock,      \* the connection whose handler holds the verdict's mutex
  verdict,   \* the cached verdict and its age
  vault,     \* how the vault answers now
  health,    \* the health check in progress
  good, bad, \* history: units since the vault could answer, since it could fail to
  quiet      \* history: units since a probe began

vars == <<conn, active, awake, lock, verdict, vault, health, good, bad, quiet>>
history == <<good, bad, quiet>>

-----------------------------------------------------------------------------
\* "ok" and "refusing" answer at once, with a 2xx or without; "slow" answers
\* 2xx in its own time; "hung" never does.
Vaults == {"ok", "slow", "refusing", "hung"}
CanAnswer(v) == v \in {"ok", "slow"}
CanFail(v) == v # "ok"

Closed(code) == [pc |-> "closed", age |-> 0, probe |-> 0, status |-> "none", code |-> code]
Handled == {c \in Conns : conn[c].pc \in {"reading", "asking", "probing"}}
Off(result) == [pc |-> "off", age |-> 0, wait |-> 0, conn |-> Nobody, result |-> result, excuse |-> FALSE]

Horizon == Ttl + ProbeTimeout + 1   \* bound: what history remembers
Older(n) == IF n < Horizon THEN n + 1 ELSE n

Init ==
  /\ conn = [c \in Conns |-> Closed("none")]
  /\ active = 0 /\ awake = TRUE /\ lock = Nobody
  /\ verdict = [known |-> FALSE, ok |-> FALSE, age |-> 0]
  /\ vault \in Vaults
  /\ health = Off("none")
  /\ good = 0 /\ bad = 0 /\ quiet = Ttl

-----------------------------------------------------------------------------
(* Admission: `serve_with`, `try_acquire` and the permit's drop.           *)

Opens(c) ==
  /\ conn[c].pc = "closed"
  /\ conn' = [conn EXCEPT ![c] = [Closed("none") EXCEPT !.pc = "backlog"]]

Connect(c) ==
  /\ Opens(c)
  /\ UNCHANGED <<active, awake, lock, verdict, vault, health, history>>

\* What the gate cannot help excuses a health check in progress.
Excused == health' = IF health.pc = "off" THEN health ELSE [health EXCEPT !.excuse = TRUE]

TryAcquire == active < MaxConns

Admit(c) ==
  /\ awake /\ conn[c].pc = "backlog" /\ TryAcquire
  /\ active' = active + 1
  /\ conn' = [conn EXCEPT ![c].pc = "reading", ![c].age = 0]
  /\ UNCHANGED <<awake, lock, verdict, vault, health, history>>

\* Over the limit: 503 from the accept loop itself, without a handler.  To a
\* client, that is the answer of a vault that is down.
Reject(c) ==
  /\ awake /\ conn[c].pc = "backlog" /\ ~TryAcquire
  /\ conn' = [conn EXCEPT ![c] = Closed("503")]
  /\ IF health.conn = c THEN Excused ELSE UNCHANGED health
  /\ UNCHANGED <<active, awake, lock, verdict, vault, history>>

\* Mutant: the permit is not in the closure, so it outlives it.
SpawnFailsLeaks(c) ==
  /\ Failures /\ awake /\ conn[c].pc = "backlog" /\ TryAcquire
  /\ awake' = FALSE
  /\ active' = active + 1
  /\ conn' = [conn EXCEPT ![c] = Closed("none")]
  /\ Excused
  /\ UNCHANGED <<lock, verdict, vault, history>>

\* No thread could be spawned: the closure, and the permit in it, are dropped.
SpawnFails(c) ==
  /\ Failures /\ awake /\ conn[c].pc = "backlog" /\ TryAcquire
  /\ awake' = FALSE
  /\ conn' = [conn EXCEPT ![c] = Closed("none")]
  /\ Excused
  /\ UNCHANGED <<active, lock, verdict, vault, history>>

\* Descriptors are exhausted: the connection stays in the backlog.
AcceptFails ==
  /\ Failures /\ awake /\ \E c \in Conns : conn[c].pc = "backlog"
  /\ awake' = FALSE
  /\ Excused
  /\ UNCHANGED <<conn, active, lock, verdict, vault, history>>

Answers(c, code) ==
  /\ conn' = [conn EXCEPT ![c] = Closed(code)]
  /\ active' = active - 1

-----------------------------------------------------------------------------
(* One request: `handle_with`.                                             *)

\* A whole first line: GET /alive, or anything else.
HeadAlive(c) ==
  /\ conn[c].pc = "reading"
  /\ conn' = [conn EXCEPT ![c].pc = "asking"]
  /\ UNCHANGED <<active, awake, lock, verdict, vault, health, history>>

\* Another request, an oversized head, one that ends or is not there in time
\* is denied with a 403; a dead socket is closed.  Neither tells a verdict.
HeadDenied(c) ==
  /\ conn[c].pc = "reading" /\ health.conn # c
  /\ Answers(c, "none")
  /\ UNCHANGED <<awake, lock, verdict, vault, health, history>>

-----------------------------------------------------------------------------
(* The verdict: `Liveness::alive`, under its mutex from end to end.        *)

\* Mutant: a verdict is never too old.
CacheHitForever == verdict.known

CacheHit == verdict.known /\ verdict.age < Ttl

Code(ok) == IF ok THEN "200" ELSE "503"

AskCached(c) ==
  /\ conn[c].pc = "asking" /\ lock = Nobody /\ CacheHit
  /\ Answers(c, Code(verdict.ok))
  /\ UNCHANGED <<awake, lock, verdict, vault, health, history>>

\* Mutant: the cache is looked at before the mutex is taken, not after.
AskProbeUnchecked(c) ==
  /\ conn[c].pc = "asking" /\ lock = Nobody
  /\ lock' = c
  /\ conn' = [conn EXCEPT ![c].pc = "probing", ![c].probe = 0]
  /\ quiet' = 0
  /\ UNCHANGED <<active, awake, verdict, vault, health, good, bad>>

AskProbe(c) ==
  /\ conn[c].pc = "asking" /\ lock = Nobody /\ ~CacheHit
  /\ lock' = c
  /\ conn' = [conn EXCEPT ![c].pc = "probing", ![c].probe = 0]
  /\ quiet' = 0
  /\ UNCHANGED <<active, awake, verdict, vault, health, good, bad>>

\* The vault forms an answer; it may take the rest of the probe to arrive.
VaultAnswers(c) ==
  /\ conn[c].pc = "probing" /\ conn[c].status = "none"
  /\ vault # "hung"
  /\ conn' = [conn EXCEPT ![c].status = IF vault = "refusing" THEN "bad" ELSE "2xx"]
  /\ UNCHANGED <<active, awake, lock, verdict, vault, health, history>>

\* Mutant: a verdict is told but not cached.
ProbeEndsUncached(c) ==
  /\ conn[c].pc = "probing"
  /\ conn[c].status # "none" \/ conn[c].probe >= ProbeTimeout
  /\ LET ok == conn[c].status = "2xx"
     IN /\ Answers(c, Code(ok))
        /\ IF ok THEN UNCHANGED health ELSE Excused
  /\ lock' = Nobody
  /\ UNCHANGED <<awake, verdict, vault, history>>

\* `get_alive` returns, and its result is cached and given to this request.
\* One deadline covers the probe: whatever has not arrived by then is a no.
ProbeEnds(c) ==
  /\ conn[c].pc = "probing"
  /\ conn[c].status # "none" \/ conn[c].probe >= ProbeTimeout
  /\ LET ok == conn[c].status = "2xx"
     IN /\ verdict' = [known |-> TRUE, ok |-> ok, age |-> 0]
        /\ Answers(c, Code(ok))
        /\ IF ok THEN UNCHANGED health ELSE Excused
  /\ lock' = Nobody
  /\ UNCHANGED <<awake, vault, history>>

-----------------------------------------------------------------------------
(* The health check: `healthcheck_until` over `wait_until`.                *)

HealthBegins ==
  /\ health.pc = "off"
  /\ health' = [Off("none") EXCEPT !.pc = "next", !.excuse = ~awake \/ (CacheHit /\ ~verdict.ok)]
  /\ UNCHANGED <<conn, active, awake, lock, verdict, vault, history>>

HealthAsks(c) ==
  /\ health.pc = "next"
  /\ Opens(c)
  /\ health' = [health EXCEPT !.pc = "waiting", !.wait = 0, !.conn = c]
  /\ UNCHANGED <<active, awake, lock, verdict, vault, history>>

\* No verdict: unhealthy where the deadline has passed, else a slice of sleep.
HealthWaits(excuse) ==
  health' = IF health.age >= HealthTimeout
            THEN [Off("unhealthy") EXCEPT !.excuse = excuse]
            ELSE [health EXCEPT !.pc = "asleep", !.conn = Nobody, !.excuse = excuse]

\* The connect fails at once: the gate of a container that boots is not bound
\* yet, or no descriptor is left.
HealthRefused ==
  /\ Failures /\ health.pc = "next"
  /\ HealthWaits(TRUE)
  /\ UNCHANGED <<conn, active, awake, lock, verdict, vault, history>>

\* The answer is read, or its own probe budget is over; the handler, if there
\* is one, goes on.
HealthHears ==
  /\ health.pc = "waiting"
  /\ LET c == health.conn
         came == conn[c].pc = "closed"
     IN /\ came \/ health.wait >= ProbeTimeout
        /\ IF came /\ conn[c].code = "200" THEN health' = Off("healthy")
           ELSE HealthWaits(health.excuse)
  /\ UNCHANGED <<conn, active, awake, lock, verdict, vault, history>>

-----------------------------------------------------------------------------
(* The vault and time.                                                     *)

VaultChanges ==
  /\ \E v \in Vaults \ {vault} :
       /\ vault' = v
       /\ good' = IF CanAnswer(v) THEN 0 ELSE good
       /\ bad' = IF CanFail(v) THEN 0 ELSE bad
  /\ UNCHANGED <<conn, active, awake, lock, verdict, health, quiet>>

\* What happens before the unit is over.
Urgent(c) ==
  \/ conn[c].pc = "backlog" /\ awake
  \/ conn[c].pc = "reading" /\ (conn[c].age >= ReadTimeout \/ health.conn = c)
  \/ conn[c].pc = "asking" /\ lock = Nobody
  \/ conn[c].pc = "probing" /\ (conn[c].probe >= ProbeTimeout \/ vault \in {"ok", "refusing"})
HealthUrgent ==
  \/ health.pc = "next" /\ \E c \in Conns : conn[c].pc = "closed"   \* bound: else none is free
  \/ health.pc = "waiting" /\ (health.wait >= ProbeTimeout \/ conn[health.conn].pc = "closed")

Tick ==
  /\ ~HealthUrgent /\ \A c \in Conns : ~Urgent(c)
  /\ awake' = TRUE
  /\ conn' = [c \in Conns |->
       CASE c \in Handled ->
              [conn[c] EXCEPT !.age = @ + 1,
                              !.probe = IF conn[c].pc = "probing" THEN @ + 1 ELSE @]
         [] OTHER -> conn[c]]
  /\ verdict' = IF verdict.known /\ verdict.age < Ttl
                THEN [verdict EXCEPT !.age = @ + 1] ELSE verdict
  /\ health' = CASE health.pc = "waiting" -> [health EXCEPT !.age = @ + 1, !.wait = @ + 1]
                 [] health.pc = "asleep" -> [health EXCEPT !.age = @ + 1, !.pc = "next"]
                 [] OTHER -> health
  /\ good' = IF CanAnswer(vault) THEN 0 ELSE Older(good)
  /\ bad' = IF CanFail(vault) THEN 0 ELSE Older(bad)
  /\ quiet' = IF quiet < Ttl THEN quiet + 1 ELSE quiet
  /\ UNCHANGED <<active, lock, vault>>

-----------------------------------------------------------------------------
Serves(c) ==
  \/ Admit(c) \/ Reject(c) \/ SpawnFails(c)
  \/ HeadAlive(c) \/ HeadDenied(c)
  \/ AskCached(c) \/ AskProbe(c)
  \/ VaultAnswers(c) \/ ProbeEnds(c)

Next ==
  \/ \E c \in Conns : Connect(c) \/ Serves(c) \/ HealthAsks(c)
  \/ AcceptFails
  \/ HealthBegins \/ HealthRefused \/ HealthHears
  \/ VaultChanges
  \/ Tick

Spec == Init /\ [][Next]_vars

-----------------------------------------------------------------------------
(* Properties.                                                             *)

Connections ==
  [pc : {"closed", "backlog", "reading", "asking", "probing"}, age : Nat,
   probe : 0 .. ProbeTimeout, status : {"none", "2xx", "bad"}, code : {"none", "200", "503"}]
HealthChecks ==
  [pc : {"off", "next", "waiting", "asleep"}, age : Nat, wait : Nat,
   conn : Conns \union {Nobody}, result : {"none", "healthy", "unhealthy"}, excuse : BOOLEAN]

TypeOK ==
  /\ conn \in [Conns -> Connections]
  /\ active \in 0 .. MaxConns
  /\ awake \in BOOLEAN
  /\ lock \in Conns \union {Nobody}
  /\ verdict \in [known : BOOLEAN, ok : BOOLEAN, age : 0 .. Ttl]
  /\ vault \in Vaults
  /\ health \in HealthChecks
  /\ good \in 0 .. Horizon /\ bad \in 0 .. Horizon /\ quiet \in 0 .. Ttl

(* Whatever a client sends or withholds and however a handler ends, its slot  *)
(* is given back, and no later than one read and one probe after it was       *)
(* taken: waiting for another handler's probe never leads to a second one.    *)
SlotsAreGivenBack ==
  /\ active = Cardinality(Handled)
  /\ \A c \in Handled : conn[c].age <= ReadTimeout + ProbeTimeout

(* A verdict is never older than one probe and the time it may be cached: 200 *)
(* means that the vault could answer that recently, 503 that it could fail.   *)
VerdictsAreRecent ==
  [][\A c \in Handled : c \notin Handled' =>
       /\ conn'[c].code = "200" => good <= ProbeTimeout + Ttl
       /\ conn'[c].code = "503" => bad <= ProbeTimeout + Ttl]_vars

(* A flood of requests reaches the vault as one probe at a time, none sooner  *)
(* than a cache window after the one before.                                  *)
ProbesAreSpaced ==
  [][lock = Nobody /\ lock' # Nobody =>
       quiet >= Ttl /\ (verdict.known => verdict.age >= Ttl)]_vars

(* The health check is over within its budget and one probe.  It reports a    *)
(* vault that could answer just now, and reports none only if it was turned   *)
(* away or a probe did fail: a vault that takes its whole budget to answer,   *)
(* which is the check's own, is seen on the next attempt, in the cache.       *)
HealthcheckIsHonest ==
  /\ health.age <= HealthTimeout + ProbeTimeout
  /\ health.result = "unhealthy" => health.excuse
=============================================================================
