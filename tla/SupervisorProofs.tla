--------------------------- MODULE SupervisorProofs ---------------------------
(* What holds of the container's life for every configuration, every budget *)
(* and any number of stop signals.  The invariants are layered: the types,  *)
(* then the children, the stop flag, the final flush and the exit code.     *)
EXTENDS Supervisor, TLAPS

-----------------------------------------------------------------------------
(* The inductive invariants.                                               *)

(* The reactor is inside a run or a final flush only with a task at hand.  *)
AtTask == reactor.pc \in {"run", "finish"} => reactor.i \in Tasks

Typed == TypeOK /\ AtTask

BeforeVault == BootPhases \cup {"StartVw"}
Ending == {"drain", "exited"}
Teardown == {"ReapTsd", "ReapVw"} \cup Ending

(* A child has not been started, lives, or has had its status delivered.   *)
OneLife ==
  \A c \in Children :
    \/ child[c] = NoChild
    \/ child[c].alive /\ child[c].status = NotYet
    \/ ~child[c].alive /\ child[c].status # NotYet

Killed(c) == child[c].alive => child[c].kill

(* Teardown leaves a child behind only when it is dead or has its SIGKILL. *)
Swept ==
  /\ main.pc \in BeforeVault => child["vw"] = NoChild
  /\ main.pc = "ReapStopped" /\ main.grace = "kill" => Killed("vw")
  /\ main.pc = "ReapTsd" /\ main.grace = "kill" => Killed("tsd")
  /\ main.pc \in {"ReapVw"} \cup Ending => Killed("tsd")
  /\ main.pc = "ReapVw" /\ main.grace = "kill" => Killed("vw")
  /\ main.pc \in Ending => Killed("vw")

(* The flush waits for the drain command, which only the drain sends.      *)
Commanded ==
  /\ reactor.pc \in {"flush", "finish", "done"} => sent
  /\ sent => main.pc \in Ending

ChildInv == OneLife /\ Swept /\ Commanded

(* Every raised flag, and every one the watch loop consumed, is a signal of*)
(* its own.                                                                *)
Counted ==
  /\ stop => stops > 0
  /\ cause = "stop" => stops > 0
  /\ cause = "stop" /\ stop => stops > 1
  /\ cause = "stop" /\ token.forced => stops > 1
  /\ token.forced => main.pc \in Ending

(* What has been flushed so far: a task cut or skipped has used up the     *)
(* budget, and neither the clock nor the hurry-up ever goes back.          *)
Settled(i) ==
  \/ reactor.final[cfg.tasks[i]] = "finished"
  \/ /\ reactor.final[cfg.tasks[i]] \in {"cut", "skipped"}
     /\ clock >= Deadline(reactor.flushAt, token.forced)

FlushInv ==
  /\ reactor.pc \in {"flush", "finish", "done"} =>
       /\ reactor.from = reactor.flushAt
       /\ reactor.flushAt \in 0 .. Horizon
       /\ \A i \in Tasks : i < reactor.i => Settled(i)
  /\ reactor.pc = "done" => reactor.i \notin Tasks

(* A code other than 1 is decided when the vault can no longer change it.  *)
Decided ==
  main.pc \in Teardown =>
    /\ main.code = 0 => stops > 0 \/ child["vw"].status = Exited(0)
    /\ main.code > 1 => exit_code(child["vw"].status) = main.code
    /\ child["vw"].status = Exited(1) => main.code = 1
    /\ main.code # 1 => ~child["vw"].alive

LifeInv == ChildInv /\ Counted /\ FlushInv /\ Decided

-----------------------------------------------------------------------------
(* Types.                                                                  *)

(* Tasks are numbered from 1, two at most, each with a state of its own.   *)
LEMMA TasksShape ==
  ASSUME cfg \in Setups
  PROVE  /\ \E n \in 0 .. 2 : Tasks = 1 .. n
         /\ \A i \in Tasks : cfg.tasks[i] \in {"db", "sync"}
<1>1. cfg.tasks \in TaskLists
  BY SupervisorAssumption DEF Configs
<1> QED
  BY <1>1 DEF Tasks, TaskLists

ChildRecords == [alive : BOOLEAN, term : BOOLEAN, kill : BOOLEAN,
                 status : {NotYet, Exited(0), Exited(1), Signaled(15), Signaled(9)}]

MainPhases == BootPhases \cup {"StartVw", "WatchVault", "WatchTailscaled", "WatchStop",
                               "ReapStopped", "ReapTsd", "ReapVw", "drain", "exited"}

MainOK == main \in [pc : MainPhases, grace : {"term", "kill"}, code : ExitCodes]

LEMMA TypedInit == Init => Typed
<1> SUFFICES ASSUME Init PROVE Typed
  OBVIOUS
<1> USE DEF Init
<1>1. TypeOK
  <2>1. cfg \in Setups /\ stop \in BOOLEAN /\ sent \in BOOLEAN /\ polled \in BOOLEAN
    OBVIOUS
  <2>2. MainOK
    BY DEF MainOK, MainPhases, BootPhases, ExitCodes
  <2>3. child \in [Children -> ChildRecords]
    BY DEF ChildRecords, NoChild, NotYet
  <2>4. clock \in 0 .. Horizon /\ stops \in 0 .. MaxStops
    BY SupervisorAssumption DEF Horizon
  <2>5. reactor \in [pc : {"off", "pass", "run", "wait", "flush", "finish", "done"}, i : 1 .. 3,
                     flushAt : {Never} \cup 0 .. Horizon, from : {Never} \cup 0 .. Horizon,
                     final : [{"db", "sync"} -> {"none", "finished", "cut", "skipped"}]]
    OBVIOUS
  <2> QED
    BY <2>1, <2>2, <2>3, <2>4, <2>5 DEF TypeOK, MainOK, MainPhases, ChildRecords
<1>2. AtTask
  BY DEF AtTask
<1> QED
  BY <1>1, <1>2 DEF Typed

(* A signal changes a child's record and nothing else.                     *)
LEMMA SignalTyped ==
  ASSUME NEW ch \in [Children -> ChildRecords], NEW c \in Children, NEW sig \in {"term", "kill"}
  PROVE  Signal(ch, c, sig) \in [Children -> ChildRecords]
  BY DEF Signal, ChildRecords

LEMMA CodesTyped ==
  ASSUME TypeOK, Reported("vw")
  PROVE  exit_code(child["vw"].status) \in ExitCodes
<1>1. child["vw"].status \in {NotYet, Exited(0), Exited(1), Signaled(15), Signaled(9)}
  BY DEF TypeOK, Children
<1> QED
  BY <1>1 DEF Reported, exit_code, ExitCodes, NotYet, Exited, Signaled

LEMMA GotoTyped ==
  ASSUME MainOK, NEW pc \in MainPhases, Goto(pc)
  PROVE  MainOK' /\ main'.pc = pc /\ main'.grace = main.grace /\ main'.code = main.code
  BY DEF MainOK, Goto

LEMMA ShutdownTyped ==
  ASSUME MainOK, NEW ch \in [Children -> ChildRecords], NEW code \in ExitCodes, Shutdown(ch, code)
  PROVE  /\ MainOK' /\ main'.pc = "ReapTsd" /\ main'.grace = "term" /\ main'.code = code
         /\ child' = Signal(ch, "tsd", "term")
         /\ child' \in [Children -> ChildRecords]
<1>1. main' = [main EXCEPT !.pc = "ReapTsd", !.grace = "term", !.code = code]
  BY DEF Shutdown
<1>2. MainOK' /\ main'.pc = "ReapTsd" /\ main'.grace = "term" /\ main'.code = code
  BY <1>1 DEF MainOK, MainPhases
<1>3. child' = Signal(ch, "tsd", "term")
  BY DEF Shutdown
<1> QED
  BY <1>2, <1>3, SignalTyped DEF Children

(* The types in the parts that the threads change.                         *)
ContainerOK == cfg \in Setups /\ stop \in BOOLEAN /\ MainOK /\ child \in [Children -> ChildRecords]

ReactorOK ==
  reactor \in [pc : {"off", "pass", "run", "wait", "flush", "finish", "done"}, i : 1 .. 3,
               flushAt : {Never} \cup 0 .. Horizon, from : {Never} \cup 0 .. Horizon,
               final : [{"db", "sync"} -> {"none", "finished", "cut", "skipped"}]]

OthersOK ==
  /\ token \in [stop : BOOLEAN, forced : BOOLEAN]
  /\ sent \in BOOLEAN
  /\ clock \in 0 .. Horizon /\ polled \in BOOLEAN
  /\ forcedAt \in {Never} \cup 0 .. Horizon
  /\ stops \in 0 .. MaxStops
  /\ cause \in {"none", "vault", "tailscaled", "stop"}

LEMMA TypedParts == TypeOK <=> ContainerOK /\ ReactorOK /\ OthersOK
  BY DEF TypeOK, ContainerOK, ReactorOK, OthersOK, MainOK, MainPhases, ChildRecords

LEMMA TypedPartsNext == ContainerOK' /\ ReactorOK' /\ OthersOK' => TypeOK'
  BY DEF TypeOK, ContainerOK, ReactorOK, OthersOK, MainOK, MainPhases, ChildRecords

LEMMA TypedBoot ==
  ASSUME Typed, Boot
  PROVE  Typed'
<1>1. ContainerOK /\ ReactorOK /\ OthersOK
  BY TypedParts DEF Typed
<1>2. UNCHANGED <<cfg, maintenance, drain, stops, cause>>
  BY DEF Boot
<1>3. ReactorOK' /\ OthersOK' /\ AtTask' /\ cfg' \in Setups
  BY <1>1, <1>2 DEF Typed, ReactorOK, OthersOK, AtTask, Tasks, ContainerOK, maintenance, drain
<1>4. 0 \in ExitCodes /\ 1 \in ExitCodes
  BY DEF ExitCodes
<1>5. /\ MainOK
      /\ child \in [Children -> ChildRecords]
      /\ [child EXCEPT !["tsd"] = Spawned] \in [Children -> ChildRecords]
  BY <1>1 DEF ContainerOK, Children, Spawned, ChildRecords, NoChild, NotYet
<1>6. stop' \in BOOLEAN
  BY <1>1 DEF ContainerOK, Boot, AdoptLineage, RestoreDb, RestoreState, Tailscaled, DaemonWait,
              TailscaleUp, Serve, FailedPhase, TakeStop
<1>7. MainOK' /\ child' \in [Children -> ChildRecords]
  <2>1. CASE Shutdown(child, 0) \/ Shutdown(child, 1)
    BY <2>1, <1>4, <1>5, ShutdownTyped
  <2>2. CASE /\ \E pc \in MainPhases : Goto(pc)
             /\ child' = child \/ child' = [child EXCEPT !["tsd"] = Spawned]
    BY <2>2, <1>5, GotoTyped
  <2> QED
    BY <2>1, <2>2 DEF Boot, AdoptLineage, RestoreDb, RestoreState, Tailscaled, SpawnTailscaled,
       DaemonWait, TailscaleUp, Serve, FailedPhase, MainPhases, BootPhases
<1> QED
  BY <1>3, <1>6, <1>7, TypedPartsNext DEF Typed, ContainerOK

LEMMA TypedStart ==
  ASSUME Typed, StartVw
  PROVE  Typed'
<1> DEFINE started == [child EXCEPT !["vw"] = Spawned]
<1>1. ContainerOK /\ ReactorOK /\ OthersOK
  BY TypedParts DEF Typed
<1>2. UNCHANGED <<cfg, stop, token, sent, drain, stops, cause>>
  BY DEF StartVw
<1>3. /\ MainOK /\ 1 \in ExitCodes /\ "WatchVault" \in MainPhases
      /\ child \in [Children -> ChildRecords] /\ started \in [Children -> ChildRecords]
  BY <1>1 DEF ContainerOK, Children, Spawned, ChildRecords, NoChild, NotYet, ExitCodes, MainPhases
<1>4. MainOK' /\ child' \in [Children -> ChildRecords]
  <2>1. Shutdown(child, 1) \/ Shutdown(started, 1) \/ (child' = started /\ Goto("WatchVault"))
    BY DEF StartVw
  <2> HIDE DEF started
  <2> QED
    BY <2>1, <1>3, GotoTyped, ShutdownTyped
<1>5. reactor' = reactor \/ reactor' = [reactor EXCEPT !.pc = "pass"]
  BY DEF StartVw
<1> QED
  BY <1>1, <1>2, <1>4, <1>5, TypedPartsNext
  DEF Typed, ContainerOK, ReactorOK, OthersOK, AtTask, Tasks, drain

(* A step of the main thread after boot leaves the reactor alone.          *)
LEMMA TypedWatch ==
  ASSUME Typed, WatchVault \/ WatchTailscaled \/ WatchStop
  PROVE  Typed'
<1>1. ContainerOK /\ ReactorOK /\ OthersOK
  BY TypedParts DEF Typed
<1>2. UNCHANGED <<cfg, sent, reactor, drain, stops>>
  BY DEF WatchVault, WatchTailscaled, WatchStop
<1>3. MainOK /\ child \in [Children -> ChildRecords] /\ 1 \in ExitCodes
  BY <1>1 DEF ContainerOK, ExitCodes
<1>4. MainOK' /\ child' \in [Children -> ChildRecords]
  <2>1. CASE WatchVault
    <3>1. CASE Goto("WatchTailscaled") /\ UNCHANGED child
      BY <3>1, <1>3, GotoTyped DEF MainPhases
    <3>2. CASE Reported("vw") /\ Shutdown(child, exit_code(child["vw"].status))
      BY <3>2, <1>3, CodesTyped, ShutdownTyped DEF Typed
    <3> QED
      BY <2>1, <3>1, <3>2 DEF WatchVault, LeaveWatch
  <2>2. CASE WatchTailscaled
    <3>1. CASE Goto("WatchStop") /\ UNCHANGED child
      BY <3>1, <1>3, GotoTyped DEF MainPhases
    <3>2. CASE Shutdown(Signal(child, "vw", "term"), 1)
      BY <3>2, <1>3, SignalTyped, ShutdownTyped DEF Children
    <3> QED
      BY <2>2, <3>1, <3>2 DEF WatchTailscaled, LeaveWatch
  <2>3. CASE WatchStop
    <3>1. CASE Goto("WatchVault") /\ UNCHANGED child
      BY <3>1, <1>3, GotoTyped DEF MainPhases
    <3>2. CASE /\ child' = Signal(Signal(child, "tsd", "term"), "vw", "term")
               /\ main' = [main EXCEPT !.pc = "ReapStopped", !.grace = "term"]
      BY <3>2, <1>3, SignalTyped DEF Children, MainOK, MainPhases
    <3> QED
      BY <2>3, <3>1, <3>2 DEF WatchStop
  <2> QED
    BY <2>1, <2>2, <2>3
<1>5. stop' \in BOOLEAN /\ token' \in [stop : BOOLEAN, forced : BOOLEAN]
      /\ cause' \in {"none", "vault", "tailscaled", "stop"}
  BY <1>1 DEF WatchVault, WatchTailscaled, WatchStop, LeaveWatch, TakeStop, ContainerOK, OthersOK
<1> QED
  BY <1>1, <1>2, <1>4, <1>5, TypedPartsNext
  DEF Typed, ContainerOK, ReactorOK, OthersOK, AtTask, Tasks, drain

LEMMA TypedReap ==
  ASSUME Typed, ReapStopped \/ ReapTsd \/ ReapVw
  PROVE  Typed'
<1>1. ContainerOK /\ ReactorOK /\ OthersOK
  BY TypedParts DEF Typed
<1>2. UNCHANGED <<cfg, stop, reactor, token, drain, stops, cause>>
  BY DEF ReapStopped, ReapTsd, ReapVw, BeginDrain, maintenance
<1>3. MainOK /\ child \in [Children -> ChildRecords] /\ 1 \in ExitCodes
  BY <1>1 DEF ContainerOK, ExitCodes
<1>4. \A c \in Children : Escalate(c) => MainOK' /\ child' \in [Children -> ChildRecords]
  BY <1>3, SignalTyped DEF Escalate, MainOK
<1>5. MainOK' /\ child' \in [Children -> ChildRecords] /\ sent' \in BOOLEAN
  <2>1. CASE ReapStopped
    <3> DEFINE code == IF Reported("vw") THEN exit_code(child["vw"].status) ELSE 1
    <3>1. code \in ExitCodes
      BY <1>3, CodesTyped DEF Typed
    <3>2. Escalate("vw") \/ Shutdown(child, code)
      BY <2>1 DEF ReapStopped
    <3> HIDE DEF code
    <3>3. sent' = sent
      BY <2>1 DEF ReapStopped, maintenance
    <3> QED
      BY <3>1, <3>2, <3>3, <1>1, <1>3, <1>4, ShutdownTyped DEF Children, OthersOK
  <2>2. CASE ReapTsd
    BY <2>2, <1>1, <1>3, <1>4 DEF ReapTsd, Children, MainOK, MainPhases, maintenance, OthersOK
  <2>3. CASE ReapVw
    BY <2>3, <1>1, <1>3, <1>4, GotoTyped DEF ReapVw, BeginDrain, Children, MainPhases, OthersOK
  <2> QED
    BY <2>1, <2>2, <2>3
<1> QED
  BY <1>1, <1>2, <1>5, TypedPartsNext
  DEF Typed, ContainerOK, ReactorOK, OthersOK, AtTask, Tasks, drain

LEMMA TypedDrain ==
  ASSUME Typed, DrainPass \/ Tick
  PROVE  Typed'
<1>1. ContainerOK /\ ReactorOK /\ OthersOK
  BY TypedParts DEF Typed
<1>2. UNCHANGED <<cfg, stop, child, sent, reactor, stops, cause>>
  BY DEF DrainPass, Tick, container, maintenance
<1>3. MainOK'
  BY <1>1, GotoTyped DEF DrainPass, Tick, ContainerOK, MainPhases, container, MainOK
<1>4. clock' \in 0 .. Horizon /\ polled' \in BOOLEAN
      /\ forcedAt' \in {Never} \cup 0 .. Horizon
      /\ token' \in [stop : BOOLEAN, forced : BOOLEAN]
  <2>1. CASE DrainPass
    BY <2>1, <1>1 DEF DrainPass, OthersOK, ContainerOK, Stamp
  <2>2. CASE Tick
    <3>1. Horizon \in Nat
      BY SupervisorAssumption DEF Horizon
    <3>2. clock' \in 0 .. Horizon
      BY <2>2, <3>1, <1>1 DEF Tick, OthersOK
    <3> QED
      BY <2>2, <3>2, <1>1 DEF Tick, OthersOK, maintenance
  <2> QED
    BY <2>1, <2>2
<1> QED
  BY <1>1, <1>2, <1>3, <1>4, TypedPartsNext
  DEF Typed, ContainerOK, ReactorOK, OthersOK, AtTask, Tasks

(* What a step of the reactor does to its record, field by field.          *)
ReactorMoves(pc, i, at, from, final) ==
  reactor' = [pc |-> pc, i |-> i, flushAt |-> at, from |-> from, final |-> final]

LEMMA Moves ==
  ASSUME ReactorOK
  PROVE  /\ PassTask =>
              \/ reactor.i \in Tasks
                 /\ ReactorMoves("run", reactor.i, reactor.flushAt, reactor.from, reactor.final)
              \/ reactor.i \in Tasks
                 /\ ReactorMoves("pass", reactor.i + 1, reactor.flushAt, reactor.from, reactor.final)
              \/ ReactorMoves("wait", reactor.i, reactor.flushAt, reactor.from, reactor.final)
         /\ RunEnds =>
              ReactorMoves("pass", reactor.i + 1, reactor.flushAt, reactor.from, reactor.final)
         /\ WaitTimesOut =>
              ReactorMoves("pass", 1, reactor.flushAt, reactor.from, reactor.final)
         /\ FlushStarts => sent /\ ReactorMoves("flush", 1, clock, clock, reactor.final)
         /\ FlushTask => reactor.pc = "flush" /\
              \/ reactor.i \in Tasks
                 /\ ReactorMoves("finish", reactor.i, reactor.flushAt, reactor.from, reactor.final)
              \/ /\ reactor.i \in Tasks /\ abort
                 /\ ReactorMoves("flush", reactor.i + 1, reactor.flushAt, reactor.from,
                                 [reactor.final EXCEPT ![cfg.tasks[reactor.i]] = "skipped"])
              \/ reactor.i \notin Tasks
                 /\ ReactorMoves("done", reactor.i, reactor.flushAt, reactor.from, reactor.final)
         /\ FinishEnds => reactor.pc = "finish" /\ \E result \in {"finished", "cut"} :
              /\ result = "cut" => abort
              /\ ReactorMoves("flush", reactor.i + 1, reactor.flushAt, reactor.from,
                              [reactor.final EXCEPT ![cfg.tasks[reactor.i]] = result])
<1> USE DEF ReactorOK, ReactorMoves
<1>1. ASSUME PassTask
      PROVE  \/ reactor.i \in Tasks
                /\ ReactorMoves("run", reactor.i, reactor.flushAt, reactor.from, reactor.final)
             \/ reactor.i \in Tasks
                /\ ReactorMoves("pass", reactor.i + 1, reactor.flushAt, reactor.from, reactor.final)
             \/ ReactorMoves("wait", reactor.i, reactor.flushAt, reactor.from, reactor.final)
  BY <1>1 DEF PassTask
<1>2. RunEnds => ReactorMoves("pass", reactor.i + 1, reactor.flushAt, reactor.from, reactor.final)
  BY DEF RunEnds
<1>3. WaitTimesOut => ReactorMoves("pass", 1, reactor.flushAt, reactor.from, reactor.final)
  BY DEF WaitTimesOut
<1>4. FlushStarts => sent /\ ReactorMoves("flush", 1, clock, clock, reactor.final)
  BY DEF FlushStarts
<1>5. ASSUME FlushTask
      PROVE  reactor.pc = "flush" /\
             \/ reactor.i \in Tasks
                /\ ReactorMoves("finish", reactor.i, reactor.flushAt, reactor.from, reactor.final)
             \/ /\ reactor.i \in Tasks /\ abort
                /\ ReactorMoves("flush", reactor.i + 1, reactor.flushAt, reactor.from,
                                [reactor.final EXCEPT ![cfg.tasks[reactor.i]] = "skipped"])
             \/ reactor.i \notin Tasks
                /\ ReactorMoves("done", reactor.i, reactor.flushAt, reactor.from, reactor.final)
  BY <1>5 DEF FlushTask
<1>6. ASSUME FinishEnds
      PROVE  reactor.pc = "finish" /\ \E result \in {"finished", "cut"} :
               /\ result = "cut" => abort
               /\ ReactorMoves("flush", reactor.i + 1, reactor.flushAt, reactor.from,
                               [reactor.final EXCEPT ![cfg.tasks[reactor.i]] = result])
  BY <1>6 DEF FinishEnds
<1> HIDE DEF ReactorOK, ReactorMoves
<1> QED
  BY <1>1, <1>2, <1>3, <1>4, <1>5, <1>6

LEMMA TypedReactor ==
  ASSUME Typed, Maintenance
  PROVE  Typed'
<1>1. ContainerOK /\ ReactorOK /\ OthersOK
  BY TypedParts DEF Typed
<1>2. UNCHANGED <<container, token, sent, drain, stops, cause>>
  BY DEF Maintenance, PassTask, RunEnds, WaitTimesOut, FlushStarts, FlushTask, FinishEnds, ReactorOnly
<1>3. PICK n \in 0 .. 2 : Tasks = 1 .. n
  BY <1>1, TasksShape DEF ContainerOK
<1>4. \A i \in Tasks : cfg.tasks[i] \in {"db", "sync"}
  BY <1>1, TasksShape DEF ContainerOK
<1>5. Tasks' = Tasks
  BY <1>2 DEF container, Tasks
<1>6. reactor.i \in Tasks => reactor.i + 1 \in 1 .. 3
  BY <1>1, <1>3 DEF ReactorOK
<1>7. ReactorOK' /\ AtTask'
  <2> DEFINE Pcs == {"off", "pass", "run", "wait", "flush", "finish", "done"}
             Ats == {Never} \cup 0 .. Horizon
             Finals == [{"db", "sync"} -> {"none", "finished", "cut", "skipped"}]
  <2>0. ASSUME NEW pc \in Pcs, NEW i \in 1 .. 3, NEW at \in Ats, NEW from \in Ats, NEW final \in Finals,
               ReactorMoves(pc, i, at, from, final), pc \in {"run", "finish"} => i \in Tasks
        PROVE  ReactorOK' /\ AtTask'
    BY <2>0, <1>5 DEF ReactorMoves, ReactorOK, AtTask
  <2>1. /\ reactor.pc \in Pcs /\ reactor.i \in 1 .. 3 /\ 1 \in 1 .. 3
        /\ reactor.flushAt \in Ats /\ reactor.from \in Ats /\ clock \in Ats
        /\ reactor.final \in Finals
    BY <1>1 DEF ReactorOK, OthersOK
  <2>2. ASSUME reactor.i \in Tasks, NEW result \in {"finished", "cut", "skipped"}
        PROVE  [reactor.final EXCEPT ![cfg.tasks[reactor.i]] = result] \in Finals
    BY <2>1, <2>2, <1>4
  <2>3. AtTask
    BY DEF Typed
  <2> HIDE DEF Ats, Finals
  <2>4. CASE PassTask
    BY <2>4, <2>0, <2>1, <1>1, <1>6, Moves
  <2>5. CASE RunEnds
    <3>1. reactor.i \in Tasks
      BY <2>5, <2>3 DEF RunEnds, AtTask
    <3> QED
      BY <2>5, <3>1, <2>0, <2>1, <1>1, <1>6, Moves
  <2>6. CASE WaitTimesOut
    BY <2>6, <2>0, <2>1, <1>1, Moves
  <2>7. CASE FlushStarts
    BY <2>7, <2>0, <2>1, <1>1, Moves
  <2>8. CASE FlushTask
    BY <2>8, <2>0, <2>1, <2>2, <1>1, <1>6, Moves
  <2>9. CASE FinishEnds
    <3>1. reactor.i \in Tasks
      BY <2>9, <2>3 DEF FinishEnds, AtTask
    <3> QED
      BY <2>9, <3>1, <2>0, <2>1, <2>2, <1>1, <1>6, Moves
  <2> QED
    BY <2>4, <2>5, <2>6, <2>7, <2>8, <2>9 DEF Maintenance
<1> QED
  BY <1>1, <1>2, <1>7, TypedPartsNext
  DEF Typed, ContainerOK, OthersOK, container, drain, MainOK

LEMMA TypedOutside ==
  ASSUME Typed, StopSignal \/ (\E c \in Children : Ends(c))
  PROVE  Typed'
<1>1. ContainerOK /\ ReactorOK /\ OthersOK
  BY TypedParts DEF Typed
<1>2. UNCHANGED <<cfg, main, maintenance, drain, cause>>
  BY DEF StopSignal, Ends
<1>3. stop' \in BOOLEAN /\ stops' \in 0 .. MaxStops /\ child' \in [Children -> ChildRecords]
  <2>1. CASE StopSignal
    BY <2>1, <1>1, SupervisorAssumption DEF StopSignal, ContainerOK, OthersOK
  <2>2. ASSUME NEW c \in Children, Ends(c) PROVE stop' \in BOOLEAN /\ stops' \in 0 .. MaxStops /\ child' \in [Children -> ChildRecords]
    <3>1. PICK status \in {Exited(0), Exited(1), Signaled(15), Signaled(9)} :
            child' = [child EXCEPT ![c].alive = FALSE, ![c].status = status]
      BY <2>2 DEF Ends
    <3>2. child' = [child EXCEPT ![c] = [@ EXCEPT !.alive = FALSE, !.status = status]]
      BY <3>1
    <3>3. child[c] \in ChildRecords
      BY <1>1 DEF ContainerOK
    <3>4. [child[c] EXCEPT !.alive = FALSE, !.status = status] \in ChildRecords
      BY <3>3 DEF ChildRecords
    <3>5. child' \in [Children -> ChildRecords]
      BY <3>2, <3>4, <1>1 DEF ContainerOK
    <3>6. UNCHANGED <<stop, stops>>
      BY <2>2 DEF Ends
    <3> QED
      BY <3>5, <3>6, <1>1 DEF ContainerOK, OthersOK
  <2> QED
    BY <2>1, <2>2
<1> QED
  BY <1>1, <1>2, <1>3, TypedPartsNext
  DEF Typed, ContainerOK, ReactorOK, OthersOK, AtTask, Tasks, maintenance, drain, MainOK

LEMMA TypedStep == Typed /\ [Next]_vars => Typed'
<1> SUFFICES ASSUME Typed, [Next]_vars PROVE Typed'
  OBVIOUS
<1>1. CASE Next
  BY <1>1, TypedBoot, TypedStart, TypedWatch, TypedReap, TypedDrain, TypedReactor, TypedOutside
  DEF Next, Main
<1>2. CASE UNCHANGED vars
  BY <1>2 DEF vars, container, maintenance, drain, Typed, TypeOK, AtTask, Tasks
<1> QED
  BY <1>1, <1>2

(* Every variable of the container's life keeps its type.                  *)
THEOREM TypeCorrect == Spec => []Typed
  BY TypedInit, TypedStep, PTL DEF Spec

-----------------------------------------------------------------------------
(* The steps of the main thread, as what they do to the children, to the   *)
(* exit code and to where it stands.                                       *)

(* No child is started and none ends; a kill is never taken back.          *)
Same(ch) ==
  \A c \in Children :
    /\ child'[c].alive = ch[c].alive
    /\ child'[c].status = ch[c].status
    /\ ch[c].kill => child'[c].kill
    /\ ch[c] = NoChild => child'[c] = NoChild

Stands(pc, grace, code) == main'.pc = pc /\ main'.grace = grace /\ main'.code = code

LEMMA SignalKeeps ==
  ASSUME NEW ch \in [Children -> ChildRecords], NEW c \in Children, NEW sig \in {"term", "kill"}
  PROVE  /\ \A d \in Children :
              /\ Signal(ch, c, sig)[d].alive = ch[d].alive
              /\ Signal(ch, c, sig)[d].status = ch[d].status
              /\ ch[d].kill => Signal(ch, c, sig)[d].kill
              /\ ch[d] = NoChild => Signal(ch, c, sig)[d] = NoChild
         /\ sig = "kill" /\ ch[c].alive => Signal(ch, c, sig)[c].kill
<1>1. CASE ~ch[c].alive
  BY <1>1 DEF Signal
<1>2. CASE ch[c].alive
  <2>1. Signal(ch, c, sig) = [ch EXCEPT ![c] = [@ EXCEPT ![sig] = TRUE]]
    BY <1>2 DEF Signal
  <2>2. ch[c] \in ChildRecords /\ ch[c] # NoChild
    BY <1>2 DEF NoChild
  <2> QED
    BY <2>1, <2>2 DEF ChildRecords
<1> QED
  BY <1>1, <1>2

LEMMA SameBefore ==
  ASSUME NEW ch \in [Children -> ChildRecords], NEW c \in Children, NEW sig \in {"term", "kill"},
         Same(Signal(ch, c, sig))
  PROVE  Same(ch)
<1> DEFINE after == Signal(ch, c, sig)
<1>1. \A d \in Children :
        /\ after[d].alive = ch[d].alive
        /\ after[d].status = ch[d].status
        /\ ch[d].kill => after[d].kill
        /\ ch[d] = NoChild => after[d] = NoChild
  BY SignalKeeps
<1>2. Same(after)
  OBVIOUS
<1> HIDE DEF after
<1> QED
  BY <1>1, <1>2 DEF Same

LEMMA ShutdownSteps ==
  ASSUME MainOK, NEW ch \in [Children -> ChildRecords], NEW code \in ExitCodes, Shutdown(ch, code)
  PROVE  Same(ch) /\ Stands("ReapTsd", "term", code)
  BY ShutdownTyped, SignalKeeps DEF Same, Stands, Children

LEMMA BootSteps ==
  ASSUME Typed, Boot
  PROVE  /\ main.pc \in BootPhases
         /\ UNCHANGED <<cfg, maintenance, drain, stops, cause>>
         /\ stop' => stop
         /\ \/ Same(child) /\ Stands("ReapTsd", "term", 1)
            \/ Same(child) /\ Stands("ReapTsd", "term", 0) /\ stop
            \/ Same(child) /\ main'.pc \in BeforeVault
            \/ child' = [child EXCEPT !["tsd"] = Spawned] /\ main'.pc \in BeforeVault
<1>1. MainOK /\ child \in [Children -> ChildRecords] /\ 0 \in ExitCodes /\ 1 \in ExitCodes
  BY TypedParts DEF Typed, ContainerOK, ExitCodes
<1>2. main.pc \in BootPhases /\ (stop' => stop)
  BY DEF Boot, AdoptLineage, RestoreDb, RestoreState, Tailscaled, DaemonWait, TailscaleUp, Serve,
         FailedPhase, TakeStop, BootPhases
<1>3. \/ Shutdown(child, 1)
      \/ Shutdown(child, 0) /\ stop
      \/ \E pc \in BeforeVault : Goto(pc) /\ UNCHANGED child
      \/ \E pc \in BeforeVault : Goto(pc) /\ child' = [child EXCEPT !["tsd"] = Spawned]
  BY DEF Boot, AdoptLineage, RestoreDb, RestoreState, Tailscaled, SpawnTailscaled, DaemonWait,
         TailscaleUp, Serve, FailedPhase, BeforeVault, BootPhases
<1>4. \A pc \in BeforeVault : Goto(pc) => main'.pc = pc
  BY <1>1, GotoTyped DEF BeforeVault, MainPhases
<1>5. UNCHANGED child => Same(child)
  BY DEF Same
<1>6. UNCHANGED <<cfg, maintenance, drain, stops, cause>>
  BY DEF Boot
<1> QED
  BY <1>1, <1>2, <1>3, <1>4, <1>5, <1>6, ShutdownSteps

LEMMA StartSteps ==
  ASSUME Typed, StartVw
  PROVE  /\ main.pc = "StartVw"
         /\ UNCHANGED <<cfg, stop, token, sent, drain, stops, cause>>
         /\ reactor' = reactor \/ reactor' = [reactor EXCEPT !.pc = "pass"]
         /\ \/ Same(child) /\ Stands("ReapTsd", "term", 1)
            \/ Same([child EXCEPT !["vw"] = Spawned])
               /\ (Stands("ReapTsd", "term", 1) \/ main'.pc = "WatchVault")
<1> DEFINE started == [child EXCEPT !["vw"] = Spawned]
<1>1. MainOK /\ child \in [Children -> ChildRecords] /\ 1 \in ExitCodes
  BY TypedParts DEF Typed, ContainerOK, ExitCodes
<1>2. started \in [Children -> ChildRecords]
  BY <1>1 DEF Children, Spawned, ChildRecords, NoChild, NotYet
<1>3. /\ main.pc = "StartVw"
      /\ UNCHANGED <<cfg, stop, token, sent, drain, stops, cause>>
      /\ reactor' = reactor \/ reactor' = [reactor EXCEPT !.pc = "pass"]
      /\ Shutdown(child, 1) \/ Shutdown(started, 1) \/ (child' = started /\ Goto("WatchVault"))
  BY DEF StartVw
<1>4. child' = started => Same(started)
  BY DEF Same
<1>5. Goto("WatchVault") => main'.pc = "WatchVault"
  BY <1>1, GotoTyped DEF MainPhases
<1> HIDE DEF started
<1>6. Same(started) => Same([child EXCEPT !["vw"] = Spawned])
  BY DEF started
<1> QED
  BY <1>1, <1>2, <1>3, <1>4, <1>5, <1>6, ShutdownSteps

WatchPhases == {"WatchVault", "WatchTailscaled", "WatchStop"}

LEMMA WatchSteps ==
  ASSUME Typed, WatchVault \/ WatchTailscaled \/ WatchStop
  PROVE  /\ main.pc \in WatchPhases
         /\ UNCHANGED <<cfg, sent, reactor, drain, stops>>
         /\ Same(child)
         /\ token'.forced = token.forced
         /\ \/ UNCHANGED <<stop, token, cause>> /\ main'.pc \in WatchPhases
            \/ /\ stop' = stop /\ cause' = "vault" /\ Reported("vw")
               /\ Stands("ReapTsd", "term", exit_code(child["vw"].status))
            \/ stop' = stop /\ cause' = "tailscaled" /\ Stands("ReapTsd", "term", 1)
            \/ stop /\ ~stop' /\ cause' = "stop" /\ main'.pc = "ReapStopped" /\ main'.grace = "term"
<1>1. /\ MainOK /\ child \in [Children -> ChildRecords] /\ 1 \in ExitCodes
      /\ token \in [stop : BOOLEAN, forced : BOOLEAN]
  BY TypedParts DEF Typed, ContainerOK, ExitCodes, OthersOK
<1>2. UNCHANGED <<cfg, sent, reactor, drain, stops>> /\ main.pc \in WatchPhases
  BY DEF WatchVault, WatchTailscaled, WatchStop, WatchPhases
<1>3. token'.forced = token.forced
  BY <1>1 DEF WatchVault, WatchTailscaled, WatchStop, LeaveWatch
<1>4. UNCHANGED child => Same(child)
  BY DEF Same
<1>5. CASE \E pc \in WatchPhases : Goto(pc) /\ UNCHANGED <<stop, child, token, cause>>
  BY <1>5, <1>1, <1>2, <1>3, <1>4, GotoTyped DEF WatchPhases, MainPhases
<1>6. CASE /\ Reported("vw") /\ LeaveWatch(child, exit_code(child["vw"].status), "vault")
           /\ UNCHANGED stop
  BY <1>6, <1>1, <1>2, <1>3, CodesTyped, ShutdownSteps DEF LeaveWatch, Typed
<1>7. CASE LeaveWatch(Signal(child, "vw", "term"), 1, "tailscaled") /\ UNCHANGED stop
  <2> DEFINE ch == Signal(child, "vw", "term")
  <2>1. ch \in [Children -> ChildRecords] /\ (Same(ch) => Same(child))
    BY <1>1, SignalTyped, SameBefore DEF Children
  <2>2. Shutdown(ch, 1) /\ cause' = "tailscaled"
    BY <1>7 DEF LeaveWatch
  <2> HIDE DEF ch
  <2> QED
    BY <2>1, <2>2, <1>7, <1>1, <1>2, <1>3, ShutdownSteps
<1>8. CASE /\ stop /\ TakeStop /\ cause' = "stop"
           /\ child' = Signal(Signal(child, "tsd", "term"), "vw", "term")
           /\ main' = [main EXCEPT !.pc = "ReapStopped", !.grace = "term"]
  <2> DEFINE ch == Signal(child, "tsd", "term")
  <2>1. ch \in [Children -> ChildRecords] /\ (Same(ch) => Same(child))
    BY <1>1, SignalTyped, SameBefore DEF Children
  <2>2. child' = Signal(ch, "vw", "term")
    BY <1>8
  <2> HIDE DEF ch
  <2>3. Same(ch)
    BY <2>1, <2>2, SignalKeeps DEF Same, Children
  <2>4. main'.pc = "ReapStopped" /\ main'.grace = "term"
    BY <1>8, <1>1 DEF MainOK
  <2> QED
    BY <2>1, <2>3, <2>4, <1>8, <1>2, <1>3 DEF TakeStop
<1> QED
  <2>1. CASE WatchVault
    BY <2>1, <1>5, <1>6 DEF WatchVault, WatchPhases
  <2>2. CASE WatchTailscaled
    BY <2>2, <1>5, <1>7 DEF WatchTailscaled, WatchPhases
  <2>3. CASE WatchStop
    BY <2>3, <1>5, <1>8 DEF WatchStop, WatchPhases
  <2> QED
    BY <2>1, <2>2, <2>3

LEMMA EscalateSteps ==
  ASSUME Typed, NEW c \in Children, Escalate(c)
  PROVE  /\ Same(child) /\ Killed(c)'
         /\ main.grace = "term" /\ Stands(main.pc, "kill", main.code)
<1>1. MainOK /\ child \in [Children -> ChildRecords]
  BY TypedParts DEF Typed, ContainerOK
<1>2. child' = Signal(child, c, "kill")
  BY DEF Escalate
<1>3. Same(child) /\ Killed(c)'
  BY <1>1, <1>2, SignalKeeps DEF Same, Killed
<1>4. main.grace = "term" /\ Stands(main.pc, "kill", main.code)
  BY <1>1 DEF Escalate, MainOK, Stands
<1> QED
  BY <1>3, <1>4

(* The three waits of the teardown, each left when the child is gone.      *)
LEMMA ReapSteps ==
  ASSUME Typed, ReapStopped \/ ReapTsd \/ ReapVw
  PROVE  /\ UNCHANGED <<cfg, stop, reactor, token, drain, stops, cause>>
         /\ Same(child)
         /\ \/ /\ UNCHANGED sent /\ Stands(main.pc, "kill", main.code)
               /\ main.pc \in {"ReapStopped", "ReapVw"} => Killed("vw")'
               /\ main.pc = "ReapTsd" => Killed("tsd")'
               /\ main.pc \in {"ReapStopped", "ReapTsd", "ReapVw"}
            \/ /\ UNCHANGED sent /\ main.pc = "ReapStopped"
               /\ \/ Reported("vw") /\ Stands("ReapTsd", "term", exit_code(child["vw"].status))
                  \/ ~Reported("vw") /\ Stands("ReapTsd", "term", 1)
            \/ /\ UNCHANGED sent /\ main.pc = "ReapTsd" /\ Stands("ReapVw", "term", main.code)
               /\ child["tsd"] = NoChild \/ Gone("tsd")
            \/ /\ main.pc = "ReapVw"
               /\ child["vw"] = NoChild \/ Gone("vw")
               /\ main'.code = main.code
               /\ \/ main'.pc = "exited" /\ UNCHANGED sent
                  \/ main'.pc = "drain" /\ sent'
<1>1. MainOK /\ child \in [Children -> ChildRecords] /\ 1 \in ExitCodes
  BY TypedParts DEF Typed, ContainerOK, ExitCodes
<1>2. UNCHANGED <<cfg, stop, reactor, token, drain, stops, cause>>
  BY DEF ReapStopped, ReapTsd, ReapVw, BeginDrain, maintenance
<1>3. UNCHANGED child => Same(child)
  BY DEF Same
<1>4. CASE ReapStopped
  <2>1. main.pc = "ReapStopped" /\ UNCHANGED sent
    BY <1>4 DEF ReapStopped, maintenance
  <2>2. CASE Escalate("vw")
    BY <2>1, <2>2, <1>2, EscalateSteps DEF Children
  <2>3. CASE /\ Gone("vw")
             /\ Shutdown(child, IF Reported("vw") THEN exit_code(child["vw"].status) ELSE 1)
    <3>1. CASE Reported("vw")
      <4>1. Shutdown(child, exit_code(child["vw"].status))
        BY <2>3, <3>1
      <4> QED
        BY <4>1, <3>1, <2>1, <1>1, <1>2, CodesTyped, ShutdownSteps DEF Typed
    <3>2. CASE ~Reported("vw")
      <4>1. Shutdown(child, 1)
        BY <2>3, <3>2
      <4> QED
        BY <4>1, <3>2, <2>1, <1>1, <1>2, ShutdownSteps
    <3> QED
      BY <3>1, <3>2
  <2> QED
    BY <1>4, <2>2, <2>3 DEF ReapStopped
<1>5. CASE ReapTsd
  <2>1. main.pc = "ReapTsd" /\ UNCHANGED sent
    BY <1>5 DEF ReapTsd, maintenance
  <2>2. CASE child["tsd"] # NoChild /\ Escalate("tsd")
    BY <2>1, <2>2, <1>2, EscalateSteps DEF Children
  <2>3. CASE /\ child["tsd"] = NoChild \/ Gone("tsd")
             /\ main' = [main EXCEPT !.pc = "ReapVw", !.grace = "term"]
             /\ UNCHANGED child
    BY <2>1, <2>3, <1>1, <1>2, <1>3 DEF MainOK, Stands
  <2> QED
    BY <1>5, <2>2, <2>3 DEF ReapTsd
<1>6. CASE ReapVw
  <2>1. main.pc = "ReapVw"
    BY <1>6 DEF ReapVw
  <2>2. CASE child["vw"] # NoChild /\ Escalate("vw") /\ UNCHANGED <<token, sent>>
    BY <2>1, <2>2, <1>2, EscalateSteps DEF Children
  <2>3. CASE (child["vw"] = NoChild \/ Gone("vw")) /\ BeginDrain
    <3>1. main'.code = main.code /\ ((main'.pc = "exited" /\ UNCHANGED sent) \/ (main'.pc = "drain" /\ sent'))
      BY <2>3, <1>1, GotoTyped DEF BeginDrain, MainPhases
    <3> QED
      BY <2>1, <2>3, <3>1, <1>2, <1>3 DEF BeginDrain
  <2> QED
    BY <1>6, <2>2, <2>3 DEF ReapVw
<1> QED
  BY <1>4, <1>5, <1>6

LEMMA DrainSteps ==
  ASSUME Typed, DrainPass
  PROVE  /\ UNCHANGED <<cfg, stop, child, sent, reactor, clock, stops, cause>>
         /\ main.pc = "drain" /\ main'.pc \in Ending /\ main'.code = main.code
         /\ token.forced => token'.forced
         /\ token'.forced => token.forced \/ stop
<1>1. MainOK /\ token \in [stop : BOOLEAN, forced : BOOLEAN] /\ stop \in BOOLEAN
  BY TypedParts DEF Typed, ContainerOK, OthersOK
<1>2. UNCHANGED <<cfg, stop, child, sent, reactor, clock, stops, cause>> /\ main.pc = "drain"
  BY DEF DrainPass
<1>3. main' = main \/ Goto("exited")
  BY DEF DrainPass
<1>4. main'.pc \in Ending /\ main'.code = main.code
  BY <1>1, <1>2, <1>3, GotoTyped DEF Ending, MainPhases
<1>5. token' = token \/ token' = [token EXCEPT !.forced = token.forced \/ stop]
  BY DEF DrainPass
<1> QED
  BY <1>1, <1>2, <1>4, <1>5

LEMMA EndsSteps ==
  ASSUME Typed, NEW c \in Children, Ends(c)
  PROVE  /\ UNCHANGED <<cfg, stop, main, maintenance, drain, stops, cause>>
         /\ child[c].alive /\ ~child'[c].alive
         /\ child'[c].status \in {Exited(0), Exited(1), Signaled(15), Signaled(9)}
         /\ \A d \in Children \ {c} : child'[d] = child[d]
<1>1. child \in [Children -> ChildRecords]
  BY TypedParts DEF Typed, ContainerOK
<1>2. PICK status \in {Exited(0), Exited(1), Signaled(15), Signaled(9)} :
        child' = [child EXCEPT ![c].alive = FALSE, ![c].status = status]
  BY DEF Ends
<1>3. child' = [child EXCEPT ![c] = [@ EXCEPT !.alive = FALSE, !.status = status]]
  BY <1>2
<1>4. child[c] \in ChildRecords
  BY <1>1
<1>5. ~child'[c].alive /\ child'[c].status = status
  BY <1>1, <1>3, <1>4 DEF ChildRecords
<1>6. \A d \in Children \ {c} : child'[d] = child[d]
  BY <1>1, <1>3
<1>7. child[c].alive /\ UNCHANGED <<cfg, stop, main, maintenance, drain, stops, cause>>
  BY DEF Ends
<1> QED
  BY <1>5, <1>6, <1>7

-----------------------------------------------------------------------------
(* The children: the teardown sweeps them before the flush starts.         *)

LEMMA SpawnedShape == Spawned.alive /\ Spawned.status = NotYet
  BY DEF Spawned, NoChild

LEMMA ChildInit == Init => ChildInv
<1> SUFFICES ASSUME Init PROVE ChildInv
  OBVIOUS
<1>1. OneLife
  BY DEF Init, OneLife, Children
<1>2. Swept
  BY DEF Init, Swept, BeforeVault, BootPhases, Ending, Children
<1>3. Commanded
  BY DEF Init, Commanded
<1> QED
  BY <1>1, <1>2, <1>3 DEF ChildInv

LEMMA OneLifeSame ==
  ASSUME OneLife, Same(child)
  PROVE  OneLife'
  BY DEF OneLife, Same

LEMMA OneLifeStep ==
  ASSUME Typed, OneLife, Next
  PROVE  OneLife'
<1>0. child \in [Children -> ChildRecords]
  BY TypedParts DEF Typed, ContainerOK
<1>1. CASE Boot
  <2>1. CASE child' = [child EXCEPT !["tsd"] = Spawned]
    BY <2>1, <1>0, SpawnedShape DEF OneLife, Children
  <2> QED
    BY <2>1, <1>1, BootSteps, OneLifeSame
<1>2. CASE StartVw
  <2>1. CASE Same([child EXCEPT !["vw"] = Spawned])
    BY <2>1, <1>0, SpawnedShape DEF OneLife, Same, Children
  <2> QED
    BY <2>1, <1>2, StartSteps, OneLifeSame
<1>3. CASE WatchVault \/ WatchTailscaled \/ WatchStop
  BY <1>3, WatchSteps, OneLifeSame
<1>4. CASE ReapStopped \/ ReapTsd \/ ReapVw
  BY <1>4, ReapSteps, OneLifeSame
<1>5. CASE UNCHANGED child
  BY <1>5 DEF OneLife
<1>6. ASSUME NEW c \in Children, Ends(c) PROVE OneLife'
  <2>1. child'[c].status # NotYet
    BY <1>6, EndsSteps DEF NotYet, Exited, Signaled
  <2> QED
    BY <2>1, <1>6, EndsSteps DEF OneLife
<1>7. Maintenance \/ StopSignal \/ Tick \/ DrainPass => UNCHANGED child
  BY DEF Maintenance, PassTask, RunEnds, WaitTimesOut, FlushStarts, FlushTask, FinishEnds,
         ReactorOnly, container, StopSignal, Tick, DrainPass
<1> QED
  BY <1>1, <1>2, <1>3, <1>4, <1>5, <1>6, <1>7 DEF Next, Main

LEMMA SweptStep ==
  ASSUME Typed, OneLife, Swept, Next
  PROVE  Swept'
<1>1. CASE Boot
  <2>1. child'["vw"] = NoChild
    <3>1. child["vw"] = NoChild /\ child \in [Children -> ChildRecords]
      BY <1>1, BootSteps, TypedParts DEF Swept, BeforeVault, Typed, ContainerOK
    <3>2. Same(child) => child'["vw"] = NoChild
      BY <3>1 DEF Same, Children
    <3> QED
      BY <3>1, <3>2, <1>1, BootSteps DEF Children
  <2>2. main'.pc \in BeforeVault \/ Stands("ReapTsd", "term", 0) \/ Stands("ReapTsd", "term", 1)
    BY <1>1, BootSteps
  <2> QED
    BY <2>1, <2>2 DEF Swept, BeforeVault, BootPhases, Stands, Ending
<1>2. CASE StartVw
  BY <1>2, StartSteps DEF Swept, BeforeVault, BootPhases, Stands, Ending
<1>3. CASE WatchVault \/ WatchTailscaled \/ WatchStop
  BY <1>3, WatchSteps DEF Swept, BeforeVault, BootPhases, Stands, Ending, WatchPhases
<1>4. CASE ReapStopped \/ ReapTsd \/ ReapVw
  <2>1. \A c \in Children : Killed(c) => Killed(c)'
    BY <1>4, ReapSteps DEF Same, Killed
  <2>2. \A c \in Children : child[c] = NoChild \/ Reported(c) => Killed(c)
    BY DEF OneLife, Reported, NoChild, Killed
  <2> QED
    <3> USE DEF Swept, BeforeVault, BootPhases, Stands, Ending
    <3>1. CASE /\ Stands(main.pc, "kill", main.code)
               /\ main.pc \in {"ReapStopped", "ReapVw"} => Killed("vw")'
               /\ main.pc = "ReapTsd" => Killed("tsd")'
               /\ main.pc \in {"ReapStopped", "ReapTsd", "ReapVw"}
      BY <3>1, <2>1 DEF Children
    <3>2. CASE main.pc = "ReapStopped" /\ \E code \in ExitCodes \cup {exit_code(child["vw"].status)} :
                 Stands("ReapTsd", "term", code)
      BY <3>2
    <3>3. CASE /\ main.pc = "ReapTsd" /\ Stands("ReapVw", "term", main.code)
               /\ child["tsd"] = NoChild \/ Gone("tsd")
      BY <3>3, <2>1, <2>2 DEF Gone, Children
    <3>4. CASE /\ main.pc = "ReapVw"
               /\ child["vw"] = NoChild \/ Gone("vw")
               /\ main'.pc = "exited" \/ main'.pc = "drain"
      BY <3>4, <2>1, <2>2 DEF Gone, Children
    <3> QED
      BY <3>1, <3>2, <3>3, <3>4, <1>4, ReapSteps DEF ExitCodes
<1>5. CASE DrainPass
  BY <1>5, DrainSteps DEF Swept, BeforeVault, BootPhases, Ending, Killed
<1>6. ASSUME NEW c \in Children, Ends(c) PROVE Swept'
  <2>1. \A d \in Children : Killed(d) => Killed(d)'
    BY <1>6, EndsSteps DEF Killed
  <2>2. main.pc \in BeforeVault => child'["vw"] = NoChild
    BY <1>6, EndsSteps DEF Swept, NoChild, Children
  <2> QED
    BY <1>6, <2>1, <2>2, EndsSteps DEF Swept, Children
<1>7. CASE UNCHANGED <<main, child>>
  BY <1>7 DEF Swept, Killed
<1>8. Maintenance \/ StopSignal \/ Tick => UNCHANGED <<main, child>>
  BY DEF Maintenance, PassTask, RunEnds, WaitTimesOut, FlushStarts, FlushTask, FinishEnds,
         ReactorOnly, container, StopSignal, Tick
<1> QED
  BY <1>1, <1>2, <1>3, <1>4, <1>5, <1>6, <1>7, <1>8 DEF Next, Main

LEMMA CommandedStep ==
  ASSUME Typed, Commanded, Next
  PROVE  Commanded'
<1>0. ReactorOK
  BY TypedParts DEF Typed
<1>1. CASE Boot
  BY <1>1, BootSteps DEF Commanded, BootPhases, Ending, maintenance
<1>2. CASE StartVw
  BY <1>0, <1>2, StartSteps DEF Commanded, Ending, ReactorOK
<1>3. CASE WatchVault \/ WatchTailscaled \/ WatchStop
  BY <1>3, WatchSteps DEF Commanded, Ending, WatchPhases
<1>4. CASE ReapStopped \/ ReapTsd \/ ReapVw
  BY <1>4, ReapSteps DEF Commanded, Ending
<1>5. CASE DrainPass
  BY <1>5, DrainSteps DEF Commanded
<1>6. CASE Maintenance
  <2>1. UNCHANGED <<main, sent>>
    BY <1>6 DEF Maintenance, PassTask, RunEnds, WaitTimesOut, FlushStarts, FlushTask, FinishEnds,
            ReactorOnly, container
  <2>2. reactor'.pc \in {"flush", "finish", "done"} => sent
    BY <1>6, <1>0, Moves DEF Maintenance, ReactorMoves, Commanded
  <2> QED
    BY <2>1, <2>2 DEF Commanded
<1>7. CASE UNCHANGED <<main, maintenance>>
  BY <1>7 DEF Commanded, maintenance
<1>8. ASSUME NEW c \in Children, Ends(c) PROVE UNCHANGED <<main, maintenance>>
  BY <1>8 DEF Ends
<1>9. StopSignal \/ Tick => UNCHANGED <<main, maintenance>>
  BY DEF StopSignal, Tick, container
<1> QED
  BY <1>1, <1>2, <1>3, <1>4, <1>5, <1>6, <1>7, <1>8, <1>9 DEF Next, Main

LEMMA ChildStep ==
  ASSUME Typed, ChildInv, [Next]_vars
  PROVE  ChildInv'
<1>1. CASE Next
  BY <1>1, OneLifeStep, SweptStep, CommandedStep DEF ChildInv
<1>2. CASE UNCHANGED vars
  BY <1>2 DEF vars, container, maintenance, ChildInv, OneLife, Swept, Killed, Commanded
<1> QED
  BY <1>1, <1>2

(* The last dump and the last push of a shutdown run when no child can     *)
(* write what they read, for every setup and every budget.                 *)
THEOREM FinalFlushRunsAlone == Spec => []FlushesAlone
<1>1. Spec => [](Typed /\ ChildInv)
  <2>1. Init => Typed /\ ChildInv
    BY TypedInit, ChildInit
  <2>2. Typed /\ ChildInv /\ [Next]_vars => (Typed /\ ChildInv)'
    BY TypedStep, ChildStep
  <2> QED
    BY <2>1, <2>2, PTL DEF Spec
<1>2. ChildInv => FlushesAlone
  BY DEF ChildInv, Commanded, Swept, FlushesAlone, Killed, Ending, Children
<1> QED
  BY <1>1, <1>2, PTL

-----------------------------------------------------------------------------
(* The stop flag: every raise is a signal of its own.                      *)

LEMMA CountedStep ==
  ASSUME Typed, Counted, [Next]_vars
  PROVE  Counted'
<1>0. /\ stops \in Nat /\ stop \in BOOLEAN
      /\ token \in [stop : BOOLEAN, forced : BOOLEAN]
  BY TypedParts, SupervisorAssumption DEF Typed, ContainerOK, OthersOK
<1>1. CASE Boot
  BY <1>1, <1>0, BootSteps DEF Counted, BootPhases, Ending, maintenance, drain
<1>2. CASE StartVw
  BY <1>2, <1>0, StartSteps DEF Counted, Ending
<1>3. CASE WatchVault \/ WatchTailscaled \/ WatchStop
  BY <1>3, <1>0, WatchSteps DEF Counted, Ending, WatchPhases
<1>4. CASE ReapStopped \/ ReapTsd \/ ReapVw
  BY <1>4, <1>0, ReapSteps DEF Counted, Ending
<1>5. CASE DrainPass
  BY <1>5, <1>0, DrainSteps DEF Counted
<1>6. CASE StopSignal
  BY <1>6, <1>0 DEF StopSignal, Counted, maintenance
<1>7. CASE UNCHANGED <<stop, stops, cause, token, main>>
  BY <1>7 DEF Counted
<1>8. Maintenance => UNCHANGED <<stop, stops, cause, token, main>>
  BY DEF Maintenance, PassTask, RunEnds, WaitTimesOut, FlushStarts, FlushTask, FinishEnds,
         ReactorOnly, container
<1>9. Tick => UNCHANGED <<stop, stops, cause, token, main>>
  BY DEF Tick, container, maintenance
<1>10. ASSUME NEW c \in Children, Ends(c) PROVE UNCHANGED <<stop, stops, cause, token, main>>
  BY <1>10 DEF Ends, maintenance
<1>11. UNCHANGED vars => UNCHANGED <<stop, stops, cause, token, main>>
  BY DEF vars, container, maintenance
<1> QED
  BY <1>1, <1>2, <1>3, <1>4, <1>5, <1>6, <1>7, <1>8, <1>9, <1>10, <1>11 DEF Next, Main

(* The stop that ended the watch loop never cuts the final flush short.    *)
THEOREM FirstStopIsPatient == Spec => []FirstStopNeverForces
<1>1. Init => Typed /\ Counted
  <2>1. Init => Counted
    BY DEF Init, Counted
  <2> QED
    BY <2>1, TypedInit
<1>2. Typed /\ Counted /\ [Next]_vars => (Typed /\ Counted)'
  BY TypedStep, CountedStep
<1>3. Counted => FirstStopNeverForces
  BY DEF Counted, FirstStopNeverForces
<1> QED
  BY <1>1, <1>2, <1>3, PTL DEF Spec

-----------------------------------------------------------------------------
(* The final flush.                                                        *)

(* A task cut or skipped on a spent budget stays so: time goes on, and the *)
(* hurry-up, once there, only makes the deadline earlier.                  *)
LEMMA SettledKeeps ==
  ASSUME Typed, NEW i \in Tasks, Settled(i), UNCHANGED <<cfg, reactor>>,
         clock' \in Int, clock' >= clock, token.forced => token'.forced,
         reactor.flushAt \in Int
  PROVE  Settled(i)'
<1>1. clock \in Int
  BY TypedParts DEF Typed, OthersOK
<1>2. Deadline(reactor.flushAt, token'.forced) <= Deadline(reactor.flushAt, token.forced)
      /\ Deadline(reactor.flushAt, token'.forced) \in Int
      /\ Deadline(reactor.flushAt, token.forced) \in Int
  BY SupervisorAssumption DEF Deadline
<1>3. CASE reactor.final[cfg.tasks[i]] = "finished"
  BY <1>3 DEF Settled
<1>4. CASE /\ reactor.final[cfg.tasks[i]] \in {"cut", "skipped"}
           /\ clock >= Deadline(reactor.flushAt, token.forced)
  <2>1. clock' >= Deadline(reactor.flushAt, token'.forced)
    BY <1>1, <1>2, <1>4
  <2> QED
    BY <1>4, <2>1 DEF Settled, Deadline
<1> QED
  BY <1>3, <1>4 DEF Settled

LEMMA FlushKeeps ==
  ASSUME Typed, FlushInv, UNCHANGED <<cfg, reactor>>,
         clock' \in Int, clock' >= clock, token.forced => token'.forced
  PROVE  FlushInv'
<1>1. ASSUME NEW i \in Tasks, reactor.pc \in {"flush", "finish", "done"}, i < reactor.i
      PROVE  Settled(i)'
  BY <1>1, SettledKeeps DEF FlushInv
<1> QED
  BY <1>1 DEF FlushInv, Tasks

(* The reactor's own steps: a task is settled before the next one starts.  *)
LEMMA FlushReactor ==
  ASSUME Typed, FlushInv, Maintenance
  PROVE  FlushInv'
<1>1. ReactorOK /\ clock \in 0 .. Horizon /\ cfg \in Setups
  BY TypedParts DEF Typed, OthersOK, ContainerOK
<1>2. UNCHANGED <<cfg, token, clock>>
  BY DEF Maintenance, PassTask, RunEnds, WaitTimesOut, FlushStarts, FlushTask, FinishEnds,
         ReactorOnly, container, drain
<1>3. PICK n \in 0 .. 2 : Tasks = 1 .. n
  BY <1>1, TasksShape
<1>4. \A i \in Tasks : cfg.tasks[i] \in {"db", "sync"}
  BY <1>1, TasksShape
<1>5. reactor.i \in 1 .. 3 /\ reactor.final \in [{"db", "sync"} -> {"none", "finished", "cut", "skipped"}]
  BY <1>1 DEF ReactorOK
<1>6. CASE PassTask \/ RunEnds \/ WaitTimesOut
  BY <1>6, <1>1, Moves DEF FlushInv, ReactorMoves
<1>7. CASE FlushStarts
  <2>1. ReactorMoves("flush", 1, clock, clock, reactor.final)
    BY <1>7, <1>1, Moves
  <2> QED
    BY <2>1, <1>1, <1>2, <1>3 DEF FlushInv, ReactorMoves, Tasks
<1>8. ASSUME reactor.pc = "flush", reactor.i \in Tasks,
             ReactorMoves("finish", reactor.i, reactor.flushAt, reactor.from, reactor.final)
      PROVE  FlushInv'
  BY <1>8, <1>2 DEF FlushInv, ReactorMoves, Settled, Deadline, Tasks
<1>9. ASSUME reactor.pc = "flush", reactor.i \notin Tasks,
             ReactorMoves("done", reactor.i, reactor.flushAt, reactor.from, reactor.final)
      PROVE  FlushInv'
  BY <1>9, <1>2 DEF FlushInv, ReactorMoves, Settled, Deadline, Tasks
<1>10. ASSUME reactor.pc \in {"flush", "finish"}, reactor.i \in Tasks,
              NEW result \in {"finished", "cut", "skipped"}, result # "finished" => abort,
              ReactorMoves("flush", reactor.i + 1, reactor.flushAt, reactor.from,
                           [reactor.final EXCEPT ![cfg.tasks[reactor.i]] = result])
       PROVE  FlushInv'
  <2>1. /\ reactor'.pc = "flush" /\ reactor'.i = reactor.i + 1
        /\ reactor'.flushAt = reactor.flushAt /\ reactor'.from = reactor.from
        /\ reactor'.final = [reactor.final EXCEPT ![cfg.tasks[reactor.i]] = result]
    BY <1>10 DEF ReactorMoves
  <2>2. reactor.from = reactor.flushAt /\ reactor.flushAt \in 0 .. Horizon
        /\ \A i \in Tasks : i < reactor.i => Settled(i)
    BY <1>10 DEF FlushInv
  <2>3. result # "finished" => clock >= Deadline(reactor.flushAt, token.forced)
    BY <1>10, <2>2 DEF abort
  <2>4. ASSUME NEW i \in Tasks, i < reactor.i + 1
        PROVE  Settled(i)'
    <3>1. CASE cfg.tasks[i] = cfg.tasks[reactor.i]
      <4>1. reactor'.final[cfg.tasks[i]] = result
        BY <3>1, <2>1, <1>4, <1>5, <1>10
      <4> QED
        BY <4>1, <2>1, <2>3, <1>2 DEF Settled, Deadline
    <3>2. CASE cfg.tasks[i] # cfg.tasks[reactor.i]
      <4>1. i < reactor.i
        BY <3>2, <2>4, <1>3, <1>5
      <4>2. reactor'.final[cfg.tasks[i]] = reactor.final[cfg.tasks[i]]
        BY <3>2, <2>1, <1>4, <1>5
      <4> QED
        BY <4>1, <4>2, <2>1, <2>2, <1>2 DEF Settled, Deadline
    <3> QED
      BY <3>1, <3>2
  <2> QED
    BY <2>1, <2>2, <2>4, <1>2 DEF FlushInv, Tasks
<1> QED
  BY <1>1, <1>6, <1>7, <1>8, <1>9, <1>10, Moves DEF Maintenance, Typed, AtTask

LEMMA FlushStep ==
  ASSUME Typed, ChildInv, FlushInv, [Next]_vars
  PROVE  FlushInv'
<1>0. clock \in Int
  BY TypedParts DEF Typed, OthersOK
<1>1. CASE StartVw
  <2>1. reactor.pc \notin {"flush", "finish", "done"}
    BY <1>1, StartSteps DEF ChildInv, Commanded, Ending
  <2>2. ReactorOK
    BY TypedParts DEF Typed
  <2> QED
    BY <2>1, <2>2, <1>1, StartSteps DEF FlushInv, ReactorOK
<1>2. CASE Maintenance
  BY <1>2, FlushReactor
<1>3. CASE /\ UNCHANGED <<cfg, reactor>>
           /\ clock' = clock \/ clock' = clock + 1
           /\ token.forced => token'.forced
  <2>1. clock' \in Int /\ clock' >= clock
    BY <1>0, <1>3
  <2> QED
    BY <2>1, <1>3, FlushKeeps
<1>4. Boot => UNCHANGED <<cfg, reactor, clock, token>>
  BY BootSteps DEF maintenance, drain
<1>5. WatchVault \/ WatchTailscaled \/ WatchStop
        => UNCHANGED <<cfg, reactor, clock>> /\ token'.forced = token.forced
  BY WatchSteps DEF drain
<1>6. ReapStopped \/ ReapTsd \/ ReapVw => UNCHANGED <<cfg, reactor, clock, token>>
  BY ReapSteps DEF drain
<1>7. DrainPass => UNCHANGED <<cfg, reactor, clock>> /\ (token.forced => token'.forced)
  BY DrainSteps
<1>8. Tick => UNCHANGED <<cfg, reactor, token>> /\ clock' = clock + 1
  BY DEF Tick, container, maintenance
<1>9. StopSignal \/ UNCHANGED vars => UNCHANGED <<cfg, reactor, clock, token>>
  BY DEF StopSignal, vars, container, maintenance, drain
<1>10. ASSUME NEW c \in Children, Ends(c) PROVE UNCHANGED <<cfg, reactor, clock, token>>
  BY <1>10 DEF Ends, maintenance, drain
<1> QED
  BY <1>1, <1>2, <1>3, <1>4, <1>5, <1>6, <1>7, <1>8, <1>9, <1>10 DEF Next, Main

LEMMA FlushInit == Init => FlushInv
  BY DEF Init, FlushInv

(* The final flush leaves no task out: what it cut or skipped had used up  *)
(* the budget that counts from the beginning of the flush.                 *)
THEOREM FinalFlushIsWhole == Spec => []FlushIsWhole
<1>1. Init => Typed /\ ChildInv /\ FlushInv
  BY TypedInit, ChildInit, FlushInit
<1>2. Typed /\ ChildInv /\ FlushInv /\ [Next]_vars => (Typed /\ ChildInv /\ FlushInv)'
  BY TypedStep, ChildStep, FlushStep
<1>3. Typed /\ FlushInv => FlushIsWhole
  <2> SUFFICES ASSUME Typed, FlushInv, reactor.pc = "done", NEW i \in Tasks
               PROVE  Settled(i)
    BY DEF FlushIsWhole, Settled
  <2>1. ReactorOK /\ cfg \in Setups
    BY TypedParts DEF Typed, ContainerOK
  <2>2. PICK n \in 0 .. 2 : Tasks = 1 .. n
    BY <2>1, TasksShape
  <2>3. reactor.i \in 1 .. 3 /\ reactor.i \notin Tasks
    BY <2>1 DEF ReactorOK, FlushInv
  <2>4. i < reactor.i
    BY <2>2, <2>3
  <2> QED
    BY <2>4 DEF FlushInv
<1> QED
  BY <1>1, <1>2, <1>3, PTL DEF Spec

-----------------------------------------------------------------------------
(* The exit code.                                                          *)

LEMMA DecidedSame ==
  ASSUME Decided, Same(child), main.pc \in Teardown, main'.code = main.code, UNCHANGED stops
  PROVE  Decided'
  BY DEF Decided, Same, Children

(* A code taken from the vault's own status is final.                      *)
LEMMA DecidedByVault ==
  ASSUME Typed, OneLife, Same(child), Reported("vw"),
         main'.code = exit_code(child["vw"].status)
  PROVE  Decided'
<1>1. ~child["vw"].alive
  BY DEF OneLife, Reported, Children, NoChild
<1>2. child["vw"].status \in {NotYet, Exited(0), Exited(1), Signaled(15), Signaled(9)}
  BY DEF Typed, TypeOK, Children
<1>3. child'["vw"].status = child["vw"].status /\ ~child'["vw"].alive
  BY <1>1 DEF Same, Children
<1> QED
  BY <1>2, <1>3 DEF Decided, Reported, exit_code, NotYet, Exited, Signaled

LEMMA DecidedStep ==
  ASSUME Typed, ChildInv, Counted, Decided, [Next]_vars
  PROVE  Decided'
<1>0. stops \in Nat
  BY TypedParts, SupervisorAssumption DEF Typed, OthersOK
<1>1. CASE Boot
  <2>1. CASE Same(child) /\ Stands("ReapTsd", "term", 0) /\ stop
    <3>1. child["vw"] = NoChild
      BY <1>1, BootSteps DEF ChildInv, Swept, BeforeVault
    <3>2. stops' > 0
      BY <1>1, <2>1, BootSteps DEF Counted
    <3> QED
      BY <3>1, <3>2, <2>1 DEF Decided, Same, Stands, Children, NoChild, NotYet, Exited
  <2>2. CASE Stands("ReapTsd", "term", 1)
    BY <2>2 DEF Decided, Stands
  <2>3. CASE main'.pc \in BeforeVault
    BY <2>3 DEF Decided, BeforeVault, BootPhases, Teardown, Ending
  <2> QED
    BY <1>1, <2>1, <2>2, <2>3, BootSteps
<1>2. CASE StartVw
  BY <1>2, StartSteps DEF Decided, Stands, Teardown, Ending
<1>3. CASE WatchVault \/ WatchTailscaled \/ WatchStop
  <2>1. CASE Reported("vw") /\ Stands("ReapTsd", "term", exit_code(child["vw"].status))
    BY <1>3, <2>1, WatchSteps, DecidedByVault DEF ChildInv, Stands
  <2>2. CASE Stands("ReapTsd", "term", 1)
    BY <2>2 DEF Decided, Stands
  <2>3. CASE main'.pc \in WatchPhases \/ main'.pc = "ReapStopped"
    BY <2>3 DEF Decided, WatchPhases, Teardown, Ending
  <2> QED
    BY <1>3, <2>1, <2>2, <2>3, WatchSteps
<1>4. CASE ReapStopped \/ ReapTsd \/ ReapVw
  <2>1. CASE Reported("vw") /\ Stands("ReapTsd", "term", exit_code(child["vw"].status))
    BY <1>4, <2>1, ReapSteps, DecidedByVault DEF ChildInv, Stands
  <2>2. CASE Stands("ReapTsd", "term", 1)
    BY <2>2 DEF Decided, Stands
  <2>3. CASE main.pc = "ReapStopped" /\ Stands(main.pc, "kill", main.code)
    BY <2>3 DEF Decided, Stands, Teardown, Ending
  <2>4. CASE main.pc \in {"ReapTsd", "ReapVw"} /\ main'.code = main.code
    BY <1>4, <2>4, ReapSteps, DecidedSame DEF Teardown
  <2> QED
    BY <1>4, <2>1, <2>2, <2>3, <2>4, ReapSteps DEF Stands
<1>5. CASE DrainPass
  BY <1>5, DrainSteps DEF Decided, Teardown, Ending
<1>6. ASSUME NEW c \in Children, Ends(c) PROVE Decided'
  <2>1. CASE c = "vw"
    <3>1. main.pc \in Teardown => main.code = 1
      BY <1>6, <2>1, EndsSteps DEF Decided
    <3> QED
      BY <1>6, <3>1, EndsSteps DEF Decided
  <2>2. CASE c # "vw"
    BY <1>6, <2>2, EndsSteps DEF Decided, Children
  <2> QED
    BY <2>1, <2>2
<1>7. CASE StopSignal
  BY <1>7, <1>0 DEF StopSignal, Decided
<1>8. CASE UNCHANGED <<main, child, stops>>
  BY <1>8 DEF Decided
<1>9. Maintenance \/ Tick \/ UNCHANGED vars => UNCHANGED <<main, child, stops>>
  BY DEF Maintenance, PassTask, RunEnds, WaitTimesOut, FlushStarts, FlushTask, FinishEnds,
         ReactorOnly, container, Tick, vars
<1> QED
  BY <1>1, <1>2, <1>3, <1>4, <1>5, <1>6, <1>7, <1>8, <1>9 DEF Next, Main

LEMMA LifeInit == Init => Typed /\ LifeInv
<1>1. Init => Counted /\ Decided
  BY DEF Init, Counted, Decided, Teardown, Ending
<1> QED
  BY <1>1, TypedInit, ChildInit, FlushInit DEF LifeInv

LEMMA LifeStep == Typed /\ LifeInv /\ [Next]_vars => (Typed /\ LifeInv)'
  BY TypedStep, ChildStep, CountedStep, FlushStep, DecidedStep DEF LifeInv

(* The exit code tells how the container ended: 0 only after a stop or the *)
(* vault's own clean exit, and a failure of the vault never passes as one. *)
THEOREM ExitCodeIsHonest == Spec => []ExitIsHonest
<1>1. LifeInv => ExitIsHonest
  BY DEF LifeInv, Decided, ExitIsHonest, Teardown, Ending
<1> QED
  BY <1>1, LifeInit, LifeStep, PTL DEF Spec

=============================================================================
