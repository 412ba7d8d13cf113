----------------------------- MODULE Supervisor -----------------------------
(***************************************************************************)
(* The life of the container: the boot phases (boot.rs), the watch loop    *)
(* and the ordered teardown (runtime/process/watch.rs), the maintenance    *)
(* reactor with its final flush (runtime/maintenance.rs), and the process  *)
(* stop flag they share (runtime/process/signals.rs).                      *)
(*                                                                         *)
(* Three things run at once: the main thread, the reactor thread and the   *)
(* two children, tailscaled and the vault.  Stop signals arrive at any     *)
(* time.  What a task of the reactor does is DbBackup's and StateSync's    *)
(* business: here it is a run that ends, is cut short or hangs in one call.*)
(* A child that dies has its status delivered (Process shows that it is),  *)
(* and one that survives its SIGKILL is in uninterruptible sleep.          *)
(*                                                                         *)
(* Time matters in the drain only: `clock` counts from its start, in units *)
(* far above the polling slice, so the drain polls once per unit.  The     *)
(* timeouts of the other phases may strike at any moment.                  *)
(***************************************************************************)
EXTENDS Integers, Sequences

CONSTANTS
  Budget,        \* PERSIST_BUDGET
  ForcedBudget,  \* PERSIST_FORCED_BUDGET
  SyncTimeout,   \* SYNC_TIMEOUT
  Setups,        \* the configurations to start from
  MaxStops       \* bound: stop signals the container receives

(* Tasks are flushed in this order: the database before the state.         *)
TaskLists == {<<>>, <<"db">>, <<"sync">>, <<"db", "sync">>}

(* `port`: there is a valid internal port for the vault.  Only a configured*)
(* backup can be a task.                                                   *)
Configs ==
  {c \in [backup : BOOLEAN, serve : BOOLEAN, port : BOOLEAN, tasks : TaskLists,
          syncCadence : BOOLEAN] :
     ("db" \in {c.tasks[i] : i \in DOMAIN c.tasks}) => c.backup}

ASSUME SupervisorAssumption ==
  /\ Budget \in Nat /\ ForcedBudget \in Nat /\ SyncTimeout \in Nat
  /\ ForcedBudget <= Budget
  /\ Setups \subseteq Configs
  /\ MaxStops \in Nat

VARIABLES
  cfg,      \* the resolved configuration
  stop,     \* the process stop flag
  main,     \* the main thread: where it is, and the exit code it has decided
  child,    \* tailscaled and the vault
  token,    \* the maintenance token
  sent,     \* the drain command is in the reactor's channel
  reactor,  \* the reactor thread
  clock,    \* time since the drain started
  polled,   \* the drain loop has run its pass for this unit of time
  forcedAt, \* when the drain saw the hurry-up, or Never
  stops,    \* history: stop signals so far
  cause     \* history: what made the watch loop end

container == <<cfg, stop, main, child>>
maintenance == <<token, sent, reactor>>
drain == <<clock, polled, forcedAt>>
vars == <<container, maintenance, drain, stops, cause>>

-----------------------------------------------------------------------------
Never == -1
Children == {"tsd", "vw"}

BootPhases == {"AdoptLineage", "RestoreDb", "RestoreState", "Tailscaled", "DaemonWait",
               "TailscaleUp", "Serve"}

Tasks == DOMAIN cfg.tasks
Cadence(i) == cfg.tasks[i] = "db" \/ cfg.syncCadence

NotYet == [kind |-> "none", n |-> 0]
Exited(n) == [kind |-> "exited", n |-> n]
Signaled(n) == [kind |-> "signaled", n |-> n]

(* The container's exit code for a wait status.                            *)
exit_code(status) == IF status.kind = "exited" THEN status.n ELSE 128 + status.n

ExitCodes == {0, 1, 128 + 9, 128 + 15}

NoChild == [alive |-> FALSE, term |-> FALSE, kill |-> FALSE, status |-> NotYet]
Spawned == [NoChild EXCEPT !.alive = TRUE]

Reported(c) == child[c].status # NotYet

(* signal_child: a child whose status is delivered is left alone.          *)
Signal(ch, c, sig) == IF ch[c].alive THEN [ch EXCEPT ![c][sig] = TRUE] ELSE ch

-----------------------------------------------------------------------------
(* The stop flag.                                                          *)
StopSignal ==
  /\ main.pc # "exited"
  /\ stops < MaxStops
  /\ stop' = TRUE
  /\ stops' = stops + 1
  /\ UNCHANGED <<cfg, main, child, maintenance, drain, cause>>

TakeStopPeeks == UNCHANGED stop

(* take_stop consumes the request.                                         *)
TakeStop == stop' = FALSE

-----------------------------------------------------------------------------
(* The children.                                                           *)

(* A child ends on its own, on SIGTERM (which it may turn into a clean     *)
(* exit) or on SIGKILL; nothing says that it ends at all.  Of tailscaled   *)
(* the code asks only whether there is a status.                           *)
Ends(c) ==
  /\ main.pc # "exited"
  /\ child[c].alive
  /\ \E status \in {Exited(0), Exited(1), Signaled(15), Signaled(9)} :
       /\ c = "tsd" => status = Exited(0)
       /\ status = Signaled(15) => child[c].term
       /\ status = Signaled(9) => child[c].kill
       /\ child' = [child EXCEPT ![c].alive = FALSE, ![c].status = status]
  /\ UNCHANGED <<cfg, stop, main, maintenance, drain, stops, cause>>

-----------------------------------------------------------------------------
(* Boot.                                                                   *)
Goto(pc) == main' = [main EXCEPT !.pc = pc]

(* shutdown(tsd, vw, code, reactor): TERM to tailscaled, then the waits.   *)
Shutdown(ch, code) ==
  /\ main' = [main EXCEPT !.pc = "ReapTsd", !.grace = "term", !.code = code]
  /\ child' = Signal(ch, "tsd", "term")

(* The common end of a failed phase: a stop makes it a clean boot abort.   *)
FailedPhase ==
  \/ stop /\ TakeStop /\ Shutdown(child, 0)
  \/ ~stop /\ UNCHANGED stop /\ Shutdown(child, 1)

AdoptLineage ==
  /\ main.pc = "AdoptLineage"
  /\ Goto("RestoreDb")
  /\ UNCHANGED <<stop, child>>

(* Ready, Failed or Aborted; only a stop aborts, and it is not consumed.   *)
RestoreDb ==
  /\ main.pc = "RestoreDb"
  /\ \/ Goto("RestoreState") /\ UNCHANGED child
     \/ cfg.backup /\ Shutdown(child, 1)
     \/ cfg.backup /\ stop /\ Shutdown(child, 0)
  /\ UNCHANGED stop

RestoreState ==
  /\ main.pc = "RestoreState"
  /\ Goto("Tailscaled")
  /\ UNCHANGED <<stop, child>>

SpawnTailscaled ==
  \/ child' = [child EXCEPT !["tsd"] = Spawned] /\ Goto("DaemonWait")
  \/ Shutdown(child, 1)

Tailscaled ==
  /\ main.pc = "Tailscaled"
  /\ \/ stop /\ TakeStop /\ Shutdown(child, 0)
     \/ ~stop /\ UNCHANGED stop /\ SpawnTailscaled

(* The socket answers, or the wait ends by its timeout or by a stop.       *)
DaemonWait ==
  /\ main.pc = "DaemonWait"
  /\ \/ child["tsd"].alive /\ Goto("TailscaleUp") /\ UNCHANGED <<stop, child>>
     \/ FailedPhase

(* The push after a successful `up` changes nothing here.                  *)
TailscaleUp ==
  /\ main.pc = "TailscaleUp"
  /\ \/ Goto("Serve") /\ UNCHANGED <<stop, child>>
     \/ FailedPhase

Serve ==
  /\ main.pc = "Serve"
  /\ \/ (cfg.serve => cfg.port) /\ Goto("StartVw") /\ UNCHANGED <<stop, child>>
     \/ cfg.serve /\ ~cfg.port /\ Shutdown(child, 1) /\ UNCHANGED stop
     \/ cfg.serve /\ cfg.port /\ FailedPhase

Boot ==
  /\ \/ AdoptLineage \/ RestoreDb \/ RestoreState \/ Tailscaled \/ DaemonWait
     \/ TailscaleUp \/ Serve
  /\ UNCHANGED <<cfg, maintenance, drain, stops, cause>>

(* start_vw up to the watch loop: port, gate, vault, reactor.              *)
StartVw ==
  /\ main.pc = "StartVw"
  /\ LET started == [child EXCEPT !["vw"] = Spawned]
     IN  \/ Shutdown(child, 1) /\ UNCHANGED reactor
         \/ cfg.port /\ Shutdown(started, 1) /\ Tasks # {} /\ UNCHANGED reactor
         \/ /\ cfg.port
            /\ child' = started
            /\ Goto("WatchVault")
            /\ reactor' = IF Tasks = {} THEN reactor ELSE [reactor EXCEPT !.pc = "pass"]
  /\ UNCHANGED <<cfg, stop, token, sent, drain, stops, cause>>

-----------------------------------------------------------------------------
(* The watch loop reads the vault's slot, then tailscaled's, then the stop *)
(* flag; a child may die between two reads.                                *)

LeaveWatch(ch, code, why) ==
  /\ cause' = why
  /\ token' = [token EXCEPT !.stop = TRUE]
  /\ Shutdown(ch, code)

WatchVault ==
  /\ main.pc = "WatchVault"
  /\ \/ ~Reported("vw") /\ Goto("WatchTailscaled") /\ UNCHANGED <<child, token, cause>>
     \/ Reported("vw") /\ LeaveWatch(child, exit_code(child["vw"].status), "vault")
  /\ UNCHANGED <<cfg, stop, sent, reactor, drain, stops>>

WatchTailscaledGoesOn ==
  /\ main.pc = "WatchTailscaled"
  /\ Goto("WatchStop")
  /\ UNCHANGED <<cfg, stop, child, maintenance, drain, stops, cause>>

WatchTailscaled ==
  /\ main.pc = "WatchTailscaled"
  /\ \/ ~Reported("tsd") /\ Goto("WatchStop") /\ UNCHANGED <<child, token, cause>>
     \/ Reported("tsd") /\ LeaveWatch(Signal(child, "vw", "term"), 1, "tailscaled")
  /\ UNCHANGED <<cfg, stop, sent, reactor, drain, stops>>

WatchStop ==
  /\ main.pc = "WatchStop"
  /\ \/ ~stop /\ Goto("WatchVault") /\ UNCHANGED <<stop, child, token, cause>>
     \/ /\ stop
        /\ TakeStop
        /\ cause' = "stop"
        /\ token' = [token EXCEPT !.stop = TRUE]
        /\ child' = Signal(Signal(child, "tsd", "term"), "vw", "term")
        /\ main' = [main EXCEPT !.pc = "ReapStopped", !.grace = "term"]
  /\ UNCHANGED <<cfg, sent, reactor, drain, stops>>

-----------------------------------------------------------------------------
(* Teardown.                                                               *)

(* reap_until_gone: SIGKILL when the grace passes.                         *)
Escalate(c) ==
  /\ ~Reported(c)
  /\ main.grace = "term"
  /\ child' = Signal(child, c, "kill")
  /\ main' = [main EXCEPT !.grace = "kill"]

Gone(c) == Reported(c) \/ main.grace = "kill"

ReapStoppedIsClean ==
  /\ main.pc = "ReapStopped"
  /\ \/ Escalate("vw")
     \/ Gone("vw") /\ Shutdown(child, 0)
  /\ UNCHANGED <<cfg, stop, maintenance, drain, stops, cause>>

(* The stop branch reaps the vault for its code.                           *)
ReapStopped ==
  /\ main.pc = "ReapStopped"
  /\ \/ Escalate("vw")
     \/ Gone("vw") /\ Shutdown(child, IF Reported("vw") THEN exit_code(child["vw"].status) ELSE 1)
  /\ UNCHANGED <<cfg, stop, maintenance, drain, stops, cause>>

ReapTsd ==
  /\ main.pc = "ReapTsd"
  /\ \/ child["tsd"] # NoChild /\ Escalate("tsd")
     \/ /\ child["tsd"] = NoChild \/ Gone("tsd")
        /\ main' = [main EXCEPT !.pc = "ReapVw", !.grace = "term"]
        /\ UNCHANGED child
  /\ UNCHANGED <<cfg, stop, maintenance, drain, stops, cause>>

(* The drain sends its command; without a reactor the process exits.       *)
BeginDrain ==
  /\ UNCHANGED <<child, token>>
  /\ IF main.pc # "ReapVw" \/ cause = "none" \/ reactor.pc = "off"
     THEN Goto("exited") /\ UNCHANGED sent
     ELSE Goto("drain") /\ sent' = TRUE

ReapVwSkipped ==
  /\ main.pc = "ReapVw"
  /\ BeginDrain
  /\ UNCHANGED <<cfg, stop, reactor, drain, stops, cause>>

ReapVw ==
  /\ main.pc = "ReapVw"
  /\ \/ child["vw"] # NoChild /\ Escalate("vw") /\ UNCHANGED <<token, sent>>
     \/ (child["vw"] = NoChild \/ Gone("vw")) /\ BeginDrain
  /\ UNCHANGED <<cfg, stop, reactor, drain, stops, cause>>

(* Budgets count from the moment given here.                               *)
Deadline(at, forced) == at + (IF forced THEN ForcedBudget ELSE Budget)

StampEveryPass(forced) == IF forced THEN clock ELSE forcedAt

(* The hurry-up is stamped once.                                           *)
Stamp(forced) == IF forced /\ forcedAt = Never THEN clock ELSE forcedAt

Bound(at) == IF at = Never THEN Budget + SyncTimeout ELSE at + ForcedBudget + SyncTimeout

(* One pass of drain_with: the thread's end, the hurry-up, the bound.      *)
DrainPass ==
  /\ main.pc = "drain"
  /\ ~polled
  /\ IF reactor.pc = "done"
     THEN Goto("exited") /\ UNCHANGED <<token, forcedAt, polled>>
     ELSE LET forced == token.forced \/ stop
          IN  /\ token' = [token EXCEPT !.forced = forced]
              /\ forcedAt' = Stamp(forced)
              /\ IF clock >= Bound(Stamp(forced))
                 THEN Goto("exited") /\ UNCHANGED polled
                 ELSE polled' = TRUE /\ UNCHANGED main
  /\ UNCHANGED <<cfg, stop, child, sent, reactor, clock, stops, cause>>

(* No drain outlasts this; the clock need not run further.                 *)
Horizon == Budget + ForcedBudget + 2 * SyncTimeout

Tick ==
  /\ main.pc = "drain"
  /\ polled
  /\ clock < Horizon
  /\ clock' = clock + 1
  /\ polled' = FALSE
  /\ UNCHANGED <<container, maintenance, forcedAt, stops, cause>>

-----------------------------------------------------------------------------
(* The reactor thread.  A task may come due at any time.                   *)
ReactorOnly == main.pc # "exited" /\ UNCHANGED <<container, token, sent, drain, stops, cause>>

(* One task of a pass: run it when it is due and no stop is observed.      *)
PassTask ==
  /\ reactor.pc = "pass"
  /\ \/ /\ reactor.i \in Tasks /\ Cadence(reactor.i) /\ ~token.stop
        /\ reactor' = [reactor EXCEPT !.pc = "run"]
     \/ /\ reactor.i \in Tasks
        /\ reactor' = [reactor EXCEPT !.i = @ + 1]
     \/ /\ reactor.i \notin Tasks
        /\ reactor' = [reactor EXCEPT !.pc = "wait"]
  /\ ReactorOnly

(* A periodic run ends, by itself or because it observed the stop.         *)
RunEnds ==
  /\ reactor.pc = "run"
  /\ reactor' = [reactor EXCEPT !.pc = "pass", !.i = @ + 1]
  /\ ReactorOnly

WaitTimesOut ==
  /\ reactor.pc = "wait"
  /\ ~sent
  /\ \E i \in Tasks : Cadence(i)
  /\ reactor' = [reactor EXCEPT !.pc = "pass", !.i = 1]
  /\ ReactorOnly

FlushStartsAtDrain ==
  /\ reactor.pc = "wait"
  /\ sent
  /\ reactor' = [reactor EXCEPT !.pc = "flush", !.i = 1, !.flushAt = clock, !.from = 0]
  /\ ReactorOnly

(* The drain command: both budgets count from here.                        *)
FlushStarts ==
  /\ reactor.pc = "wait"
  /\ sent
  /\ reactor' = [reactor EXCEPT !.pc = "flush", !.i = 1, !.flushAt = clock, !.from = clock]
  /\ ReactorOnly

abort == clock >= Deadline(reactor.from, token.forced)

(* One task of the flush: started unless the budget is spent.              *)
FlushTask ==
  /\ reactor.pc = "flush"
  /\ \/ /\ reactor.i \in Tasks /\ ~abort
        /\ reactor' = [reactor EXCEPT !.pc = "finish"]
     \/ /\ reactor.i \in Tasks /\ abort
        /\ reactor' = [reactor EXCEPT !.i = @ + 1, !.final[cfg.tasks[reactor.i]] = "skipped"]
     \/ /\ reactor.i \notin Tasks
        /\ reactor' = [reactor EXCEPT !.pc = "done"]
  /\ ReactorOnly

FinishEnds ==
  /\ reactor.pc = "finish"
  /\ \E result \in {"finished", "cut"} :
       /\ result = "cut" => abort
       /\ reactor' = [reactor EXCEPT !.pc = "flush", !.i = @ + 1,
                                     !.final[cfg.tasks[reactor.i]] = result]
  /\ ReactorOnly

-----------------------------------------------------------------------------
Init ==
  /\ cfg \in Setups
  /\ stop = FALSE
  /\ main = [pc |-> "AdoptLineage", grace |-> "term", code |-> 0]
  /\ child = [c \in Children |-> NoChild]
  /\ token = [stop |-> FALSE, forced |-> FALSE]
  /\ sent = FALSE
  /\ reactor = [pc |-> "off", i |-> 1, flushAt |-> Never, from |-> Never,
                final |-> [t \in {"db", "sync"} |-> "none"]]
  /\ clock = 0 /\ polled = FALSE /\ forcedAt = Never
  /\ stops = 0 /\ cause = "none"

Main ==
  \/ Boot \/ StartVw
  \/ WatchVault \/ WatchTailscaled \/ WatchStop
  \/ ReapStopped \/ ReapTsd \/ ReapVw \/ DrainPass

Maintenance ==
  PassTask \/ RunEnds \/ WaitTimesOut \/ FlushStarts \/ FlushTask \/ FinishEnds

Next == Main \/ Maintenance \/ StopSignal \/ Tick \/ (\E c \in Children : Ends(c))

Spec == Init /\ [][Next]_vars

(* Every phase of the main thread is bounded by a timeout and time passes; *)
(* nothing is assumed of the children, nor of the reactor, whose runs may  *)
(* hang.                                                                   *)
FairSpec == Spec /\ WF_vars(Main) /\ WF_vars(Tick)

-----------------------------------------------------------------------------
(* Every variable has its type.                                            *)
TypeOK ==
  /\ cfg \in Setups
  /\ stop \in BOOLEAN
  /\ main \in [pc : BootPhases \cup {"StartVw", "WatchVault", "WatchTailscaled", "WatchStop",
                                     "ReapStopped", "ReapTsd", "ReapVw",
                                     "drain", "exited"},
               grace : {"term", "kill"}, code : ExitCodes]
  /\ child \in [Children -> [alive : BOOLEAN, term : BOOLEAN, kill : BOOLEAN,
                             status : {NotYet, Exited(0), Exited(1), Signaled(15), Signaled(9)}]]
  /\ token \in [stop : BOOLEAN, forced : BOOLEAN]
  /\ sent \in BOOLEAN
  /\ reactor \in [pc : {"off", "pass", "run", "wait", "flush", "finish", "done"}, i : 1 .. 3,
                  flushAt : {Never} \cup 0 .. Horizon, from : {Never} \cup 0 .. Horizon,
                  final : [{"db", "sync"} -> {"none", "finished", "cut", "skipped"}]]
  /\ clock \in 0 .. Horizon /\ polled \in BOOLEAN
  /\ forcedAt \in {Never} \cup 0 .. Horizon
  /\ stops \in 0 .. MaxStops
  /\ cause \in {"none", "vault", "tailscaled", "stop"}

(* The final flush runs with the children gone: no process writes the      *)
(* database or the data directory under the last dump and the last push,   *)
(* unless it has survived its SIGKILL.                                     *)
FlushesAlone ==
  reactor.pc \in {"flush", "finish"} => \A c \in Children : child[c].alive => child[c].kill

(* The stop that ends the watch loop is consumed by it: only a further one *)
(* cuts the final flush down to the forced budget.                         *)
FirstStopNeverForces == token.forced /\ cause = "stop" => stops > 1

(* A reactor that drained to its end has given every task its final flush, *)
(* and has cut or skipped one only with the whole budget spent, counted    *)
(* from when the flush began: a periodic run that overran costs the flush  *)
(* nothing, and the state push never runs in place of the dump.            *)
FlushIsWhole ==
  reactor.pc = "done" =>
    \A i \in Tasks :
      \/ reactor.final[cfg.tasks[i]] = "finished"
      \/ /\ reactor.final[cfg.tasks[i]] \in {"cut", "skipped"}
         /\ clock >= Deadline(reactor.flushAt, token.forced)

(* The exit code tells the orchestrator the truth: 0 takes a stop request  *)
(* or a vault that exited 0, a code above 1 is the vault's own, and a vault*)
(* that failed by itself is never reported as a clean exit.                *)
ExitIsHonest ==
  main.pc = "exited" =>
    /\ main.code = 0 => stops > 0 \/ child["vw"].status = Exited(0)
    /\ main.code > 1 => exit_code(child["vw"].status) = main.code
    /\ child["vw"].status = Exited(1) => main.code = 1

(* A container asked to stop exits, in whatever phase the request lands    *)
(* and whatever hangs: a boot step, a child or an upload.                  *)
EveryStopEnds == stop ~> main.pc = "exited"

(* A vault that nobody can reach is not left running: once tailscaled is   *)
(* gone the container exits.                                               *)
OutageEndsContainer ==
  (main.pc = "WatchVault" /\ Reported("tsd")) ~> (main.pc = "exited")

(* "A second stop signal actually shortens the shutdown": no drain lasts   *)
(* longer than the bound it would have had without the hurry-up.           *)
HurryNeverProlongs == main.pc = "drain" => clock <= Budget + SyncTimeout
=============================================================================
