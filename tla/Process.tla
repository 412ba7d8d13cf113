------------------------------- MODULE Process -------------------------------
(***************************************************************************)
(* Children of the supervisor, which is PID 1 of its container: spawning   *)
(* and signalling (runtime/process/child.rs), the bounded runs             *)
(* (runtime/process/run.rs) and the reaper hub, the one caller of waitpid  *)
(* (runtime/process/reaper.rs).                                            *)
(*                                                                         *)
(* The kernel's table maps a pid to what runs under it.  A pid is free     *)
(* again as soon as its process is reaped, and may be given to another     *)
(* child or to an orphan that the kernel re-parents to PID 1.  Children    *)
(* are numbered in the order of their spawns; an orphan has number Stray.  *)
(*                                                                         *)
(* A step that starts and ends with the registry lock free, and holds it   *)
(* in between, is one action that requires the lock to be free.  The spawn *)
(* holds it across several: a child may exit before it is registered.      *)
(***************************************************************************)
EXTENDS Integers, FiniteSets

CONSTANTS
  Pids,      \* the pids of the namespace that children and orphans may have
  Threads,   \* the threads that run children
  MaxSpawns, \* bound: children spawned over time
  MaxOrphans \* bound: orphans re-parented over time

Nobody == "nobody"

ASSUME ProcessAssumption ==
  /\ Pids # {}
  /\ Nobody \notin Threads
  /\ MaxSpawns \in Nat /\ MaxOrphans \in Nat

VARIABLES
  proc,      \* the kernel's process table
  lock,      \* who holds the registry lock
  registry,  \* the child registered under each pid, or Stray
  slot,      \* the status delivered to each child's waiter
  caller,    \* each thread's run in progress
  reaper,    \* the reaper thread
  spawned,   \* children so far
  orphans,   \* orphans so far
  truth,     \* history: the status each child ended with
  result     \* history: what each child's run returned

vars == <<proc, lock, registry, slot, caller, reaper, spawned, orphans, truth, result>>

-----------------------------------------------------------------------------
Stray == 0
Children == 1 .. MaxSpawns

Statuses == {"ok", "bad"}   \* exit status 0, anything else
Pending == "pending"

Free == [state |-> "free", child |-> Stray, status |-> Pending]
Running(c) == [state |-> "running", child |-> c, status |-> Pending]

IsFree(p) == proc[p].state = "free"
IsZombie(p) == proc[p].state = "zombie"
Alive(p) == proc[p].state \in {"running", "killed"}

EmptyHanded == [pc |-> "snapshot", ready |-> {}, pid |-> CHOOSE p \in Pids : TRUE,
                child |-> Stray, status |-> Pending, back |-> "target"]

Idle == [pc |-> "idle", pid |-> CHOOSE p \in Pids : TRUE, child |-> Stray, verdict |-> Pending]

(* The threads that still hold the handle, and with it the slot.           *)
Holds(t, c) == caller[t].pc \in {"wait", "check", "kill", "consume"} /\ caller[t].child = c
Held(c) == \E t \in Threads : Holds(t, c)

LockFree == lock = Nobody

Goto(t, pc) == caller' = [caller EXCEPT ![t].pc = pc]

(* SIGKILL to whatever runs under the pid; a zombie does not mind.         *)
SigKill(p) == IF proc[p].state = "running" THEN [proc EXCEPT ![p].state = "killed"] ELSE proc

-----------------------------------------------------------------------------
(* The kernel's side.                                                      *)

(* A process ends; one that was killed does not end well, and how an orphan*)
(* ends is nobody's business.                                              *)
Die(p) ==
  /\ Alive(p)
  /\ \E status \in Statuses :
       /\ proc[p].state = "killed" \/ proc[p].child = Stray => status = "bad"
       /\ proc' = [proc EXCEPT ![p] = [@ EXCEPT !.state = "zombie", !.status = status]]
       /\ truth' = IF proc[p].child = Stray THEN truth ELSE [truth EXCEPT ![proc[p].child] = status]
  /\ UNCHANGED <<lock, registry, slot, caller, reaper, spawned, orphans, result>>

(* A descendant of a child outlives its parent and becomes ours.           *)
Orphan(p) ==
  /\ orphans < MaxOrphans
  /\ IsFree(p)
  /\ orphans' = orphans + 1
  /\ proc' = [proc EXCEPT ![p] = Running(Stray)]
  /\ UNCHANGED <<lock, registry, slot, caller, reaper, spawned, truth, result>>

-----------------------------------------------------------------------------
(* child::spawn, under the registry lock.                                  *)
SpawnLocks(t) ==
  /\ caller[t].pc = "idle"
  /\ spawned < MaxSpawns
  /\ LockFree
  /\ lock' = t
  /\ Goto(t, "spawn")
  /\ UNCHANGED <<proc, registry, slot, reaper, spawned, orphans, truth, result>>

SpawnFails(t) ==
  /\ caller[t].pc = "spawn"
  /\ lock' = Nobody
  /\ caller' = [caller EXCEPT ![t] = Idle]
  /\ UNCHANGED <<proc, registry, slot, reaper, spawned, orphans, truth, result>>

SpawnForks(t) ==
  /\ caller[t].pc = "spawn"
  /\ spawned < MaxSpawns
  /\ \E p \in Pids :
       /\ IsFree(p)
       /\ proc' = [proc EXCEPT ![p] = Running(spawned + 1)]
       /\ caller' = [caller EXCEPT ![t] = [pc |-> "forked", pid |-> p, child |-> spawned + 1,
                                           verdict |-> Pending]]
  /\ spawned' = spawned + 1
  /\ UNCHANGED <<lock, registry, slot, reaper, orphans, truth, result>>

(* pidfd_open, then insert_locked.                                         *)
SpawnRegisters(t) ==
  /\ caller[t].pc = "forked"
  /\ ~IsFree(caller[t].pid)
  /\ registry' = [registry EXCEPT ![caller[t].pid] = caller[t].child]
  /\ lock' = Nobody
  /\ Goto(t, "wait")
  /\ UNCHANGED <<proc, slot, reaper, spawned, orphans, truth, result>>

(* pidfd_open refuses: an old kernel, or the pid is gone.  The child is    *)
(* killed and left to the sweep, and the spawn reports a failure.          *)
SpawnRefuses(t) ==
  /\ caller[t].pc = "forked"
  /\ proc' = SigKill(caller[t].pid)
  /\ lock' = Nobody
  /\ result' = [result EXCEPT ![caller[t].child] = "refused"]
  /\ caller' = [caller EXCEPT ![t] = Idle]
  /\ UNCHANGED <<registry, slot, reaper, spawned, orphans, truth>>

-----------------------------------------------------------------------------
(* run_bounded_core.                                                       *)

Decides(t, verdict, pc) ==
  caller' = [caller EXCEPT ![t] = [@ EXCEPT !.pc = pc, !.verdict = verdict]]

(* Exit first: a delivered status is the verdict.                          *)
WaitReads(t) ==
  /\ caller[t].pc = "wait"
  /\ LET status == slot[caller[t].child]
     IN  IF status = Pending
         THEN Goto(t, "check")
         ELSE Decides(t, status, IF status = "ok" THEN "consume" ELSE "kill")
  /\ UNCHANGED <<proc, lock, registry, slot, reaper, spawned, orphans, truth, result>>

WaitGoesOn(t) ==
  /\ caller[t].pc = "check"
  /\ Goto(t, "wait")
  /\ UNCHANGED <<proc, lock, registry, slot, reaper, spawned, orphans, truth, result>>

GivesUpWithoutKill(t) ==
  /\ caller[t].pc = "check"
  /\ result' = [result EXCEPT ![caller[t].child] = "bad"]
  /\ caller' = [caller EXCEPT ![t] = Idle]
  /\ UNCHANGED <<proc, lock, registry, slot, reaper, spawned, orphans, truth>>

GivesUpUndecided(t) ==
  /\ caller[t].pc = "check"
  /\ Goto(t, "kill")
  /\ UNCHANGED <<proc, lock, registry, slot, reaper, spawned, orphans, truth, result>>

(* A stop request, the timeout or the output cap: the run has failed.      *)
GivesUp(t) ==
  /\ caller[t].pc = "check"
  /\ Decides(t, "bad", "kill")
  /\ UNCHANGED <<proc, lock, registry, slot, reaper, spawned, orphans, truth, result>>

KillsUndelivered(t) ==
  /\ caller[t].pc = "kill"
  /\ proc' = IF slot[caller[t].child] = Pending THEN SigKill(caller[t].pid) ELSE proc
  /\ Goto(t, "consume")
  /\ UNCHANGED <<lock, registry, slot, reaper, spawned, orphans, truth, result>>

(* signal_child: whatever is registered under the pid gets the signal.     *)
Kills(t) ==
  /\ caller[t].pc = "kill"
  /\ LockFree
  /\ proc' = IF registry[caller[t].pid] # Stray THEN SigKill(caller[t].pid) ELSE proc
  /\ Goto(t, "consume")
  /\ UNCHANGED <<lock, registry, slot, reaper, spawned, orphans, truth, result>>

(* The last wait ends with the status, or gives up on a child that does    *)
(* not die of its SIGKILL.                                                 *)
Returns(t) ==
  /\ caller[t].pc = "consume"
  /\ \/ slot[caller[t].child] # Pending
     \/ \E p \in Pids : proc[p].child = caller[t].child /\ proc[p].state = "killed"
  /\ result' = [result EXCEPT ![caller[t].child] = caller[t].verdict]
  /\ caller' = [caller EXCEPT ![t] = Idle]
  /\ UNCHANGED <<proc, lock, registry, slot, reaper, spawned, orphans, truth>>

-----------------------------------------------------------------------------
(* The reaper thread: a pass over the children whose pidfd is ready, then  *)
(* a sweep of whatever else has ended.                                     *)
ReaperSnapshot ==
  /\ reaper.pc = "snapshot"
  /\ LockFree
  /\ reaper' = [reaper EXCEPT !.pc = "poll", !.ready = {p \in Pids : registry[p] # Stray}]
  /\ UNCHANGED <<proc, lock, registry, slot, caller, spawned, orphans, truth, result>>

(* The poll reports what is ready, or nothing at all (EINTR).              *)
ReaperPoll ==
  /\ reaper.pc = "poll"
  /\ \E seen \in {{}, {p \in reaper.ready : IsZombie(p)}} :
       reaper' = [reaper EXCEPT !.pc = "target", !.ready = seen]
  /\ UNCHANGED <<proc, lock, registry, slot, caller, spawned, orphans, truth, result>>

ReapLeavesEntry(p, ready, back) ==
  /\ reaper' = [pc |-> "deliver", ready |-> ready, pid |-> p, child |-> registry[p],
                status |-> proc[p].status, back |-> back]
  /\ proc' = [proc EXCEPT ![p] = Free]
  /\ UNCHANGED registry

(* waitpid, the entry's removal and its waiter: one hold of the lock.      *)
Reap(p, ready, back) ==
  /\ reaper' = [pc |-> "deliver", ready |-> ready, pid |-> p, child |-> registry[p],
                status |-> proc[p].status, back |-> back]
  /\ registry' = [registry EXCEPT ![p] = Stray]
  /\ proc' = [proc EXCEPT ![p] = Free]

ReaperTarget ==
  /\ reaper.pc = "target"
  /\ \/ /\ reaper.ready = {}
        /\ reaper' = [reaper EXCEPT !.pc = "sweep"]
        /\ UNCHANGED <<proc, registry>>
     \/ /\ LockFree
        /\ \E p \in reaper.ready :
             IF IsZombie(p)
             THEN Reap(p, reaper.ready \ {p}, "target")
             ELSE reaper' = [reaper EXCEPT !.ready = @ \ {p}] /\ UNCHANGED <<proc, registry>>
  /\ UNCHANGED <<lock, slot, caller, spawned, orphans, truth, result>>

SweepsWithoutLock ==
  /\ reaper.pc = "sweep"
  /\ \/ \E p \in Pids : IsZombie(p) /\ Reap(p, {}, "sweep")
     \/ /\ \A p \in Pids : ~IsZombie(p)
        /\ reaper' = [reaper EXCEPT !.pc = "snapshot"]
        /\ UNCHANGED <<proc, registry>>
  /\ UNCHANGED <<lock, slot, caller, spawned, orphans, truth, result>>

SweepsRegistered ==
  /\ reaper.pc = "sweep"
  /\ LockFree
  /\ \/ \E p \in Pids : IsZombie(p) /\ registry[p] # Stray /\ Reap(p, {}, "sweep")
     \/ /\ \A p \in Pids : IsZombie(p) => registry[p] = Stray
        /\ reaper' = [reaper EXCEPT !.pc = "snapshot"]
        /\ UNCHANGED <<proc, registry>>
  /\ UNCHANGED <<lock, slot, caller, spawned, orphans, truth, result>>

ReaperSweep ==
  /\ reaper.pc = "sweep"
  /\ LockFree
  /\ \/ \E p \in Pids : IsZombie(p) /\ Reap(p, {}, "sweep")
     \/ /\ \A p \in Pids : ~IsZombie(p)
        /\ reaper' = [reaper EXCEPT !.pc = "snapshot"]
        /\ UNCHANGED <<proc, registry>>
  /\ UNCHANGED <<lock, slot, caller, spawned, orphans, truth, result>>

DeliversByPid(c) == registry[reaper.pid]

DeliversTargetedOnly(c) == IF reaper.back = "target" THEN c ELSE Stray

(* Whose slot a reaped status goes to: the waiter that came with it.       *)
Recipient(c) == c

(* After the lock is released; a dropped handle has no slot any more.      *)
ReaperDelivers ==
  /\ reaper.pc = "deliver"
  /\ LET c == Recipient(reaper.child)
     IN  slot' = IF c # Stray /\ Held(c) THEN [slot EXCEPT ![c] = reaper.status] ELSE slot
  /\ reaper' = [EmptyHanded EXCEPT !.pc = reaper.back, !.ready = reaper.ready]
  /\ UNCHANGED <<proc, lock, registry, caller, spawned, orphans, truth, result>>

-----------------------------------------------------------------------------
Init ==
  /\ proc = [p \in Pids |-> Free]
  /\ lock = Nobody
  /\ registry = [p \in Pids |-> Stray]
  /\ slot = [c \in Children |-> Pending]
  /\ caller = [t \in Threads |-> Idle]
  /\ reaper = EmptyHanded
  /\ spawned = 0 /\ orphans = 0
  /\ truth = [c \in Children |-> Pending]
  /\ result = [c \in Children |-> "none"]

Spawn(t) == SpawnLocks(t) \/ SpawnFails(t) \/ SpawnForks(t) \/ SpawnRegisters(t) \/ SpawnRefuses(t)

Run(t) == WaitReads(t) \/ WaitGoesOn(t) \/ GivesUp(t) \/ Kills(t) \/ Returns(t)

Reaper == ReaperSnapshot \/ ReaperPoll \/ ReaperTarget \/ ReaperSweep \/ ReaperDelivers

Next ==
  \/ \E t \in Threads : Spawn(t) \/ Run(t)
  \/ Reaper
  \/ \E p \in Pids : Die(p) \/ Orphan(p)

Spec == Init /\ [][Next]_vars

(* The threads run, so a spawn that holds the lock releases it; the reaper *)
(* runs and is not shut out of the lock for good, since each of the others *)
(* asks for it at most a few times per polling slice.  Nothing is assumed  *)
(* of the processes.                                                       *)
FairSpec == Spec /\ SF_vars(Reaper) /\ \A t \in Threads : WF_vars(Spawn(t) \/ Run(t))

-----------------------------------------------------------------------------
Processes == [state : {"free", "running", "killed", "zombie"},
              child : {Stray} \cup Children, status : Statuses \cup {Pending}]

RunStates == {"idle", "spawn", "forked", "wait", "check", "kill", "consume"}

Runs == [pc : RunStates, pid : Pids, child : {Stray} \cup Children,
         verdict : Statuses \cup {Pending}]

Reapers == [pc : {"snapshot", "poll", "target", "deliver", "sweep"}, ready : SUBSET Pids,
            pid : Pids, child : {Stray} \cup Children, status : Statuses \cup {Pending},
            back : {"target", "sweep"}]

(* Every variable has its type.                                            *)
TypeOK ==
  /\ proc \in [Pids -> Processes]
  /\ lock \in Threads \cup {Nobody}
  /\ registry \in [Pids -> {Stray} \cup Children]
  /\ slot \in [Children -> Statuses \cup {Pending}]
  /\ caller \in [Threads -> Runs]
  /\ reaper \in Reapers
  /\ spawned \in 0 .. MaxSpawns /\ orphans \in 0 .. MaxOrphans
  /\ truth \in [Children -> Statuses \cup {Pending}]
  /\ result \in [Children -> Statuses \cup {"none", "refused"}]

(* While a pid is registered its child has not been reaped: the process    *)
(* under the pid is that child, alive or a zombie, and never a successor.  *)
RegistrationIsLiveness ==
  \A p \in Pids : registry[p] # Stray => ~IsFree(p) /\ proc[p].child = registry[p]

(* No child is reaped between its fork and its registration: an instant    *)
(* exit is not turned into a failed spawn, and the pid that the failure    *)
(* path kills is the child's.                                              *)
SpawnKeepsItsChild ==
  \A t \in Threads :
    caller[t].pc = "forked" =>
      ~IsFree(caller[t].pid) /\ proc[caller[t].pid].child = caller[t].child

(* A delivered status is the one the child ended with, also when its pid   *)
(* has been given away before the delivery, and a run reports success only *)
(* of a child that exited 0.                                               *)
VerdictsAreTrue ==
  \A c \in Children : /\ slot[c] # Pending => slot[c] = truth[c]
                      /\ result[c] = "ok" => truth[c] = "ok"

(* A run that returns leaves no child running behind it: it has exited, or *)
(* its SIGKILL has been sent.                                              *)
NoRunLeavesItsChild ==
  \A p \in Pids :
    proc[p].state = "running" /\ proc[p].child # Stray => result[proc[p].child] = "none"

(* A SIGKILL only ever reaches a supervised child: a registered one or the *)
(* one whose registration has just failed, never an orphan that got the    *)
(* pid of a reaped child.                                                  *)
SignalsReachChildren ==
  [][\A p \in Pids :
       proc[p].state = "running" /\ proc'[p].state = "killed" =>
         \/ registry[p] # Stray
         \/ \E t \in Threads : caller[t].pc = "forked" /\ caller[t].pid = p]_vars

(* "While the entry is present the child has not been reaped and its pid   *)
(* cannot have been recycled": a thread's signal reaches its own child or  *)
(* nobody.                                                                 *)
SignalsReachOwnChild ==
  [][\A t \in Threads, p \in Pids :
       Kills(t) /\ proc'[p] # proc[p] => proc[p].child = caller[t].child]_vars

(* An exit is delivered to whoever still waits for it.                     *)
ExitsAreDelivered ==
  \A c \in Children : (truth[c] # Pending /\ Held(c)) ~> (slot[c] # Pending \/ ~Held(c))

(* No process stays a zombie, orphans included.                            *)
ZombiesAreReaped == \A p \in Pids : IsZombie(p) ~> ~IsZombie(p)
=============================================================================
