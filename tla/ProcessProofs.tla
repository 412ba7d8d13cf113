--------------------------- MODULE ProcessProofs ---------------------------
(* Theorems about Process, for any pids, threads and number of spawns.     *)
EXTENDS Process, TLAPS

-----------------------------------------------------------------------------
(* Updates of the two tables.                                              *)

LEMMA SigKillKeeps ==
  ASSUME proc \in [Pids -> Processes], NEW p \in Pids
  PROVE  /\ SigKill(p) \in [Pids -> Processes]
         /\ \A q \in Pids : /\ SigKill(p)[q].child = proc[q].child
                            /\ SigKill(p)[q].status = proc[q].status
                            /\ q # p => SigKill(p)[q] = proc[q]
         /\ SigKill(p)[p].state = IF proc[p].state = "running" THEN "killed" ELSE proc[p].state
  BY DEF SigKill, Processes

LEMMA DieKeeps ==
  ASSUME proc \in [Pids -> Processes], NEW p \in Pids, NEW status \in Statuses,
         proc' = [proc EXCEPT ![p] = [@ EXCEPT !.state = "zombie", !.status = status]]
  PROVE  /\ proc' \in [Pids -> Processes]
         /\ \A q \in Pids \ {p} : proc'[q] = proc[q]
         /\ proc'[p].state = "zombie"
         /\ proc'[p].status = status
         /\ proc'[p].child = proc[p].child
  BY DEF Processes

LEMMA ForkKeeps ==
  ASSUME proc \in [Pids -> Processes], NEW p \in Pids, NEW c \in {Stray} \cup Children,
         proc' = [proc EXCEPT ![p] = Running(c)]
  PROVE  /\ proc' \in [Pids -> Processes]
         /\ \A q \in Pids \ {p} : proc'[q] = proc[q]
         /\ proc'[p].state = "running"
         /\ proc'[p].child = c
  BY DEF Processes, Running

LEMMA GotoKeeps ==
  ASSUME caller \in [Threads -> Runs], NEW t \in Threads, NEW pc \in RunStates, Goto(t, pc)
  PROVE  /\ caller' \in [Threads -> Runs]
         /\ \A u \in Threads \ {t} : caller'[u] = caller[u]
         /\ caller'[t].pc = pc
         /\ caller'[t].pid = caller[t].pid
         /\ caller'[t].child = caller[t].child
         /\ caller'[t].verdict = caller[t].verdict
  BY DEF Goto, Runs

LEMMA DecidesKeeps ==
  ASSUME caller \in [Threads -> Runs], NEW t \in Threads, NEW pc \in RunStates,
         NEW verdict \in Statuses, Decides(t, verdict, pc)
  PROVE  /\ caller' \in [Threads -> Runs]
         /\ \A u \in Threads \ {t} : caller'[u] = caller[u]
         /\ caller'[t].pc = pc
         /\ caller'[t].pid = caller[t].pid
         /\ caller'[t].child = caller[t].child
         /\ caller'[t].verdict = verdict
  BY DEF Decides, Runs

LEMMA ConstantRecords ==
  /\ Idle \in Runs /\ Idle.pc = "idle"
  /\ EmptyHanded \in Reapers /\ EmptyHanded.pc = "snapshot"
<1>1. (CHOOSE p \in Pids : TRUE) \in Pids
  BY ProcessAssumption
<1> QED BY <1>1 DEF Idle, EmptyHanded, Runs, RunStates, Reapers

LEMMA IdleKeeps ==
  ASSUME caller \in [Threads -> Runs], NEW t \in Threads, caller' = [caller EXCEPT ![t] = Idle]
  PROVE  /\ caller' \in [Threads -> Runs]
         /\ \A u \in Threads \ {t} : caller'[u] = caller[u]
         /\ caller'[t].pc = "idle"
  BY ConstantRecords

-----------------------------------------------------------------------------
(* Typing.                                                                 *)

(* A run knows its child, and its verdict once it has decided.             *)
RunsAreTyped ==
  \A t \in Threads :
    /\ caller[t].pc \in {"forked", "wait", "check", "kill", "consume"} => caller[t].child \in Children
    /\ caller[t].pc \in {"kill", "consume"} => caller[t].verdict \in Statuses

TypeInv == TypeOK /\ RunsAreTyped

LEMMA TypeInit == Init => TypeInv
<1> SUFFICES ASSUME Init PROVE TypeInv
  OBVIOUS
<1>1. TypeOK
  BY ConstantRecords, ProcessAssumption DEF Init, TypeOK, Free, Processes
<1>2. \A t \in Threads : caller[t].pc = "idle"
  BY ConstantRecords DEF Init
<1> QED BY <1>1, <1>2 DEF TypeInv, RunsAreTyped

LEMMA TypeSpawn ==
  ASSUME TypeInv, NEW t \in Threads, Spawn(t)
  PROVE  TypeInv'
<1> USE DEF TypeInv, TypeOK, RunsAreTyped
<1>1. CASE SpawnLocks(t) BY <1>1, GotoKeeps DEF SpawnLocks, RunStates
<1>2. CASE SpawnFails(t) BY <1>2, IdleKeeps DEF SpawnFails
<1>3. CASE SpawnForks(t)
  <2>1. spawned + 1 \in Children /\ spawned + 1 \in 0 .. MaxSpawns
    BY <1>3, ProcessAssumption DEF SpawnForks, Children
  <2>2. PICK p \in Pids :
          /\ proc' = [proc EXCEPT ![p] = Running(spawned + 1)]
          /\ caller' = [caller EXCEPT ![t] = [pc |-> "forked", pid |-> p, child |-> spawned + 1,
                                              verdict |-> Pending]]
    BY <1>3 DEF SpawnForks
  <2>3. [pc |-> "forked", pid |-> p, child |-> spawned + 1, verdict |-> Pending] \in Runs
    BY <2>1 DEF Runs, RunStates
  <2>4. caller' \in [Threads -> Runs] /\ RunsAreTyped'
    BY <2>1, <2>2, <2>3
  <2>5. proc' \in [Pids -> Processes]
    BY <2>1, <2>2, ForkKeeps
  <2> QED BY <1>3, <2>1, <2>4, <2>5 DEF SpawnForks
<1>4. CASE SpawnRegisters(t)
  <2>1. caller[t].pid \in Pids /\ caller[t].child \in Children
    BY <1>4 DEF SpawnRegisters, Runs
  <2> QED BY <1>4, <2>1, GotoKeeps DEF SpawnRegisters, RunStates
<1>5. CASE SpawnRefuses(t)
  <2>1. caller[t].pid \in Pids /\ caller[t].child \in Children
    BY <1>5 DEF SpawnRefuses, Runs
  <2> QED BY <1>5, <2>1, SigKillKeeps, IdleKeeps DEF SpawnRefuses
<1> QED BY <1>1, <1>2, <1>3, <1>4, <1>5 DEF Spawn

LEMMA TypeRun ==
  ASSUME TypeInv, NEW t \in Threads, Run(t)
  PROVE  TypeInv'
<1> USE DEF TypeInv, TypeOK, RunsAreTyped
<1>1. CASE WaitReads(t)
  <2>1. slot[caller[t].child] \in Statuses \cup {Pending}
    BY <1>1 DEF WaitReads
  <2>2. CASE slot[caller[t].child] = Pending
    BY <1>1, <2>2, GotoKeeps DEF WaitReads, RunStates
  <2>3. CASE slot[caller[t].child] # Pending
    BY <1>1, <2>1, <2>3, DecidesKeeps DEF WaitReads, RunStates
  <2> QED BY <2>2, <2>3
<1>2. CASE WaitGoesOn(t) BY <1>2, GotoKeeps DEF WaitGoesOn, RunStates
<1>3. CASE GivesUp(t) BY <1>3, DecidesKeeps DEF GivesUp, RunStates, Statuses
<1>4. CASE Kills(t)
  <2>1. caller[t].pid \in Pids
    BY DEF Runs
  <2> QED BY ZenonT(30), <1>4, <2>1, SigKillKeeps, GotoKeeps DEF Kills, RunStates
<1>5. CASE Returns(t) BY <1>5, IdleKeeps DEF Returns
<1> QED BY <1>1, <1>2, <1>3, <1>4, <1>5 DEF Run

LEMMA TypeReap ==
  ASSUME TypeOK, NEW p \in Pids, NEW ready \in SUBSET Pids, NEW back \in {"target", "sweep"},
         Reap(p, ready, back)
  PROVE  /\ proc' \in [Pids -> Processes]
         /\ registry' \in [Pids -> {Stray} \cup Children]
         /\ reaper' \in Reapers
  BY DEF TypeOK, Reap, Processes, Reapers, Free

LEMMA ReaperKeeps ==
  ASSUME reaper \in Reapers, NEW pc \in {"snapshot", "poll", "target", "deliver", "sweep"},
         NEW ready \in SUBSET Pids
  PROVE  /\ [reaper EXCEPT !.pc = pc] \in Reapers
         /\ [reaper EXCEPT !.ready = ready] \in Reapers
         /\ [reaper EXCEPT !.pc = pc, !.ready = ready] \in Reapers
         /\ [EmptyHanded EXCEPT !.pc = pc, !.ready = ready] \in Reapers
         /\ reaper.ready \in SUBSET Pids
         /\ reaper.back \in {"target", "sweep"}
         /\ reaper.child \in {Stray} \cup Children
         /\ reaper.status \in Statuses \cup {Pending}
  BY ConstantRecords DEF Reapers

LEMMA TypeReaper ==
  ASSUME TypeInv, Reaper
  PROVE  TypeInv'
<1> SUFFICES TypeOK'
  BY DEF TypeInv, RunsAreTyped, Reaper, ReaperSnapshot, ReaperPoll, ReaperTarget, ReaperSweep,
         ReaperDelivers
<1> USE DEF TypeInv, TypeOK
<1>1. CASE ReaperSnapshot
  <2>1. {p \in Pids : registry[p] # Stray} \in SUBSET Pids
    OBVIOUS
  <2> QED BY <1>1, <2>1, ReaperKeeps DEF ReaperSnapshot
<1>2. CASE ReaperPoll
  <2>1. PICK seen \in {{}, {p \in reaper.ready : IsZombie(p)}} :
          reaper' = [reaper EXCEPT !.pc = "target", !.ready = seen]
    BY <1>2 DEF ReaperPoll
  <2>2. seen \in SUBSET Pids
    BY ReaperKeeps
  <2> QED BY <1>2, <2>1, <2>2, ReaperKeeps DEF ReaperPoll
<1>3. CASE ReaperTarget
  <2>1. CASE \E p \in reaper.ready : Reap(p, reaper.ready \ {p}, "target")
    <3>1. PICK p \in reaper.ready : Reap(p, reaper.ready \ {p}, "target")
      BY <2>1
    <3>2. p \in Pids /\ reaper.ready \ {p} \in SUBSET Pids
      BY ReaperKeeps
    <3> QED BY <1>3, <3>1, <3>2, TypeReap DEF ReaperTarget
  <2>2. CASE reaper' = [reaper EXCEPT !.pc = "sweep"] /\ UNCHANGED <<proc, registry>>
    BY <1>3, <2>2, ReaperKeeps DEF ReaperTarget
  <2>3. CASE \E p \in reaper.ready : /\ reaper' = [reaper EXCEPT !.ready = @ \ {p}]
                                     /\ UNCHANGED <<proc, registry>>
    <3>1. PICK p \in reaper.ready : reaper' = [reaper EXCEPT !.ready = @ \ {p}]
      BY <2>3
    <3>2. reaper.ready \ {p} \in SUBSET Pids
      BY ReaperKeeps
    <3> QED BY <1>3, <2>3, <3>1, <3>2, ReaperKeeps DEF ReaperTarget
  <2> QED BY <1>3, <2>1, <2>2, <2>3 DEF ReaperTarget
<1>4. CASE ReaperSweep
  <2>1. CASE \E p \in Pids : Reap(p, {}, "sweep")
    BY <1>4, <2>1, TypeReap DEF ReaperSweep
  <2>2. CASE reaper' = [reaper EXCEPT !.pc = "snapshot"] /\ UNCHANGED <<proc, registry>>
    BY <1>4, <2>2, ReaperKeeps DEF ReaperSweep
  <2> QED BY <1>4, <2>1, <2>2 DEF ReaperSweep
<1>5. CASE ReaperDelivers
  <2>1. reaper' = [EmptyHanded EXCEPT !.pc = reaper.back, !.ready = reaper.ready]
    BY <1>5 DEF ReaperDelivers
  <2>2. reaper' \in Reapers
    BY <2>1, ReaperKeeps
  <2>3. slot' \in [Children -> Statuses \cup {Pending}]
    BY <1>5, ReaperKeeps DEF ReaperDelivers, Recipient
  <2> QED BY <1>5, <2>2, <2>3 DEF ReaperDelivers
<1> QED BY <1>1, <1>2, <1>3, <1>4, <1>5 DEF Reaper

LEMMA TypeKernel ==
  ASSUME TypeInv, NEW p \in Pids, Die(p) \/ Orphan(p)
  PROVE  TypeInv'
<1> SUFFICES TypeOK'
  BY DEF TypeInv, RunsAreTyped, Die, Orphan
<1> USE DEF TypeInv, TypeOK
<1>1. CASE Die(p)
  <2>1. PICK status \in Statuses :
          /\ proc' = [proc EXCEPT ![p] = [@ EXCEPT !.state = "zombie", !.status = status]]
          /\ truth' = IF proc[p].child = Stray THEN truth
                      ELSE [truth EXCEPT ![proc[p].child] = status]
    BY <1>1 DEF Die
  <2>2. proc' \in [Pids -> Processes]
    BY <2>1, DieKeeps
  <2>3. proc[p].child \in {Stray} \cup Children
    BY DEF Processes
  <2> QED BY <1>1, <2>1, <2>2, <2>3 DEF Die
<1>2. CASE Orphan(p)
  <2>1. proc' = [proc EXCEPT ![p] = Running(Stray)] /\ Stray \in {Stray} \cup Children
    BY <1>2 DEF Orphan
  <2>2. proc' \in [Pids -> Processes]
    BY <2>1, ForkKeeps
  <2>3. orphans' \in 0 .. MaxOrphans
    BY <1>2, ProcessAssumption DEF Orphan
  <2> QED BY <1>2, <2>2, <2>3 DEF Orphan
<1> QED BY <1>1, <1>2

LEMMA TypeStep == TypeInv /\ [Next]_vars => TypeInv'
<1> SUFFICES ASSUME TypeInv, [Next]_vars PROVE TypeInv'
  OBVIOUS
<1>1. CASE UNCHANGED vars BY <1>1 DEF TypeInv, TypeOK, RunsAreTyped, vars
<1> QED BY <1>1, TypeSpawn, TypeRun, TypeReaper, TypeKernel DEF Next

(* Every reachable state is well typed.                                    *)
THEOREM TypeCorrect == Spec => []TypeOK
<1>1. TypeInv => TypeOK
  BY DEF TypeInv
<1> QED BY <1>1, TypeInit, TypeStep, PTL DEF Spec

-----------------------------------------------------------------------------
(* The lock, and what it protects: a registered child is not reaped, nor is*)
(* one that is being spawned.                                              *)

SpawnHasLock == \A t \in Threads : caller[t].pc \in {"spawn", "forked"} => lock = t

LockInv == TypeInv /\ SpawnHasLock /\ RegistrationIsLiveness /\ SpawnKeepsItsChild

LEMMA LockInit == Init => LockInv
<1> SUFFICES ASSUME Init PROVE LockInv
  OBVIOUS
<1>1. \A t \in Threads : caller[t].pc = "idle"
  BY ConstantRecords DEF Init
<1> QED BY <1>1, TypeInit DEF LockInv, SpawnHasLock, RegistrationIsLiveness, SpawnKeepsItsChild, Init

(* What keeps the two facts about the table: no process moves or is freed, *)
(* and whoever is still spawning was.                                      *)
LEMMA LockKept ==
  ASSUME LockInv, TypeInv', UNCHANGED registry, SpawnHasLock',
         \A q \in Pids : /\ ~IsFree(q) => proc'[q].state # "free"
                         /\ ~IsFree(q) => proc'[q].child = proc[q].child,
         \A t \in Threads : caller'[t].pc = "forked" =>
                              caller[t].pc = "forked" /\ caller'[t].pid = caller[t].pid
                              /\ caller'[t].child = caller[t].child
  PROVE  LockInv'
<1> RegistrationIsLiveness /\ SpawnKeepsItsChild
  BY DEF LockInv
<1>1. RegistrationIsLiveness'
  <2> SUFFICES ASSUME NEW q \in Pids, registry[q] # Stray
               PROVE  proc'[q].state # "free" /\ proc'[q].child = registry[q]
    BY DEF RegistrationIsLiveness, IsFree
  <2>1. ~IsFree(q) /\ proc[q].child = registry[q]
    BY DEF RegistrationIsLiveness
  <2> QED BY <2>1
<1>2. \A t \in Threads : caller[t].pid \in Pids
  BY DEF LockInv, TypeInv, TypeOK, Runs
<1>3. SpawnKeepsItsChild'
  <2> SUFFICES ASSUME NEW t \in Threads, caller'[t].pc = "forked"
               PROVE  /\ proc'[caller'[t].pid].state # "free"
                      /\ proc'[caller'[t].pid].child = caller'[t].child
    BY DEF SpawnKeepsItsChild, IsFree
  <2>1. caller[t].pc = "forked" /\ caller'[t].pid = caller[t].pid /\ caller'[t].child = caller[t].child
    OBVIOUS
  <2>2. ~IsFree(caller[t].pid) /\ proc[caller[t].pid].child = caller[t].child
    BY <2>1 DEF SpawnKeepsItsChild
  <2> QED BY <1>2, <2>1, <2>2
<1> QED BY <1>1, <1>3 DEF LockInv

LEMMA LockSpawn ==
  ASSUME LockInv, TypeInv', NEW t \in Threads, Spawn(t)
  PROVE  LockInv'
<1> caller \in [Threads -> Runs] /\ proc \in [Pids -> Processes] /\ t # Nobody
  BY ProcessAssumption DEF LockInv, TypeInv, TypeOK
<1> caller[t].pid \in Pids
  BY DEF Runs
<1>1. CASE SpawnLocks(t)
  <2>1. SpawnHasLock'
    BY <1>1, ProcessAssumption, GotoKeeps
       DEF SpawnLocks, LockInv, SpawnHasLock, LockFree, RunStates
  <2> QED BY <1>1, <2>1, GotoKeeps, LockKept DEF SpawnLocks, RunStates, IsFree
<1>2. CASE SpawnFails(t)
  <2>1. SpawnHasLock'
    BY <1>2, IdleKeeps DEF SpawnFails, LockInv, SpawnHasLock
  <2> QED BY <1>2, <2>1, IdleKeeps, LockKept DEF SpawnFails, IsFree
<1>3. CASE SpawnForks(t)
  <2>1. PICK p \in Pids :
          /\ IsFree(p)
          /\ proc' = [proc EXCEPT ![p] = Running(spawned + 1)]
          /\ caller' = [caller EXCEPT ![t] = [pc |-> "forked", pid |-> p, child |-> spawned + 1,
                                              verdict |-> Pending]]
    BY <1>3 DEF SpawnForks
  <2>2. lock = t /\ UNCHANGED <<lock, registry>>
    BY <1>3 DEF SpawnForks, LockInv, SpawnHasLock
  <2>3. \A u \in Threads : u # t => caller'[u] = caller[u] /\ caller[u].pc \notin {"spawn", "forked"}
    BY <2>1, <2>2 DEF LockInv, SpawnHasLock
  <2>4. SpawnHasLock'
    BY <2>2, <2>3 DEF SpawnHasLock
  <2>5. SpawnKeepsItsChild'
    BY <2>1, <2>3 DEF SpawnKeepsItsChild, IsFree, Running
  <2>6. RegistrationIsLiveness'
    BY <2>1, <2>2 DEF LockInv, RegistrationIsLiveness, IsFree
  <2> QED BY <2>4, <2>5, <2>6 DEF LockInv
<1>4. CASE SpawnRegisters(t)
  <2>1. SpawnHasLock'
    BY <1>4, GotoKeeps DEF SpawnRegisters, LockInv, SpawnHasLock, RunStates
  <2>2. \A u \in Threads : caller'[u].pc = "forked" => caller'[u] = caller[u]
    BY <1>4, GotoKeeps DEF SpawnRegisters, RunStates
  <2>3. SpawnKeepsItsChild'
    BY <1>4, <2>2 DEF SpawnRegisters, LockInv, SpawnKeepsItsChild, IsFree
  <2>4. RegistrationIsLiveness'
    BY <1>4 DEF SpawnRegisters, LockInv, TypeInv, TypeOK, RegistrationIsLiveness, SpawnKeepsItsChild,
                IsFree
  <2> QED BY <2>1, <2>3, <2>4 DEF LockInv
<1>5. CASE SpawnRefuses(t)
  <2>1. lock = t
    BY <1>5 DEF SpawnRefuses, LockInv, SpawnHasLock
  <2>2. \A u \in Threads : caller'[u].pc \notin {"spawn", "forked"}
    BY <1>5, <2>1, IdleKeeps DEF SpawnRefuses, LockInv, SpawnHasLock
  <2>3. SpawnHasLock' /\ UNCHANGED registry
    BY <1>5, <2>2 DEF SpawnRefuses, SpawnHasLock
  <2>4. \A q \in Pids : /\ ~IsFree(q) => proc'[q].state # "free"
                        /\ proc'[q].child = proc[q].child
    BY <1>5, SigKillKeeps DEF SpawnRefuses, IsFree
  <2> QED BY <2>2, <2>3, <2>4, LockKept
<1> QED BY <1>1, <1>2, <1>3, <1>4, <1>5 DEF Spawn

LEMMA LockRun ==
  ASSUME LockInv, TypeInv', NEW t \in Threads, Run(t)
  PROVE  LockInv'
<1> caller \in [Threads -> Runs] /\ proc \in [Pids -> Processes]
  BY DEF LockInv, TypeInv, TypeOK
<1>1. caller[t].pid \in Pids
  BY DEF Runs
<1>2. \A u \in Threads : caller'[u].pc \in {"spawn", "forked"} => caller'[u] = caller[u]
  <2>1. CASE \E pc \in {"wait", "check", "consume"} : Goto(t, pc)
    BY <2>1, GotoKeeps DEF RunStates
  <2>2. CASE \E pc \in {"kill", "consume"} : \E verdict : Decides(t, verdict, pc)
    BY <2>2 DEF Decides, Runs
  <2>3. CASE caller' = [caller EXCEPT ![t] = Idle]
    BY <2>3, IdleKeeps
  <2> QED BY <2>1, <2>2, <2>3 DEF Run, WaitReads, WaitGoesOn, GivesUp, Kills, Returns
<1>3. UNCHANGED <<lock, registry>>
  BY DEF Run, WaitReads, WaitGoesOn, GivesUp, Kills, Returns
<1>4. proc' = proc \/ proc' = SigKill(caller[t].pid)
  BY DEF Run, WaitReads, WaitGoesOn, GivesUp, Kills, Returns
<1>5. \A q \in Pids : /\ ~IsFree(q) => proc'[q].state # "free"
                      /\ proc'[q].child = proc[q].child
  BY <1>1, <1>4, SigKillKeeps DEF IsFree
<1>6. SpawnHasLock'
  BY <1>2, <1>3 DEF LockInv, SpawnHasLock
<1> QED BY <1>2, <1>3, <1>5, <1>6, LockKept

(* A reap takes the lock, so no spawn is under way.                        *)
LEMMA LockReap ==
  ASSUME LockInv, TypeInv', LockFree, NEW p \in Pids, NEW ready, NEW back, Reap(p, ready, back),
         UNCHANGED <<lock, caller>>
  PROVE  LockInv'
<1>1. \A t \in Threads : caller[t].pc \notin {"spawn", "forked"}
  BY ProcessAssumption DEF LockInv, SpawnHasLock, LockFree
<1>2. RegistrationIsLiveness'
  BY DEF Reap, LockInv, TypeInv, TypeOK, RegistrationIsLiveness, IsFree
<1> QED BY <1>1, <1>2 DEF LockInv, SpawnHasLock, SpawnKeepsItsChild

(* What a step of the reaper does to the tables.                           *)
LEMMA ReaperStep ==
  ASSUME TypeOK, Reaper
  PROVE  /\ UNCHANGED <<lock, caller, spawned, truth, result>>
         /\ \/ UNCHANGED <<proc, registry>>
            \/ /\ LockFree /\ UNCHANGED slot
               /\ \E p \in Pids, ready \in SUBSET Pids, back \in {"target", "sweep"} :
                    IsZombie(p) /\ Reap(p, ready, back)
<1>1. reaper.ready \in SUBSET Pids
  BY ReaperKeeps DEF TypeOK
<1> QED BY <1>1 DEF Reaper, ReaperSnapshot, ReaperPoll, ReaperTarget, ReaperSweep, ReaperDelivers

LEMMA LockReaper ==
  ASSUME LockInv, TypeInv', Reaper
  PROVE  LockInv'
<1>1. CASE UNCHANGED <<proc, registry>>
  BY <1>1, ReaperStep
     DEF LockInv, TypeInv, SpawnHasLock, RegistrationIsLiveness, SpawnKeepsItsChild, IsFree
<1> QED BY <1>1, ReaperStep, LockReap DEF LockInv, TypeInv

LEMMA LockKernel ==
  ASSUME LockInv, TypeInv', NEW p \in Pids, Die(p) \/ Orphan(p)
  PROVE  LockInv'
<1> proc \in [Pids -> Processes]
  BY DEF LockInv, TypeInv, TypeOK
<1>1. \A q \in Pids : /\ ~IsFree(q) => proc'[q].state # "free"
                      /\ ~IsFree(q) => proc'[q].child = proc[q].child
  BY DieKeeps, ForkKeeps DEF Die, Orphan, IsFree
<1>2. UNCHANGED <<lock, registry, caller>>
  BY DEF Die, Orphan
<1> QED BY <1>1, <1>2, LockKept DEF LockInv, SpawnHasLock

LEMMA LockStep == LockInv /\ [Next]_vars => LockInv'
<1> SUFFICES ASSUME LockInv, [Next]_vars PROVE LockInv'
  OBVIOUS
<1>1. TypeInv'
  BY TypeStep DEF LockInv
<1>2. CASE UNCHANGED vars
  BY <1>1, <1>2 DEF vars, LockInv, SpawnHasLock, RegistrationIsLiveness, SpawnKeepsItsChild, IsFree
<1> QED BY <1>1, <1>2, LockSpawn, LockRun, LockReaper, LockKernel DEF Next

LEMMA LockCorrect == Spec => []LockInv
<1> QED BY LockInit, LockStep, PTL DEF Spec

(* The liveness proof that signal_child relies on: under a registered pid  *)
(* runs, or waits to be reaped, the registered child.                      *)
THEOREM RegistrationProvesLiveness == Spec => []RegistrationIsLiveness
<1>1. LockInv => RegistrationIsLiveness
  BY DEF LockInv
<1> QED BY <1>1, LockCorrect, PTL

(* No child is reaped in the middle of its own spawn.                      *)
THEOREM SpawnIsAtomic == Spec => []SpawnKeepsItsChild
<1>1. LockInv => SpawnKeepsItsChild
  BY DEF LockInv
<1> QED BY <1>1, LockCorrect, PTL

(* A SIGKILL reaches supervised children only.                             *)
THEOREM SignalsAreContained == Spec => SignalsReachChildren
<1> DEFINE Contained ==
      \A p \in Pids :
        proc[p].state = "running" /\ proc'[p].state = "killed" =>
          \/ registry[p] # Stray
          \/ \E t \in Threads : caller[t].pc = "forked" /\ caller[t].pid = p
<1>1. ASSUME LockInv, Next PROVE Contained
  <2> SUFFICES ASSUME NEW p \in Pids, proc[p].state = "running", proc'[p].state = "killed"
               PROVE  \/ registry[p] # Stray
                      \/ \E t \in Threads : caller[t].pc = "forked" /\ caller[t].pid = p
    OBVIOUS
  <2> proc \in [Pids -> Processes] /\ caller \in [Threads -> Runs] /\ TypeOK
    BY <1>1 DEF LockInv, TypeInv, TypeOK
  <2>1. ASSUME NEW t \in Threads, Spawn(t) \/ Run(t), ~SpawnForks(t)
        PROVE  \/ proc' = proc
               \/ proc' = SigKill(caller[t].pid) /\ (caller[t].pc = "forked"
                                                     \/ registry[caller[t].pid] # Stray)
    BY <2>1 DEF Spawn, Run, SpawnLocks, SpawnFails, SpawnRegisters, SpawnRefuses, WaitReads,
                WaitGoesOn, GivesUp, Kills, Returns
  <2>2. ASSUME NEW t \in Threads, Spawn(t) \/ Run(t), ~SpawnForks(t)
        PROVE  p = caller[t].pid /\ (caller[t].pc = "forked" \/ registry[p] # Stray)
    <3>1. caller[t].pid \in Pids
      BY DEF Runs
    <3> QED BY <2>1, <2>2, <3>1, SigKillKeeps
  <2>3. CASE \E t \in Threads : SpawnForks(t)
    BY <2>3 DEF SpawnForks, Running
  <2>4. CASE Reaper
    BY <2>4, ReaperStep DEF Reap, Free
  <2>5. CASE \E q \in Pids : Die(q) \/ Orphan(q)
    BY <2>5, DieKeeps, ForkKeeps DEF Die, Orphan
  <2> QED BY <1>1, <2>2, <2>3, <2>4, <2>5 DEF Next
<1>2. LockInv /\ [Next]_vars => [Contained]_vars
  BY <1>1
<1> QED BY <1>2, LockCorrect, PTL DEF Spec, SignalsReachChildren

-----------------------------------------------------------------------------
(* Verdicts.  What the kernel's table, the reaper's hand and a run's own   *)
(* verdict say of a child, against what became of it.                      *)

(* A child has one process at a time, none before its fork.                *)
Numbered ==
  /\ \A p \in Pids : proc[p].child <= spawned
  /\ \A c \in Children : c > spawned => truth[c] = Pending /\ result[c] = "none"
  /\ \A t \in Threads : caller[t].child <= spawned

Lives(p, c) == Alive(p) /\ proc[p].child = c /\ c # Stray

Single == \A p, q \in Pids : \A c \in Children : Lives(p, c) /\ Lives(q, c) => p = q

(* It has not ended while it lives; a zombie still shows how it did, and so*)
(* does the status that the reaper is about to deliver.                    *)
Witnessed ==
  /\ \A p \in Pids : \A c \in Children : Lives(p, c) => truth[c] = Pending
  /\ \A p \in Pids : IsZombie(p) /\ proc[p].child # Stray =>
       /\ proc[p].status \in Statuses
       /\ truth[proc[p].child] = proc[p].status
  /\ reaper.pc = "deliver" /\ reaper.child # Stray =>
       /\ reaper.status \in Statuses
       /\ truth[reaper.child] = reaper.status

(* A run that decided on success has read it.                              *)
Decided ==
  \A t \in Threads : caller[t].pc \in {"kill", "consume"} /\ caller[t].verdict = "ok" =>
    truth[caller[t].child] = "ok"

TruthInv ==
  /\ LockInv
  /\ Numbered /\ Single /\ Witnessed /\ Decided
  /\ VerdictsAreTrue /\ NoRunLeavesItsChild

LEMMA TruthInit == Init => TruthInv
<1> SUFFICES ASSUME Init PROVE TruthInv
  OBVIOUS
<1>1. LockInv /\ TypeOK
  BY LockInit DEF LockInv, TypeInv
<1>2. \A t \in Threads : caller[t].pc = "idle" /\ caller[t].child = 0
  BY ConstantRecords DEF Init, Idle, Stray
<1>3. \A p \in Pids : proc[p].state = "free" /\ proc[p].child = 0
  BY DEF Init, Free, Stray
<1>4. reaper.pc = "snapshot"
  BY ConstantRecords DEF Init
<1>5. Numbered
  BY <1>2, <1>3 DEF Init, Numbered
<1>6. Single /\ Witnessed
  BY <1>3, <1>4 DEF Single, Witnessed, Lives, Alive, IsZombie
<1>7. Decided
  BY <1>2 DEF Decided
<1>8. VerdictsAreTrue /\ NoRunLeavesItsChild
  BY <1>3 DEF Init, VerdictsAreTrue, NoRunLeavesItsChild, Pending
<1> QED BY <1>1, <1>5, <1>6, <1>7, <1>8 DEF TruthInv

(* A signal ends nothing: who lives, and what zombies show, stays.         *)
LEMMA TablesStay ==
  ASSUME TruthInv, UNCHANGED <<truth, reaper>>, proc' = proc \/ \E p \in Pids : proc' = SigKill(p)
  PROVE  /\ Single' /\ Witnessed'
         /\ \A p \in Pids : /\ proc'[p].child = proc[p].child
                            /\ proc'[p].state = "running" => proc[p].state = "running"
<1> proc \in [Pids -> Processes]
  BY DEF TruthInv, LockInv, TypeInv, TypeOK
<1>1. \A p \in Pids : /\ proc'[p].child = proc[p].child
                      /\ proc'[p].status = proc[p].status
                      /\ proc'[p].state = "running" => proc[p].state = "running"
                      /\ proc'[p].state = "zombie" <=> proc[p].state = "zombie"
                      /\ proc'[p].state \in {"running", "killed"} <=>
                           proc[p].state \in {"running", "killed"}
  BY SigKillKeeps
<1>2. Single'
  BY <1>1 DEF TruthInv, Single, Lives, Alive
<1>3. Witnessed'
  BY <1>1 DEF TruthInv, Witnessed, Lives, Alive, IsZombie
<1> QED BY <1>1, <1>2, <1>3

LEMMA TruthSpawn ==
  ASSUME TruthInv, LockInv', NEW t \in Threads, Spawn(t)
  PROVE  TruthInv'
<1> proc \in [Pids -> Processes] /\ caller \in [Threads -> Runs] /\ spawned \in Nat
    /\ result \in [Children -> Statuses \cup {"none", "refused"}]
    /\ RunsAreTyped /\ caller[t].pid \in Pids
  BY ProcessAssumption DEF TruthInv, LockInv, TypeInv, TypeOK, Runs
<1> Numbered /\ Single /\ Witnessed /\ Decided /\ VerdictsAreTrue /\ NoRunLeavesItsChild
  BY DEF TruthInv
<1>1. CASE SpawnLocks(t) \/ SpawnFails(t) \/ SpawnRegisters(t)
  <2>1. UNCHANGED <<proc, slot, truth, reaper, result, spawned>>
    BY <1>1 DEF SpawnLocks, SpawnFails, SpawnRegisters
  <2>2. \A u \in Threads : /\ caller'[u].child \in {0, caller[u].child}
                           /\ caller'[u].pc \in {"kill", "consume"} => caller'[u] = caller[u]
    <3>1. CASE SpawnFails(t) BY <3>1, IdleKeeps DEF SpawnFails, Idle, Stray
    <3>2. CASE SpawnLocks(t) \/ SpawnRegisters(t)
      BY <3>2, GotoKeeps DEF SpawnLocks, SpawnRegisters, RunStates
    <3> QED BY <1>1, <3>1, <3>2
  <2>3. Numbered' /\ Decided'
    BY <2>1, <2>2 DEF Numbered, Decided
  <2>4. VerdictsAreTrue' /\ NoRunLeavesItsChild'
    BY <2>1 DEF VerdictsAreTrue, NoRunLeavesItsChild
  <2> QED BY <2>1, <2>3, <2>4, TablesStay DEF TruthInv
<1>2. CASE SpawnForks(t)
  <2>1. PICK p \in Pids :
          /\ IsFree(p)
          /\ proc' = [proc EXCEPT ![p] = Running(spawned + 1)]
          /\ caller' = [caller EXCEPT ![t] = [pc |-> "forked", pid |-> p, child |-> spawned + 1,
                                              verdict |-> Pending]]
    BY <1>2 DEF SpawnForks
  <2>2. UNCHANGED <<slot, truth, reaper, result>> /\ spawned' = spawned + 1
    BY <1>2 DEF SpawnForks
  <2>3. spawned + 1 \in Children
    BY <1>2, ProcessAssumption DEF SpawnForks, Children
  <2>4. /\ \A q \in Pids \ {p} : proc'[q] = proc[q]
        /\ proc'[p].state = "running" /\ proc'[p].child = spawned + 1
    BY <2>1, <2>3, ForkKeeps
  <2>5. /\ \A u \in Threads \ {t} : caller'[u] = caller[u]
        /\ caller'[t].pc = "forked" /\ caller'[t].child = spawned + 1
    BY <2>1
  <2>6. \A c \in Children : c \in Nat
    BY DEF Children
  <2>7. \A q \in Pids : proc[q].child \in Nat /\ proc[q].child <= spawned
    BY <2>6 DEF Numbered, Processes, Stray
  <2>8. \A u \in Threads : caller[u].child \in Nat /\ caller[u].child <= spawned
    BY <2>6 DEF Numbered, Runs, Stray
  <2>9. Numbered'
    BY <2>2, <2>4, <2>5, <2>6, <2>7, <2>8 DEF Numbered
  <2>10. truth[spawned + 1] = Pending /\ result[spawned + 1] = "none"
    BY <2>3 DEF Numbered
  <2>11. Single'
    BY <2>4, <2>7 DEF Single, Lives, Alive
  <2>12. Witnessed'
    BY <2>2, <2>4, <2>10 DEF Witnessed, Lives, Alive, IsZombie
  <2>13. Decided'
    BY <2>2, <2>5 DEF Decided
  <2>14. VerdictsAreTrue' /\ NoRunLeavesItsChild'
    BY <2>2, <2>4, <2>10 DEF VerdictsAreTrue, NoRunLeavesItsChild
  <2> QED BY <2>9, <2>11, <2>12, <2>13, <2>14 DEF TruthInv
<1>3. CASE SpawnRefuses(t)
  <2>1. UNCHANGED <<slot, truth, reaper, spawned>> /\ proc' = SigKill(caller[t].pid)
        /\ result' = [result EXCEPT ![caller[t].child] = "refused"] /\ caller[t].pc = "forked"
    BY <1>3 DEF SpawnRefuses
  <2>2. caller[t].child \in Children
    BY <2>1 DEF RunsAreTyped
  <2>3. \A u \in Threads : /\ caller'[u].child \in {0, caller[u].child}
                           /\ caller'[u].pc \in {"kill", "consume"} => caller'[u] = caller[u]
    BY <1>3, IdleKeeps DEF SpawnRefuses, Idle, Stray
  <2>4. Decided' /\ VerdictsAreTrue'
    BY <2>1, <2>2, <2>3 DEF Decided, VerdictsAreTrue
  <2>5. Single' /\ Witnessed' /\ \A p \in Pids : proc'[p].child = proc[p].child
    BY <2>1, TablesStay
  <2>6. caller[t].child <= spawned
    BY DEF Numbered
  <2>7. Numbered'
    BY <2>1, <2>2, <2>3, <2>5, <2>6 DEF Numbered, Children
  <2>8. NoRunLeavesItsChild'
    <3> SUFFICES ASSUME NEW p \in Pids, proc'[p].state = "running", proc'[p].child # Stray
                 PROVE  result'[proc'[p].child] = "none"
      BY DEF NoRunLeavesItsChild
    <3>1. proc[p].state = "running" /\ proc[p].child = proc'[p].child
      BY <2>1, TablesStay
    <3>2. result[proc[p].child] = "none" /\ proc[p].child \in Children
      BY <3>1 DEF NoRunLeavesItsChild, Processes
    <3>3. proc[p].child # caller[t].child
      <4>1. ~IsFree(caller[t].pid) /\ proc[caller[t].pid].child = caller[t].child
        BY <2>1 DEF TruthInv, LockInv, SpawnKeepsItsChild
      <4>2. p # caller[t].pid
        BY <2>1, SigKillKeeps
      <4>3. proc[p].child = caller[t].child => Lives(p, caller[t].child)
        BY <2>2, <3>1 DEF Lives, Alive, Children, Stray
      <4>4. SUFFICES ASSUME proc[p].child = caller[t].child PROVE FALSE
        OBVIOUS
      <4>5. CASE Alive(caller[t].pid)
        BY <2>2, <4>1, <4>2, <4>3, <4>4, <4>5 DEF Single, Lives, Children, Stray
      <4>6. CASE IsZombie(caller[t].pid)
        BY <2>2, <4>1, <4>3, <4>4, <4>6 DEF Witnessed, Children, Stray, Statuses, Pending
      <4> QED BY <4>1, <4>5, <4>6 DEF IsFree, Alive, IsZombie, Processes
    <3> QED BY <2>1, <2>2, <3>1, <3>2, <3>3
  <2> QED BY <2>4, <2>5, <2>7, <2>8 DEF TruthInv
<1> QED BY <1>1, <1>2, <1>3 DEF Spawn

LEMMA TruthRun ==
  ASSUME TruthInv, LockInv', NEW t \in Threads, Run(t)
  PROVE  TruthInv'
<1> proc \in [Pids -> Processes] /\ caller \in [Threads -> Runs]
    /\ result \in [Children -> Statuses \cup {"none", "refused"}]
    /\ slot \in [Children -> Statuses \cup {Pending}]
    /\ RunsAreTyped /\ caller[t].pid \in Pids
  BY DEF TruthInv, LockInv, TypeInv, TypeOK, Runs
<1> Numbered /\ Single /\ Witnessed /\ Decided /\ VerdictsAreTrue /\ NoRunLeavesItsChild
  BY DEF TruthInv
<1>1. /\ UNCHANGED <<slot, truth, reaper, spawned>>
      /\ proc' = proc \/ proc' = SigKill(caller[t].pid)
  BY DEF Run, WaitReads, WaitGoesOn, GivesUp, Kills, Returns
<1>2. /\ Single' /\ Witnessed'
      /\ \A p \in Pids : /\ proc'[p].child = proc[p].child
                         /\ proc'[p].state = "running" => proc[p].state = "running"
  BY <1>1, TablesStay
<1>3. ASSUME UNCHANGED result,
             \A u \in Threads : caller'[u].child = caller[u].child,
             Decided'
      PROVE  TruthInv'
  <2>1. Numbered' /\ VerdictsAreTrue' /\ NoRunLeavesItsChild'
    BY <1>1, <1>2, <1>3 DEF Numbered, VerdictsAreTrue, NoRunLeavesItsChild
  <2> QED BY <1>2, <1>3, <2>1 DEF TruthInv
<1>4. CASE WaitReads(t)
  <2>1. caller[t].child \in Children
    BY <1>4 DEF WaitReads, RunsAreTyped
  <2>2. CASE slot[caller[t].child] = Pending
    BY <1>1, <1>3, <1>4, <2>2, GotoKeeps DEF WaitReads, RunStates, Decided
  <2>3. CASE slot[caller[t].child] # Pending
    <3>1. slot[caller[t].child] \in Statuses /\ slot[caller[t].child] = truth[caller[t].child]
      BY <2>1, <2>3 DEF VerdictsAreTrue
    <3>2. PICK pc \in {"consume", "kill"} : Decides(t, slot[caller[t].child], pc)
      BY <1>4, <2>3 DEF WaitReads
    <3>3. /\ \A u \in Threads \ {t} : caller'[u] = caller[u]
          /\ caller'[t].child = caller[t].child
          /\ caller'[t].verdict = slot[caller[t].child]
      BY <3>1, <3>2, DecidesKeeps DEF RunStates
    <3>4. Decided'
      BY <1>1, <3>1, <3>3 DEF Decided
    <3> QED BY <1>3, <1>4, <3>3, <3>4 DEF WaitReads
  <2> QED BY <2>2, <2>3
<1>5. CASE WaitGoesOn(t)
  BY <1>1, <1>3, <1>5, GotoKeeps DEF WaitGoesOn, RunStates, Decided
<1>6. CASE GivesUp(t)
  BY <1>1, <1>3, <1>6, DecidesKeeps DEF GivesUp, RunStates, Statuses, Decided
<1>7. CASE Kills(t)
  BY <1>1, <1>3, <1>7, GotoKeeps DEF Kills, RunStates, Decided
<1>8. CASE Returns(t)
  <2> DEFINE c == caller[t].child
  <2>1. /\ caller[t].pc = "consume" /\ UNCHANGED proc
        /\ result' = [result EXCEPT ![c] = caller[t].verdict]
        /\ slot[c] # Pending \/ \E p \in Pids : proc[p].child = c /\ proc[p].state = "killed"
    BY <1>8 DEF Returns
  <2>2. c \in Children /\ c # Stray /\ caller[t].verdict \in Statuses /\ c <= spawned
    BY <2>1 DEF RunsAreTyped, Numbered, Children, Stray
  <2>3. \A u \in Threads : /\ caller'[u].child \in {0, caller[u].child}
                           /\ caller'[u].pc \in {"kill", "consume"} => caller'[u] = caller[u]
    BY <1>8, IdleKeeps DEF Returns, Idle, Stray
  <2>4. Decided'
    BY <1>1, <2>3 DEF Decided
  <2>5. VerdictsAreTrue'
    BY <1>1, <2>1, <2>2 DEF VerdictsAreTrue, Decided
  <2>6. spawned \in Nat
    BY ProcessAssumption DEF TruthInv, LockInv, TypeInv, TypeOK
  <2>7. Numbered'
    BY <1>1, <1>2, <2>1, <2>2, <2>3, <2>6 DEF Numbered, Children
  <2>8. \A p \in Pids : ~(proc[p].state = "running" /\ proc[p].child = c)
    <3>1. CASE slot[c] # Pending
      BY <2>2, <3>1 DEF VerdictsAreTrue, Witnessed, Lives, Alive
    <3>2. CASE \E p \in Pids : proc[p].child = c /\ proc[p].state = "killed"
      BY <2>2, <3>2 DEF Single, Lives, Alive
    <3> QED BY <2>1, <3>1, <3>2
  <2>9. NoRunLeavesItsChild'
    BY <2>1, <2>2, <2>8 DEF NoRunLeavesItsChild, Processes
  <2> QED BY <1>2, <2>4, <2>5, <2>7, <2>9 DEF TruthInv
<1> QED BY <1>4, <1>5, <1>6, <1>7, <1>8 DEF Run

(* A reaped status goes with the child it was registered for.              *)
LEMMA TruthReaper ==
  ASSUME TruthInv, LockInv', Reaper
  PROVE  TruthInv'
<1> proc \in [Pids -> Processes] /\ registry \in [Pids -> {Stray} \cup Children]
    /\ slot \in [Children -> Statuses \cup {Pending}] /\ reaper \in Reapers /\ TypeOK
    /\ RegistrationIsLiveness
  BY DEF TruthInv, LockInv, TypeInv, TypeOK
<1> Numbered /\ Single /\ Witnessed /\ Decided /\ VerdictsAreTrue /\ NoRunLeavesItsChild
  BY DEF TruthInv
<1>1. UNCHANGED <<caller, spawned, truth, result>>
  BY ReaperStep
<1>2. CASE UNCHANGED <<proc, registry>>
  <2>1. Numbered' /\ Single' /\ Decided' /\ NoRunLeavesItsChild'
    BY <1>1, <1>2 DEF Numbered, Single, Decided, NoRunLeavesItsChild, Lives, Alive
  <2>2. CASE ReaperDelivers
    <3>1. reaper' = [EmptyHanded EXCEPT !.pc = reaper.back, !.ready = reaper.ready]
          /\ reaper.back \in {"target", "sweep"}
      BY <2>2 DEF ReaperDelivers, Reapers
    <3>2. reaper'.pc # "deliver"
      BY <3>1, ConstantRecords DEF Reapers
    <3>3. \/ slot' = slot
          \/ /\ reaper.child \in Children
             /\ slot' = [slot EXCEPT ![reaper.child] = reaper.status]
             /\ reaper.status = truth[reaper.child]
      BY <2>2 DEF ReaperDelivers, Recipient, Witnessed, Reapers
    <3>4. VerdictsAreTrue'
      BY <1>1, <3>3 DEF VerdictsAreTrue
    <3>5. Witnessed'
      BY <1>1, <1>2, <3>2 DEF Witnessed, Lives, Alive, IsZombie
    <3> QED BY <2>1, <3>4, <3>5 DEF TruthInv
  <2>3. CASE ~ReaperDelivers
    <3>1. UNCHANGED slot /\ reaper'.pc # "deliver"
      <4>1. CASE ReaperSnapshot BY <4>1 DEF ReaperSnapshot, Reapers
      <4>2. CASE ReaperPoll BY <4>2 DEF ReaperPoll, Reapers
      <4>3. CASE ReaperTarget
        <5>1. ASSUME NEW p \in reaper.ready, IsZombie(p) PROVE proc' # [proc EXCEPT ![p] = Free]
          BY <1>2, <5>1 DEF Reapers, IsZombie, Free
        <5> QED BY <4>3, <5>1 DEF ReaperTarget, Reap, Reapers
      <4>4. CASE ReaperSweep
        <5>1. ASSUME NEW p \in Pids, IsZombie(p) PROVE proc' # [proc EXCEPT ![p] = Free]
          BY <1>2, <5>1 DEF IsZombie, Free
        <5> QED BY <4>4, <5>1 DEF ReaperSweep, Reap, Reapers
      <4> QED BY <2>3, <4>1, <4>2, <4>3, <4>4 DEF Reaper
    <3>2. Witnessed' /\ VerdictsAreTrue'
      BY <1>1, <1>2, <3>1 DEF Witnessed, VerdictsAreTrue, Lives, Alive, IsZombie
    <3> QED BY <2>1, <3>2 DEF TruthInv
  <2> QED BY <2>2, <2>3
<1>3. ASSUME NEW p \in Pids, NEW ready \in SUBSET Pids, NEW back \in {"target", "sweep"},
             IsZombie(p), Reap(p, ready, back), UNCHANGED slot
      PROVE  TruthInv'
  <2>1. /\ proc' = [proc EXCEPT ![p] = Free]
        /\ reaper'.child = registry[p] /\ reaper'.status = proc[p].status
    BY <1>3 DEF Reap
  <2>2. \A q \in Pids : proc'[q] = proc[q] \/ (proc'[q] = Free /\ q = p)
    BY <2>1
  <2>3. Free.child = 0 /\ Free.state = "free"
    BY DEF Free, Stray
  <2>4. spawned \in Nat
    BY ProcessAssumption DEF TypeOK
  <2>5. Numbered' /\ Single' /\ Decided' /\ NoRunLeavesItsChild' /\ VerdictsAreTrue'
    BY <1>1, <1>3, <2>2, <2>3, <2>4
       DEF Numbered, Single, Decided, NoRunLeavesItsChild, VerdictsAreTrue, Lives, Alive
  <2>6. reaper'.child # Stray => reaper'.status \in Statuses /\ truth[reaper'.child] = reaper'.status
    BY <1>3, <2>1 DEF RegistrationIsLiveness, Witnessed
  <2>7. Witnessed'
    BY <1>1, <2>2, <2>3, <2>6 DEF Witnessed, Lives, Alive, IsZombie
  <2> QED BY <2>5, <2>7 DEF TruthInv
<1> QED BY <1>2, <1>3, ReaperStep

LEMMA TruthKernel ==
  ASSUME TruthInv, LockInv', NEW p \in Pids, Die(p) \/ Orphan(p)
  PROVE  TruthInv'
<1> proc \in [Pids -> Processes] /\ truth \in [Children -> Statuses \cup {Pending}]
    /\ spawned \in Nat
  BY ProcessAssumption DEF TruthInv, LockInv, TypeInv, TypeOK
<1> Numbered /\ Single /\ Witnessed /\ Decided /\ VerdictsAreTrue /\ NoRunLeavesItsChild
  BY DEF TruthInv
<1>1. UNCHANGED <<slot, caller, reaper, spawned, result>>
  BY DEF Die, Orphan
<1>2. CASE Die(p)
  <2> DEFINE c == proc[p].child
  <2>1. PICK status \in Statuses :
          /\ proc' = [proc EXCEPT ![p] = [@ EXCEPT !.state = "zombie", !.status = status]]
          /\ truth' = IF c = Stray THEN truth ELSE [truth EXCEPT ![c] = status]
    BY <1>2 DEF Die
  <2>2. /\ \A q \in Pids \ {p} : proc'[q] = proc[q]
        /\ proc'[p].state = "zombie" /\ proc'[p].status = status /\ proc'[p].child = c
    BY <2>1, DieKeeps
  <2>3. c \in {Stray} \cup Children /\ Alive(p) /\ status # Pending
    BY <1>2 DEF Die, Processes, Statuses, Pending
  <2>4. c # Stray => /\ c \in Children /\ truth[c] = Pending /\ Lives(p, c)
                     /\ truth' = [truth EXCEPT ![c] = status]
    BY <2>1, <2>3 DEF Witnessed, Lives
  <2>5. \A d \in Children : d # c \/ c = Stray => truth'[d] = truth[d]
    BY <2>1, <2>4
  <2>6. \A q \in Pids : proc[q].child \in {Stray} \cup Children
    BY DEF Processes
  <2>7. c <= spawned
    BY DEF Numbered
  <2>8. Numbered'
    BY <1>1, <2>2, <2>3, <2>5, <2>7 DEF Numbered, Children
  <2>9. Single'
    BY <2>2 DEF Single, Lives, Alive
  <2>10. \A q \in Pids : \A d \in Children : Lives(q, d)' => truth'[d] = Pending
    <3> SUFFICES ASSUME NEW q \in Pids, NEW d \in Children, Lives(q, d)' PROVE truth'[d] = Pending
      OBVIOUS
    <3>1. q # p /\ Lives(q, d)
      BY <2>2 DEF Lives, Alive
    <3>2. d # c \/ c = Stray
      BY <2>4, <3>1 DEF Single
    <3> QED BY <2>5, <3>1, <3>2 DEF Witnessed
  <2>11. \A q \in Pids : IsZombie(q)' /\ proc'[q].child # Stray =>
            proc'[q].status \in Statuses /\ truth'[proc'[q].child] = proc'[q].status
    <3> SUFFICES ASSUME NEW q \in Pids, IsZombie(q)', proc'[q].child # Stray
                 PROVE  proc'[q].status \in Statuses /\ truth'[proc'[q].child] = proc'[q].status
      OBVIOUS
    <3>1. CASE q = p BY <2>2, <2>4, <3>1
    <3>2. CASE q # p
      <4>1. IsZombie(q) /\ proc'[q] = proc[q] /\ proc[q].child \in Children
        BY <2>2, <2>6, <3>2 DEF IsZombie
      <4>2. proc[q].status \in Statuses /\ truth[proc[q].child] = proc[q].status
        BY <4>1 DEF Witnessed
      <4>3. proc[q].child # c
        BY <2>4, <4>1, <4>2 DEF Statuses, Pending
      <4> QED BY <2>5, <4>1, <4>2, <4>3
    <3> QED BY <3>1, <3>2
  <2>12. reaper.pc = "deliver" /\ reaper.child # Stray =>
            reaper.status \in Statuses /\ truth'[reaper.child] = reaper.status
    <3> SUFFICES ASSUME reaper.pc = "deliver", reaper.child # Stray
                 PROVE  reaper.status \in Statuses /\ truth'[reaper.child] = reaper.status
      OBVIOUS
    <3>1. /\ truth[reaper.child] = reaper.status /\ reaper.child \in Children
          /\ reaper.status \in Statuses
      BY DEF Witnessed, TruthInv, LockInv, TypeInv, TypeOK, Reapers
    <3>2. reaper.status # Pending
      BY DEF Witnessed, Statuses, Pending
    <3> QED BY <2>4, <2>5, <3>1, <3>2
  <2>13. Witnessed'
    BY <1>1, <2>10, <2>11, <2>12 DEF Witnessed
  <2>14. Decided'
    <3> SUFFICES ASSUME NEW t \in Threads, caller[t].pc \in {"kill", "consume"},
                        caller[t].verdict = "ok"
                 PROVE  truth'[caller[t].child] = "ok"
      BY <1>1 DEF Decided
    <3>1. truth[caller[t].child] = "ok" /\ caller[t].child \in Children
      BY DEF Decided, TruthInv, LockInv, TypeInv, RunsAreTyped
    <3> QED BY <2>4, <2>5, <3>1 DEF Pending
  <2>15. VerdictsAreTrue'
    BY <1>1, <2>4, <2>5 DEF VerdictsAreTrue, Pending
  <2>16. NoRunLeavesItsChild'
    BY <1>1, <2>2 DEF NoRunLeavesItsChild
  <2> QED BY <2>8, <2>9, <2>13, <2>14, <2>15, <2>16 DEF TruthInv
<1>3. CASE Orphan(p)
  <2>1. proc' = [proc EXCEPT ![p] = Running(Stray)] /\ UNCHANGED truth /\ Stray \in {Stray} \cup Children
    BY <1>3 DEF Orphan
  <2>2. /\ \A q \in Pids \ {p} : proc'[q] = proc[q]
        /\ proc'[p].state = "running" /\ proc'[p].child = 0
    BY <2>1, ForkKeeps DEF Stray
  <2>3. Numbered' /\ Decided' /\ VerdictsAreTrue' /\ NoRunLeavesItsChild'
    BY <1>1, <2>1, <2>2 DEF Numbered, Decided, VerdictsAreTrue, NoRunLeavesItsChild, Stray
  <2>4. Single' /\ Witnessed'
    BY <1>1, <2>1, <2>2 DEF Single, Witnessed, Lives, Alive, IsZombie, Stray
  <2> QED BY <2>3, <2>4 DEF TruthInv
<1> QED BY <1>2, <1>3

LEMMA TruthStep == TruthInv /\ [Next]_vars => TruthInv'
<1> SUFFICES ASSUME TruthInv, [Next]_vars PROVE TruthInv'
  OBVIOUS
<1>1. LockInv'
  BY LockStep DEF TruthInv
<1>2. CASE UNCHANGED vars
  BY <1>1, <1>2 DEF vars, TruthInv, Numbered, Single, Witnessed, Decided, Lives, Alive, IsZombie,
                    VerdictsAreTrue, NoRunLeavesItsChild
<1> QED BY <1>1, <1>2, TruthSpawn, TruthRun, TruthReaper, TruthKernel DEF Next

LEMMA TruthCorrect == Spec => []TruthInv
<1> QED BY TruthInit, TruthStep, PTL DEF Spec

(* No status reaches another child's waiter, however pids are recycled     *)
(* between the reap and the delivery, and no run succeeds by mistake.      *)
THEOREM VerdictsStayTrue == Spec => []VerdictsAreTrue
<1>1. TruthInv => VerdictsAreTrue
  BY DEF TruthInv
<1> QED BY <1>1, TruthCorrect, PTL

(* Whatever ends a run, its child has exited or been killed.               *)
THEOREM RunsCleanUp == Spec => []NoRunLeavesItsChild
<1>1. TruthInv => NoRunLeavesItsChild
  BY DEF TruthInv
<1> QED BY <1>1, TruthCorrect, PTL
=============================================================================
