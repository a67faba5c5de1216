---------------------- MODULE CollectorSupervisorProofs ---------------------
(***************************************************************************)
(* Who may hold collector.lock, for any number of runners and faults, and  *)
(* any times with Timeout < Interval and Timeout < StaleAge.               *)
(***************************************************************************)
EXTENDS CollectorSupervisor, TLAPS

LEMMA OwnedIsCollector == Owned \in Collectors
  BY DEF Collectors

LEMMA LockTypes ==
  NoLock \in LockFile /\ \A c \in Collectors : NewLock(c) \in LockFile
  BY CollectorAssumption DEF LockFile, NoLock, NewLock

\* Init establishes the type invariant.
LEMMA TypeInit == Init => TypeOK
<1> SUFFICES ASSUME Init PROVE TypeOK OBVIOUS
<1>1. sched \in SchedSteps /\ stopper \in StopSteps /\ stopping \in BOOLEAN
  BY DEF Init, SchedSteps, StopSteps
<1>2. elapsed \in 0..Interval /\ faults \in 0..MaxFaults
  BY CollectorAssumption DEF Init
<1>3. pc \in [Collectors -> ProcSteps] /\ term \in [Collectors -> BOOLEAN]
  BY DEF Init, ProcSteps
<1>4. lock \in LockFile /\ ran \subseteq Runners /\ raced \in BOOLEAN
  BY LockTypes DEF Init
<1>5. QED BY <1>1, <1>2, <1>3, <1>4 DEF TypeOK

\* The steps of one collector process keep the types.
LEMMA TypeCollector ==
  ASSUME TypeOK, NEW c \in Collectors,
         CollectorStep(c) \/ Hang(c) \/ RunnerStart(c) \/ RunnerKilled(c)
  PROVE  TypeOK'
<1> USE CollectorAssumption, LockTypes
    DEF TypeOK, ProcSteps, LockSteps, Holding, Goto, Exit, Elsewhere,
        schedVars, Fault
<1>1. CASE CreateLock(c) BY <1>1 DEF CreateLock
<1>2. CASE StatLock(c) BY <1>2 DEF StatLock, Holds, Stale
<1>3. CASE UnlinkStale(c) BY <1>3 DEF UnlinkStale
<1>4. CASE RecreateLock(c) BY <1>4 DEF RecreateLock
<1>5. CASE EnterTry(c) \/ EndCycle(c) \/ CloseLock(c)
  BY <1>5 DEF EnterTry, EndCycle, CloseLock
<1>6. CASE RemoveLock(c) BY <1>6 DEF RemoveLock
<1>7. CASE HandleTerm(c) BY <1>7 DEF HandleTerm
<1>8. CASE Hang(c) BY <1>8 DEF Hang
<1>9. CASE RunnerStart(c) BY <1>9 DEF RunnerStart
<1>10. CASE RunnerKilled(c) BY <1>10 DEF RunnerKilled
<1>11. QED BY <1>1, <1>2, <1>3, <1>4, <1>5, <1>6, <1>7, <1>8, <1>9, <1>10
       DEF CollectorStep

\* The steps of the web process keep the types.
LEMMA TypeScheduler ==
  ASSUME TypeOK,
         SchedulerStep \/ Stop \/ StopStep \/ ContainerLost \/ Redeploy
  PROVE  TypeOK'
<1> USE CollectorAssumption, OwnedIsCollector
    DEF TypeOK, SchedSteps, StopSteps, ProcSteps, LockSteps, Goto, Exit, World,
        SendTerm, Alive, Fault
<1>1. CASE Start BY <1>1 DEF Start
<1>2. CASE SpawnCollector BY <1>2 DEF SpawnCollector
<1>3. CASE SpawnReturns BY <1>3 DEF SpawnReturns
<1>4. CASE CycleExits BY <1>4 DEF CycleExits
<1>5. CASE CycleTimesOut BY <1>5 DEF CycleTimesOut
<1>6. CASE CycleKilled BY <1>6 DEF CycleKilled
<1>7. CASE NextTurn \/ LoopEnds BY <1>7 DEF NextTurn, LoopEnds
<1>8. CASE Stop BY <1>8 DEF Stop
<1>9. CASE StopStep BY <1>9 DEF StopStep, StopSeesExit, StopKills, StopJoins
<1>10. CASE ContainerLost \/ Redeploy
  <2>1. stopping' \in BOOLEAN /\ UNCHANGED <<lock, ran, raced>>
    BY <1>10 DEF ContainerLost, Redeploy, NewContainer
  <2>2. sched' \in SchedSteps /\ stopper' \in StopSteps /\ elapsed' \in 0..Interval
    BY <1>10 DEF ContainerLost, Redeploy, NewContainer
  <2>3. pc' \in [Collectors -> ProcSteps] /\ term' \in [Collectors -> BOOLEAN]
    BY <1>10 DEF ContainerLost, Redeploy, NewContainer
  <2>4. faults' \in 0..MaxFaults
    BY <1>10 DEF ContainerLost, Redeploy
  <2>5. QED BY <2>1, <2>2, <2>3, <2>4
<1>11. QED BY <1>1, <1>2, <1>3, <1>4, <1>5, <1>6, <1>7, <1>8, <1>9, <1>10
       DEF SchedulerStep

\* What a tick does to the two clocks that are kept.
LEMMA TickClocks ==
  ASSUME TypeOK, Tick
  PROVE  /\ elapsed' \in 0..Interval
         /\ elapsed < Interval => elapsed' = elapsed + 1
         /\ lock' \in LockFile /\ lock'.owner = lock.owner
         /\ lock'.age <= lock.age + 1
<1>1. /\ elapsed' \in 0..Interval
      /\ elapsed < Interval => elapsed' = elapsed + 1
  BY CollectorAssumption DEF TypeOK, Tick, Later
<1>2. lock \in LockFile /\ lock.age \in 0..(StaleAge + 1)
      /\ lock.owner \in Collectors \cup {None}
  BY DEF TypeOK, LockFile
<1>3. CASE LockExists /\ lock.age <= StaleAge
  <2>1. lock' = [lock EXCEPT !.age = lock.age + 1] BY <1>3 DEF Tick
  <2>2. lock' = [owner |-> lock.owner, age |-> lock.age + 1]
    BY <1>2, <2>1 DEF LockFile
  <2>3. lock.age + 1 \in 0..(StaleAge + 1) BY <1>2, <1>3, CollectorAssumption
  <2>4. QED BY <1>1, <1>2, <2>2, <2>3 DEF LockFile
<1>4. CASE ~ (LockExists /\ lock.age <= StaleAge)
  <2>1. lock' = lock BY <1>4 DEF Tick
  <2>2. lock.age <= lock.age + 1 BY <1>2, CollectorAssumption
  <2>3. QED BY <1>1, <1>2, <2>1, <2>2
<1>5. QED BY <1>3, <1>4

LEMMA TypeTick == TypeOK /\ Tick => TypeOK'
  BY TickClocks, CollectorAssumption DEF TypeOK, Tick, Fault

\* Types are kept by every step.
LEMMA TypeStep == TypeOK /\ [Next]_vars => TypeOK'
<1> SUFFICES ASSUME TypeOK, [Next]_vars PROVE TypeOK' OBVIOUS
<1>1. CASE UNCHANGED vars BY <1>1 DEF TypeOK, vars
<1>2. CASE Next BY <1>2, TypeCollector, TypeScheduler, TypeTick DEF Next
<1>3. QED BY <1>1, <1>2

\* Every reachable state has the types declared for it.
THEOREM TypeCorrect == Spec => []TypeOK
<1>1. QED BY TypeInit, TypeStep, PTL DEF Spec

-----------------------------------------------------------------------------
(* One cycle at a time.  A holder that was never raced still has its file, *)
(* and whoever is about to unlink a stale file is alone in that and sees   *)
(* the file of a process that no longer holds it.                          *)

HolderHasFile == \A c \in Collectors : Holds(c) => lock.owner = c

TakerIsAlone ==
  \A c \in Collectors :
    pc[c] = "unlink" => /\ LockExists
                        /\ ~ Holds(lock.owner)
                        /\ \A d \in Collectors : pc[d] = "unlink" => d = c

LockInv == ~ raced => HolderHasFile /\ TakerIsAlone

LEMMA LockInit == Init => LockInv
  BY DEF Init, LockInv, HolderHasFile, TakerIsAlone, Holds, Holding

\* A step that leaves the file alone and in which a process at most gives up
\* holding or unlinking disturbs nothing.
LEMMA LockKept ==
  ASSUME TypeOK, LockInv, UNCHANGED lock, raced' = raced,
         \A d \in Collectors : /\ Holds(d)' => Holds(d)
                               /\ pc'[d] = "unlink" => pc[d] = "unlink"
  PROVE  LockInv'
<1> SUFFICES ASSUME ~ raced PROVE HolderHasFile' /\ TakerIsAlone'
  BY DEF LockInv
<1>1. HolderHasFile /\ TakerIsAlone BY DEF LockInv
<1>2. HolderHasFile' BY <1>1 DEF HolderHasFile
<1>3. LockExists => lock.owner \in Collectors
  BY DEF TypeOK, LockFile, LockExists
<1>4. TakerIsAlone' BY <1>1, <1>3 DEF TakerIsAlone, LockExists, Holds
<1>5. QED BY <1>2, <1>4

\* Nobody holds or unlinks while there is no file; so one may be created.
LEMMA LockCreated ==
  ASSUME TypeOK, LockInv, NEW c \in Collectors, ~ LockExists,
         lock' = NewLock(c), pc' = [pc EXCEPT ![c] = "taken"], raced' = raced
  PROVE  LockInv'
<1> SUFFICES ASSUME ~ raced PROVE HolderHasFile' /\ TakerIsAlone'
  BY DEF LockInv
<1>1. \A d \in Collectors : ~ Holds(d) /\ pc[d] # "unlink"
  BY CollectorAssumption DEF LockInv, HolderHasFile, TakerIsAlone, LockExists
<1>2. lock'.owner = c BY DEF NewLock
<1>3. pc'[c] = "taken" /\ \A d \in Collectors : d # c => pc'[d] = pc[d]
  BY DEF TypeOK
<1>4. QED BY <1>1, <1>2, <1>3 DEF HolderHasFile, TakerIsAlone, Holds

LEMMA LockCollector ==
  ASSUME TypeOK, LockInv, NEW c \in Collectors, CollectorStep(c)
  PROVE  LockInv'
<1> USE DEF TypeOK, Goto, Exit
<1>1. CASE CreateLock(c)
  <2>1. CASE ~ LockExists BY <1>1, <2>1, LockCreated DEF CreateLock
  <2>2. CASE LockExists BY <1>1, <2>2, LockKept DEF CreateLock, Holds, Holding
  <2>3. QED BY <2>1, <2>2
<1>2. CASE StatLock(c)
  <2>1. CASE (Goto(c, "create") \/ Exit(c)) /\ UNCHANGED raced
    BY <1>2, <2>1, LockKept DEF StatLock, Holds, Holding
  <2>2. CASE LockExists /\ Stale(lock.age) /\ Goto(c, "unlink")
             /\ raced' = \/ raced
                         \/ \E d \in Collectors : pc[d] = "unlink"
                         \/ Holds(lock.owner) /\ lock.age > StaleAge
    <3>1. ASSUME ~ raced' PROVE HolderHasFile' /\ TakerIsAlone'
      <4>1. /\ ~ raced /\ \A d \in Collectors : pc[d] # "unlink"
            /\ ~ Holds(lock.owner)
        BY <2>2, <3>1 DEF Stale
      <4>2. UNCHANGED lock /\ pc[c] = "stat" BY <1>2 DEF StatLock
      <4>3. pc'[c] = "unlink" /\ \A d \in Collectors : d # c => pc'[d] = pc[d]
        BY <2>2
      <4>4. HolderHasFile /\ TakerIsAlone BY <4>1 DEF LockInv
      <4>5. lock.owner \in Collectors BY <2>2 DEF LockFile, LockExists
      <4>6. QED BY <2>2, <4>1, <4>2, <4>3, <4>4, <4>5
            DEF HolderHasFile, TakerIsAlone, Holds, Holding, LockExists
    <3>2. QED BY <3>1 DEF LockInv
  <2>3. QED BY <1>2, <2>1, <2>2 DEF StatLock
<1>3. CASE UnlinkStale(c)
  <2>1. ASSUME ~ raced PROVE HolderHasFile' /\ TakerIsAlone'
    <3>1. \A d \in Collectors : ~ Holds(d)
      BY <1>3, <2>1 DEF LockInv, HolderHasFile, TakerIsAlone, UnlinkStale
    <3>2. \A d \in Collectors : pc[d] = "unlink" => d = c
      BY <1>3, <2>1 DEF LockInv, TakerIsAlone, UnlinkStale
    <3>3. /\ pc'[c] \in {"create", "recreate"}
          /\ \A d \in Collectors : d # c => pc'[d] = pc[d]
      BY <1>3 DEF UnlinkStale
    <3>4. QED BY <3>1, <3>2, <3>3
          DEF HolderHasFile, TakerIsAlone, Holds, Holding
  <2>2. raced' = raced BY <1>3 DEF UnlinkStale
  <2>3. QED BY <2>1, <2>2 DEF LockInv
<1>4. CASE RecreateLock(c)
  <2>1. CASE ~ LockExists BY <1>4, <2>1, LockCreated DEF RecreateLock
  <2>2. CASE LockExists BY <1>4, <2>2, LockKept DEF RecreateLock, Holds, Holding
  <2>3. QED BY <2>1, <2>2
<1>5. CASE EnterTry(c) \/ EndCycle(c) \/ CloseLock(c)
  BY <1>5, LockKept DEF EnterTry, EndCycle, CloseLock, Holds, Holding
<1>6. CASE RemoveLock(c)
  <2>1. ASSUME ~ raced PROVE HolderHasFile' /\ TakerIsAlone'
    <3>1. Holds(c) BY <1>6 DEF RemoveLock, Holds, Holding
    <3>2. HolderHasFile /\ TakerIsAlone BY <2>1 DEF LockInv
    <3>3. \A d \in Collectors : Holds(d) => d = c
      BY <3>1, <3>2 DEF HolderHasFile
    <3>4. \A d \in Collectors : pc[d] # "unlink"
      BY <3>1, <3>2 DEF HolderHasFile, TakerIsAlone
    <3>5. pc'[c] = "none" /\ \A d \in Collectors : d # c => pc'[d] = pc[d]
      BY <1>6 DEF RemoveLock
    <3>6. QED BY <3>3, <3>4, <3>5 DEF HolderHasFile, TakerIsAlone, Holds, Holding
  <2>2. raced' = raced BY <1>6 DEF RemoveLock
  <2>3. QED BY <2>1, <2>2 DEF LockInv
<1>7. CASE HandleTerm(c)
  BY <1>7, LockKept DEF HandleTerm, Holds, Holding
<1>8. QED BY <1>1, <1>2, <1>3, <1>4, <1>5, <1>6, <1>7 DEF CollectorStep

LEMMA LockElsewhere ==
  ASSUME TypeOK, LockInv,
         \/ \E c \in Collectors : Hang(c) \/ RunnerStart(c) \/ RunnerKilled(c)
         \/ SchedulerStep \/ Stop \/ StopStep \/ ContainerLost \/ Redeploy
  PROVE  LockInv'
<1> USE OwnedIsCollector DEF TypeOK, Goto, Exit
<1>1. CASE \E c \in Collectors : Hang(c) \/ RunnerStart(c) \/ RunnerKilled(c)
  BY <1>1, LockKept DEF Hang, RunnerStart, RunnerKilled, Holds, Holding
<1>2. CASE SchedulerStep
  BY <1>2, LockKept DEF SchedulerStep, Start, SpawnCollector, SpawnReturns,
     CycleExits, CycleTimesOut, CycleKilled, NextTurn, LoopEnds, World, Holds,
     Holding
<1>3. CASE Stop \/ StopStep
  BY <1>3, LockKept DEF Stop, StopStep, StopSeesExit, StopKills, StopJoins,
     World, Holds, Holding
<1>4. CASE ContainerLost \/ Redeploy
  BY <1>4, LockKept DEF ContainerLost, Redeploy, NewContainer, Holds, Holding
<1>5. QED BY <1>1, <1>2, <1>3, <1>4

LEMMA LockTick == TypeOK /\ LockInv /\ Tick => LockInv'
<1> SUFFICES ASSUME TypeOK, LockInv, Tick, ~ raced
             PROVE  HolderHasFile' /\ TakerIsAlone'
  BY DEF LockInv, Tick
<1>1. HolderHasFile /\ TakerIsAlone BY DEF LockInv
<1>2. lock'.owner = lock.owner BY TickClocks
<1>3. UNCHANGED pc BY DEF Tick
<1>4. QED BY <1>1, <1>2, <1>3 DEF HolderHasFile, TakerIsAlone, LockExists, Holds

LEMMA LockStep == TypeOK /\ LockInv /\ [Next]_vars => LockInv'
<1> SUFFICES ASSUME TypeOK, LockInv, [Next]_vars PROVE LockInv' OBVIOUS
<1>1. CASE UNCHANGED vars
  BY <1>1, LockKept DEF vars, Holds
<1>2. CASE Next
  BY <1>2, LockCollector, LockElsewhere, LockTick DEF Next
<1>3. QED BY <1>1, <1>2

\* Unless two processes met on one stale lock, or a holder outlived the
\* thirty minutes, at most one collector runs a cycle.
THEOREM OneCycle == Spec => []OneCycleAtATime
<1>1. LockInv => OneCycleAtATime
  BY DEF LockInv, HolderHasFile, OneCycleAtATime
<1>2. QED BY <1>1, TypeInit, TypeStep, LockInit, LockStep, PTL DEF Spec

-----------------------------------------------------------------------------
(* The supervised collector lives only while the loop waits for it, and    *)
(* its lock is no older than the turn of the loop.                         *)

Supervised ==
  /\ Alive(Owned) => sched \in {"spawned", "wait", "term"}
  /\ sched \in {"spawn", "spawned"} => elapsed = 0
  /\ sched \in {"wait", "term"} => elapsed <= Timeout
  /\ lock.owner = Owned /\ Holds(Owned) => lock.age <= elapsed

LEMMA HoldersLive == \A c \in Collectors : Holds(c) => Alive(c)
  BY DEF Holds, Holding, Alive

LEMMA SupervisedInit == Init => Supervised
<1> SUFFICES ASSUME Init PROVE Supervised OBVIOUS
<1>1. sched = "off" /\ pc[Owned] = "none" BY OwnedIsCollector DEF Init
<1>2. ~ Alive(Owned) /\ ~ Holds(Owned) BY <1>1 DEF Alive, Holds, Holding
<1>3. /\ sched \in {"spawn", "spawned"} => elapsed = 0
      /\ sched \in {"wait", "term"} => elapsed <= Timeout
  BY <1>1
<1>4. QED BY <1>2, <1>3 DEF Supervised

\* A collector's step moves none of the loop's variables, brings no process
\* to life but a runner, and dates a lock only with its creation.
LEMMA SupervisedCollector ==
  ASSUME TypeOK, Supervised, NEW c \in Collectors,
         CollectorStep(c) \/ Hang(c) \/ RunnerStart(c) \/ RunnerKilled(c)
  PROVE  Supervised'
<1>1. UNCHANGED <<sched, elapsed>>
  BY DEF CollectorStep, CreateLock, StatLock, UnlinkStale, RecreateLock,
         EnterTry, EndCycle, CloseLock, RemoveLock, HandleTerm, Hang,
         RunnerStart, RunnerKilled, Elsewhere, schedVars
<1>2. Alive(Owned)' => Alive(Owned)
  BY OwnedIsCollector, CollectorAssumption
  DEF TypeOK, CollectorStep, CreateLock, StatLock, UnlinkStale, RecreateLock,
      EnterTry, EndCycle, CloseLock, RemoveLock, HandleTerm, Hang, RunnerStart,
      RunnerKilled, Goto, Exit, Alive
<1>3. \/ lock'.age = 0
      \/ UNCHANGED lock /\ (Holds(Owned)' => Holds(Owned))
  <2> USE OwnedIsCollector DEF TypeOK, Goto, Exit, Holds, Holding
  <2>1. CASE CreateLock(c) BY <2>1 DEF CreateLock, NewLock
  <2>2. CASE StatLock(c) BY <2>2 DEF StatLock
  <2>3. CASE UnlinkStale(c) BY <2>3 DEF UnlinkStale, NoLock
  <2>4. CASE RecreateLock(c) BY <2>4 DEF RecreateLock, NewLock
  <2>5. CASE EnterTry(c) BY <2>5 DEF EnterTry
  <2>6. CASE EndCycle(c) BY <2>6 DEF EndCycle
  <2>7. CASE CloseLock(c) BY <2>7 DEF CloseLock
  <2>8. CASE RemoveLock(c) BY <2>8 DEF RemoveLock, NoLock
  <2>9. CASE HandleTerm(c) BY <2>9 DEF HandleTerm
  <2>10. CASE Hang(c) BY <2>10 DEF Hang
  <2>11. CASE RunnerStart(c) BY <2>11 DEF RunnerStart
  <2>12. CASE RunnerKilled(c) BY <2>12 DEF RunnerKilled
  <2>13. QED BY <2>1, <2>2, <2>3, <2>4, <2>5, <2>6, <2>7, <2>8, <2>9, <2>10,
                <2>11, <2>12 DEF CollectorStep
<1>4. elapsed \in Nat BY CollectorAssumption DEF TypeOK
<1>5. QED BY <1>1, <1>2, <1>3, <1>4 DEF Supervised

\* The steps of the web process leave the file alone and the collector, which
\* a new process replaces only when the old one is gone, no nearer to it.
LEMMA SupervisedScheduler ==
  ASSUME TypeOK, Supervised,
         SchedulerStep \/ Stop \/ StopStep \/ ContainerLost \/ Redeploy
  PROVE  Supervised'
<1> USE OwnedIsCollector, CollectorAssumption, HoldersLive
    DEF TypeOK, Supervised, World, Goto, Exit, Alive, Holds, Holding
<1>1. CASE Start BY <1>1 DEF Start
<1>2. CASE SpawnCollector BY <1>2 DEF SpawnCollector
<1>3. CASE SpawnReturns BY <1>3 DEF SpawnReturns
<1>4. CASE CycleExits BY <1>4 DEF CycleExits
<1>5. CASE CycleTimesOut BY <1>5 DEF CycleTimesOut
<1>6. CASE CycleKilled BY <1>6 DEF CycleKilled
<1>7. CASE NextTurn BY <1>7 DEF NextTurn
<1>8. CASE LoopEnds BY <1>8 DEF LoopEnds
<1>9. CASE Stop BY <1>9 DEF Stop
<1>10. CASE StopStep BY <1>10 DEF StopStep, StopSeesExit, StopKills, StopJoins
<1>11. CASE ContainerLost \/ Redeploy
  BY <1>11 DEF ContainerLost, Redeploy, NewContainer
<1>12. QED BY <1>1, <1>2, <1>3, <1>4, <1>5, <1>6, <1>7, <1>8, <1>9, <1>10, <1>11
       DEF SchedulerStep

LEMMA SupervisedTick == TypeOK /\ Supervised /\ Tick => Supervised'
<1> SUFFICES ASSUME TypeOK, Supervised, Tick PROVE Supervised' OBVIOUS
<1>1. UNCHANGED <<sched, pc>> /\ ~ TimerDue BY DEF Tick
<1>2. Alive(Owned) => sched = "wait" BY <1>1 DEF Supervised, TimerDue
<1>3. sched = "wait" /\ Alive(Owned) => elapsed < Timeout
  BY <1>1, CollectorAssumption DEF TimerDue, TypeOK
<1>4. elapsed \in Nat /\ elapsed' \in Nat /\ lock.age \in Nat /\ lock'.age \in Nat
  BY TickClocks, CollectorAssumption DEF TypeOK, LockFile
<1>5. sched = "wait" => elapsed' = elapsed + 1 /\ elapsed' <= Timeout
  BY <1>1, <1>4, TickClocks, CollectorAssumption DEF TimerDue
<1>6. lock'.owner = Owned /\ Holds(Owned)' => lock'.age <= elapsed'
  BY <1>1, <1>2, <1>4, <1>5, TickClocks, HoldersLive, OwnedIsCollector
  DEF Supervised, Holds
<1>7. sched' \notin {"spawn", "spawned", "term"} BY <1>1 DEF TimerDue
<1>8. QED BY <1>1, <1>2, <1>5, <1>6, <1>7 DEF Supervised, Alive

LEMMA SupervisedStep == TypeOK /\ Supervised /\ [Next]_vars => Supervised'
<1> SUFFICES ASSUME TypeOK, Supervised, [Next]_vars PROVE Supervised' OBVIOUS
<1>1. CASE UNCHANGED vars BY <1>1 DEF vars, Supervised, Alive, Holds
<1>2. CASE Next
  BY <1>2, SupervisedCollector, SupervisedScheduler, SupervisedTick DEF Next
<1>3. QED BY <1>1, <1>2

\* The supervised collector never makes its own lock look stale.
THEOREM SupervisedFresh == Spec => []SupervisedLockFresh
<1>1. TypeOK /\ Supervised => SupervisedLockFresh
  <2> SUFFICES ASSUME TypeOK, Supervised, lock.owner = Owned, Holds(Owned)
               PROVE  lock.age <= Timeout
    BY DEF SupervisedLockFresh
  <2>1. sched \in {"spawned", "wait", "term"}
    BY HoldersLive, OwnedIsCollector DEF Supervised
  <2>2. elapsed <= Timeout /\ elapsed \in Nat
    BY <2>1, CollectorAssumption DEF Supervised, TypeOK
  <2>3. lock.age <= elapsed /\ lock.age \in Nat
    BY CollectorAssumption DEF Supervised, TypeOK, LockFile
  <2>4. QED BY <2>2, <2>3, CollectorAssumption
<1>2. QED BY <1>1, TypeInit, TypeStep, SupervisedInit, SupervisedStep, PTL
      DEF Spec

\* Without another program's collector nothing ever races for the lock.
THEOREM AloneIsSafe == Spec => []SupervisorAloneIsSafe
<1> DEFINE Alone == Runners = {} => ~ raced
<1>1. Init => Alone BY DEF Init
<1>2. TypeOK /\ Alone /\ [Next]_vars => Alone'
  <2> SUFFICES ASSUME TypeOK, [Next]_vars, Runners = {}, ~ raced PROVE ~ raced'
    OBVIOUS
  <2>1. Collectors = {Owned} BY DEF Collectors
  <2>2. ASSUME NEW c \in Collectors, StatLock(c) PROVE ~ raced'
    <3>1. c = Owned /\ pc[Owned] = "stat" BY <2>1, <2>2 DEF StatLock
    <3>2. LockExists => lock.owner = Owned
      BY <2>1 DEF TypeOK, LockFile, LockExists
    <3>3. QED BY <2>1, <2>2, <3>1, <3>2 DEF StatLock, Holds, Holding
  <2>3. ASSUME NEW c \in Collectors, CollectorStep(c), ~ StatLock(c)
        PROVE  raced' = raced
    BY <2>3 DEF CollectorStep, CreateLock, UnlinkStale, RecreateLock, EnterTry,
       EndCycle, CloseLock, RemoveLock, HandleTerm
  <2>4. ASSUME NEW c \in Collectors,
               Hang(c) \/ RunnerStart(c) \/ RunnerKilled(c)
        PROVE  raced' = raced
    BY <2>4 DEF Hang, RunnerStart, RunnerKilled
  <2>5. CASE SchedulerStep \/ Stop \/ StopStep \/ ContainerLost \/ Redeploy \/ Tick
    BY <2>5 DEF SchedulerStep, Start, SpawnCollector, SpawnReturns, CycleExits,
       CycleTimesOut, CycleKilled, NextTurn, LoopEnds, Stop, StopStep,
       StopSeesExit, StopKills, StopJoins, ContainerLost, Redeploy,
       NewContainer, Tick, World
  <2>6. CASE UNCHANGED vars BY <2>6 DEF vars
  <2>7. QED BY <2>2, <2>3, <2>4, <2>5, <2>6 DEF Next
<1>3. Alone <=> SupervisorAloneIsSafe BY DEF SupervisorAloneIsSafe
<1>4. QED BY <1>1, <1>2, <1>3, TypeInit, TypeStep, PTL DEF Spec
=============================================================================
