------------------------ MODULE CollectorSupervisor ------------------------
(***************************************************************************)
(* Who may run a discovery cycle.  The web process owns a scheduler        *)
(* (application/collector_scheduler.py) that starts one collector process  *)
(* per interval, ends it at a timeout and is itself ended by stop(); the   *)
(* PowerShell runner (research/run_continuous_discovery.ps1) starts the    *)
(* same script on the same volume.  The processes agree only through the   *)
(* file collector.lock (research/continuous_discovery_runtime.py), which   *)
(* holds nothing: its existence is the lock and its age says whether the   *)
(* holder is taken for dead.                                               *)
(*                                                                         *)
(* A collector is a process whose program counter stands between two of    *)
(* its operations on the file; the cycle itself is the step "work".        *)
(* SIGTERM reaches it between two steps and raises SystemExit there;       *)
(* SIGKILL and the loss of the container end it where it stands.           *)
(* Time is relative, so that a behaviour may go on for ever: ages stop     *)
(* counting once no guard tells them apart.                                *)
(***************************************************************************)
EXTENDS Naturals, FiniteSets

CONSTANTS
  Owned,      \* the collector process the scheduler starts
  Runners,    \* the collectors other programs may start
  None,       \* no lock file
  Timeout,    \* DEXSATO_COLLECTOR_TIMEOUT_SECONDS, in ticks
  Interval,   \* DEXSATO_COLLECTOR_INTERVAL_SECONDS
  StaleAge,   \* the thirty minutes of acquire_lock
  MaxFaults   \* how many crashes, hangs and delays a behaviour has

Collectors == {Owned} \cup Runners

ASSUME CollectorAssumption ==
  /\ Owned \notin Runners /\ None \notin Collectors
  /\ Timeout \in Nat \ {0} /\ Interval \in Nat /\ StaleAge \in Nat
  /\ MaxFaults \in Nat
  /\ Timeout < Interval     \* refused at start-up otherwise
  /\ Timeout < StaleAge     \* 600 s and 30 min, unless configured apart

VARIABLES
  sched,     \* where _run_loop stands
  elapsed,   \* time since this turn of the loop began
  stopping,  \* _stop_event
  stopper,   \* where stop() stands
  pc,        \* where each collector process stands
  term,      \* SIGTERM sent and not yet handled
  lock,      \* collector.lock: who created it, None if there is none, and its age
  faults,    \* crashes, hangs and delays so far
  ran,       \* runners started since the clock last moved
  raced      \* two processes found one lock stale, or a live holder's was

vars == <<sched, elapsed, stopping, stopper, pc, term, lock, faults, ran, raced>>

-----------------------------------------------------------------------------
SchedSteps == {"off", "spawn", "spawned", "wait", "term", "sleep", "done"}
StopSteps  == {"none", "term", "join", "done"}
LockSteps  == {"create", "stat", "unlink", "recreate"}
Holding    == {"taken", "work", "hung", "close", "remove"}
ProcSteps  == {"none"} \cup LockSteps \cup Holding

\* The file says nothing about its owner: the field is a history of it.
LockFile == [owner : Collectors \cup {None}, age : 0..(StaleAge + 1)]
NoLock      == [owner |-> None, age |-> 0]
NewLock(c)  == [owner |-> c, age |-> 0]
LockExists  == lock.owner # None

TypeOK ==
  /\ sched \in SchedSteps /\ elapsed \in 0..Interval
  /\ stopping \in BOOLEAN /\ stopper \in StopSteps
  /\ pc \in [Collectors -> ProcSteps] /\ term \in [Collectors -> BOOLEAN]
  /\ lock \in LockFile
  /\ faults \in 0..MaxFaults /\ ran \subseteq Runners /\ raced \in BOOLEAN

Init ==
  /\ sched = "off" /\ elapsed = 0
  /\ stopping = FALSE /\ stopper = "none"
  /\ pc = [c \in Collectors |-> "none"]
  /\ term = [c \in Collectors |-> FALSE]
  /\ lock = NoLock
  /\ faults = 0 /\ ran = {} /\ raced = FALSE

Alive(c)    == pc[c] # "none"
Holds(c)    == pc[c] \in Holding
Goto(c, s)  == pc' = [pc EXCEPT ![c] = s]
Exit(c)     == Goto(c, "none") /\ term' = [term EXCEPT ![c] = FALSE]
Fault       == faults < MaxFaults /\ faults' = faults + 1
SendTerm(c) == term' = [term EXCEPT ![c] = Alive(c)]

schedVars == <<sched, elapsed, stopping, stopper>>
Elsewhere == UNCHANGED <<schedVars, faults, ran>>

-----------------------------------------------------------------------------
(* acquire_lock, the cycle and its finally block.                          *)

\* os.open with O_EXCL: one process creates the file.
CreateLock(c) ==
  /\ pc[c] = "create"
  /\ \/ /\ ~ LockExists
        /\ lock' = NewLock(c)
        /\ Goto(c, "taken")
     \/ LockExists /\ Goto(c, "stat") /\ UNCHANGED lock
  /\ Elsewhere /\ UNCHANGED <<term, raced>>

\* Mutant: the age of the file is not looked at.
StaleNever(age) == FALSE
Stale(age) == age > StaleAge

\* The file is gone, fresh (the invocation is skipped) or stale.
StatLock(c) ==
  /\ pc[c] = "stat"
  /\ \/ /\ ~ LockExists
        /\ Goto(c, "create") /\ UNCHANGED <<term, raced>>
     \/ /\ LockExists /\ ~ Stale(lock.age)
        /\ Exit(c) /\ UNCHANGED raced
     \/ /\ LockExists /\ Stale(lock.age)
        /\ Goto(c, "unlink") /\ UNCHANGED term
        /\ raced' = \/ raced
                    \/ \E d \in Collectors : pc[d] = "unlink"
                    \/ Holds(lock.owner) /\ lock.age > StaleAge
  /\ Elsewhere /\ UNCHANGED lock

\* path.unlink removes whatever file is there by now.
UnlinkStale(c) ==
  /\ pc[c] = "unlink"
  /\ Goto(c, IF ~ LockExists THEN "create" ELSE "recreate")
  /\ lock' = NoLock
  /\ Elsewhere /\ UNCHANGED <<term, raced>>

\* Mutant: the second open without O_EXCL.
RecreateOver(c) ==
  /\ pc[c] = "recreate"
  /\ lock' = NewLock(c)
  /\ Goto(c, "taken")
  /\ Elsewhere /\ UNCHANGED <<term, raced>>

\* The second os.open is inside no handler for a file that exists.
RecreateLock(c) ==
  /\ pc[c] = "recreate"
  /\ \/ /\ ~ LockExists
        /\ lock' = NewLock(c)
        /\ Goto(c, "taken") /\ UNCHANGED term
     \/ LockExists /\ Exit(c) /\ UNCHANGED lock
  /\ Elsewhere /\ UNCHANGED raced

\* From the lock to the try block, and the cycle to its end or exception.
EnterTry(c) ==
  /\ pc[c] = "taken" /\ Goto(c, "work")
  /\ Elsewhere /\ UNCHANGED <<term, lock, raced>>

EndCycle(c) ==
  /\ pc[c] = "work" /\ Goto(c, "close")
  /\ Elsewhere /\ UNCHANGED <<term, lock, raced>>

CloseLock(c) ==
  /\ pc[c] = "close" /\ Goto(c, "remove")
  /\ Elsewhere /\ UNCHANGED <<term, lock, raced>>

\* lock_path.unlink(missing_ok=True): whoever's file it is.
RemoveLock(c) ==
  /\ pc[c] = "remove"
  /\ lock' = NoLock
  /\ Exit(c)
  /\ Elsewhere /\ UNCHANGED raced

\* _graceful_termination: SystemExit.  Inside the try block it runs the
\* finally block; before it, or in the finally block itself, it ends all.
HandleTerm(c) ==
  /\ term[c] /\ pc[c] \notin {"none", "hung"}
  /\ IF pc[c] = "work"
       THEN Goto(c, "close") /\ term' = [term EXCEPT ![c] = FALSE]
       ELSE Exit(c)
  /\ Elsewhere /\ UNCHANGED <<lock, raced>>

CollectorStep(c) ==
  \/ CreateLock(c) \/ StatLock(c) \/ UnlinkStale(c) \/ RecreateLock(c)
  \/ EnterTry(c) \/ EndCycle(c) \/ CloseLock(c) \/ RemoveLock(c)
  \/ HandleTerm(c)

\* A provider, the disk or the process itself stops answering.
Hang(c) ==
  /\ pc[c] = "work"
  /\ Goto(c, "hung") /\ Fault
  /\ UNCHANGED <<schedVars, term, lock, ran, raced>>

\* Another program's schedule: at most once per tick.
RunnerStart(c) ==
  /\ c \in Runners \ ran /\ ~ Alive(c)
  /\ Goto(c, "create") /\ ran' = ran \cup {c}
  /\ UNCHANGED <<schedVars, faults, term, lock, raced>>

RunnerKilled(c) ==
  /\ c \in Runners /\ Alive(c)
  /\ Exit(c) /\ Fault
  /\ UNCHANGED <<schedVars, lock, ran, raced>>

-----------------------------------------------------------------------------
(* CollectorScheduler: start, _run_loop with run_cycle, and stop.          *)

World == UNCHANGED <<lock, faults, ran, raced>>

\* The application's lifespan begins.
Start ==
  /\ sched = "off"
  /\ sched' = "spawn" /\ elapsed' = 0
  /\ UNCHANGED <<stopping, stopper, pc, term>> /\ World

\* process_factory: the process exists before the awaiting loop knows it, or
\* starting it fails and the cycle is over.
SpawnCollector ==
  /\ sched = "spawn" /\ ~ stopping
  /\ \/ sched' = "spawned" /\ Goto(Owned, "create") /\ UNCHANGED faults
     \/ sched' = "sleep" /\ UNCHANGED pc /\ Fault
  /\ UNCHANGED <<elapsed, stopping, stopper, term, lock, ran, raced>>

\* _active_process is set, and the stop event seen if it came meanwhile.
SpawnReturns ==
  /\ sched = "spawned"
  /\ IF stopping THEN sched' = "term" /\ SendTerm(Owned)
                 ELSE sched' = "wait" /\ UNCHANGED term
  /\ UNCHANGED <<elapsed, stopping, stopper, pc>> /\ World

CycleExits ==
  /\ sched \in {"wait", "term"} /\ ~ Alive(Owned)
  /\ sched' = "sleep"
  /\ UNCHANGED <<elapsed, stopping, stopper, pc, term>> /\ World

\* Mutant: process.wait() without wait_for.
CycleUntimed == FALSE

\* Mutant: the process is left to itself at the timeout.
CycleAbandoned ==
  /\ sched = "wait" /\ Alive(Owned) /\ elapsed >= Timeout
  /\ sched' = "sleep"
  /\ UNCHANGED <<elapsed, stopping, stopper, pc, term>> /\ World

\* asyncio.wait_for gives up: _terminate, first SIGTERM.
CycleTimesOut ==
  /\ sched = "wait" /\ Alive(Owned) /\ elapsed >= Timeout
  /\ sched' = "term" /\ SendTerm(Owned)
  /\ UNCHANGED <<elapsed, stopping, stopper, pc>> /\ World

\* ... and SIGKILL when five seconds passed, far less than a tick.
CycleKilled ==
  /\ sched = "term" /\ Alive(Owned)
  /\ sched' = "sleep" /\ Exit(Owned)
  /\ UNCHANGED <<elapsed, stopping, stopper>> /\ World

\* How far this turn is into its interval; a turn that is overdue is due.
Later(e) == IF e < Interval THEN e + 1 ELSE e

NextTurn ==
  /\ sched = "sleep" /\ ~ stopping /\ elapsed >= Interval
  /\ sched' = "spawn" /\ elapsed' = 0
  /\ UNCHANGED <<stopping, stopper, pc, term>> /\ World

LoopEnds ==
  /\ sched \in {"sleep", "spawn"} /\ stopping
  /\ sched' = "done"
  /\ UNCHANGED <<elapsed, stopping, stopper, pc, term>> /\ World

\* Mutant: stop() ends the collector and not the loop.
StopOnlyProcess ==
  /\ sched # "off" /\ stopper = "none"
  /\ IF sched \in {"wait", "term"} /\ Alive(Owned)
       THEN stopper' = "term" /\ SendTerm(Owned)
       ELSE stopper' = "join" /\ UNCHANGED term
  /\ UNCHANGED <<sched, elapsed, stopping, pc>> /\ World

\* stop(): the lifespan ends while the loop stands anywhere.
Stop ==
  /\ sched # "off" /\ stopper = "none"
  /\ stopping' = TRUE
  /\ IF sched \in {"wait", "term"} /\ Alive(Owned)
       THEN stopper' = "term" /\ SendTerm(Owned)
       ELSE stopper' = "join" /\ UNCHANGED term
  /\ UNCHANGED <<sched, elapsed, pc>> /\ World

StopSeesExit ==
  /\ stopper = "term" /\ ~ Alive(Owned)
  /\ stopper' = "join"
  /\ UNCHANGED <<sched, elapsed, stopping, pc, term>> /\ World

StopKills ==
  /\ stopper = "term" /\ Alive(Owned)
  /\ stopper' = "join" /\ Exit(Owned)
  /\ UNCHANGED <<sched, elapsed, stopping>> /\ World

\* await task.
StopJoins ==
  /\ stopper = "join" /\ sched = "done"
  /\ stopper' = "done"
  /\ UNCHANGED <<sched, elapsed, stopping, pc, term>> /\ World

\* The container is lost with both processes in it, or, stop() having
\* returned, ends as it should; the platform starts another.
NewContainer ==
  /\ sched' = "off" /\ elapsed' = 0
  /\ stopping' = FALSE /\ stopper' = "none"
  /\ Exit(Owned)
  /\ UNCHANGED <<lock, ran, raced>>

ContainerLost == sched # "off" /\ Fault /\ NewContainer
Redeploy      == stopper = "done" /\ UNCHANGED faults /\ NewContainer

\* A tick is minutes: no timer of the web process is overdue by one, and the
\* file operations of a start outlast one only as a fault.
TimerDue ==
  \/ sched = "wait" /\ elapsed >= Timeout
  \/ sched = "sleep" /\ elapsed >= Interval
  \/ sched \in {"spawn", "spawned", "term"} \/ stopper = "term"

Tick ==
  /\ ~ TimerDue
  /\ IF pc[Owned] \in LockSteps \cup {"taken"} THEN Fault ELSE UNCHANGED faults
  /\ elapsed' = Later(elapsed)
  /\ lock' = IF LockExists /\ lock.age <= StaleAge
                THEN [lock EXCEPT !.age = @ + 1] ELSE lock
  /\ ran' = {}
  /\ UNCHANGED <<sched, stopping, stopper, pc, term, raced>>

SchedulerStep ==
  \/ Start \/ SpawnCollector \/ SpawnReturns \/ CycleExits \/ CycleTimesOut
  \/ CycleKilled \/ NextTurn \/ LoopEnds

StopStep == StopSeesExit \/ StopKills \/ StopJoins

Next ==
  \/ SchedulerStep \/ Stop \/ StopStep \/ ContainerLost \/ Redeploy \/ Tick
  \/ \E c \in Collectors : CollectorStep(c) \/ Hang(c) \/ RunnerStart(c)
                            \/ RunnerKilled(c)

Spec == Init /\ [][Next]_vars

\* The event loop and the operating system run what is runnable, and time
\* passes.  A hung process, a runner's start, stop() and a new deployment
\* are promised nothing.
Fairness ==
  /\ WF_vars(SchedulerStep) /\ WF_vars(StopStep) /\ WF_vars(Tick)
  /\ \A c \in Collectors : WF_vars(CollectorStep(c))

FairSpec == Spec /\ Fairness

-----------------------------------------------------------------------------
(* Properties.                                                             *)

\* Unless two processes met on one stale lock, or a holder outlived the
\* thirty minutes, one collector at a time runs a cycle: no kill, timeout,
\* stop, crash or late unlink of collector.lock lets a second one in.
OneCycleAtATime ==
  ~ raced => \A c, d \in Collectors : Holds(c) /\ Holds(d) => c = d

\* The supervised collector never makes its own lock look stale: the timeout
\* and the SIGKILL end it before any other process may take the lock over.
SupervisedLockFresh ==
  lock.owner = Owned /\ Holds(Owned) => lock.age <= Timeout

\* Without another program's collector nothing ever races for the lock.
SupervisorAloneIsSafe == Runners = {} => ~ raced

\* A cycle that hangs, or is slow to die, does not hold up the loop: the
\* supervisor always gets back to its sleep or its end.
LoopNeverStuck == sched \in {"spawn", "wait", "term"} ~> sched \in {"sleep", "done", "off"}

\* stop() returns, wherever the loop stood and whatever the collector does.
StopReturns == stopper # "none" ~> stopper = "done" \/ sched = "off"

\* A lock left by a dead process delays the next cycle and never prevents
\* it: cycles go on for ever unless the application is stopped, for good or
\* again and again.
CyclesGoOn == <>[](~ stopping) => []<>(\E c \in Collectors : pc[c] = "work")
=============================================================================
