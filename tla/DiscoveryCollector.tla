------------------------- MODULE DiscoveryCollector -------------------------
(***************************************************************************)
(* What a discovery cycle leaves behind.  One collector process            *)
(* (research/continuous_discovery_runtime.py) loads state.json, asks the   *)
(* providers, appends what is new to candidate-events.jsonl and the run to *)
(* runs.jsonl, replaces state.json and status.json, and refreshes the      *)
(* archive in one SQLite transaction                                       *)
(* (application/solana_discovery_feed_service.py).  It may end anywhere in *)
(* between.  The web process reads status and archive while it runs and    *)
(* caches the last generation it found in both.                            *)
(*                                                                         *)
(* Cycles follow each other: CollectorSupervisor says when two would       *)
(* overlap.  Every time stamp of a cycle is the time it started at, and no *)
(* two cycles start at one time.  The state is read at a start even when   *)
(* there is no file: the initial state is what load_state then returns.    *)
(***************************************************************************)
EXTENDS Naturals, Sequences, FiniteSets, SequencesExt

CONSTANTS
  Tokens,      \* mint addresses
  Readers,     \* threads of the web process in the engine feed
  Retry,       \* PAIR_RETRY_MINUTES: when the attempts at a pair are due
  Cooldown,    \* BIRDEYE_QUOTA_COOLDOWN_SECONDS
  ActiveAge,   \* ACTIVE_CANDIDATE_HOURS
  Take,        \* MAX_CANDIDATES_CHECKED
  MaxTime,     \* bound on the clock
  MaxLost      \* bound on the cycles that do not reach their end

ASSUME DiscoveryAssumption ==
  /\ IsFiniteSet(Tokens)
  /\ Retry \in Seq(Nat) /\ Cooldown \in Nat /\ ActiveAge \in Nat
  /\ Take \in Nat \ {0} /\ MaxTime \in Nat /\ MaxLost \in Nat

VARIABLES
  clock,    \* when the latest cycle started
  pc,       \* the next operation of the cycle, "idle" between cycles
  mem,      \* the state dictionary of the running cycle
  saved,    \* state.json
  status,   \* generated_at of status.json, 0 if there is none
  archive,  \* the discoveries table: one row per token
  events,   \* candidate-events.jsonl
  runLog,   \* runs.jsonl: run number and time
  cached,   \* _ENGINE_FEED_GENERATED_AT
  at,       \* where each reader stands
  got,      \* the generated_at it read
  lost      \* cycles ended too early

cycleVars  == <<clock, mem, saved, status, archive, events, runLog, lost>>
readerVars == <<cached, at, got>>
vars       == <<cycleVars, pc, readerVars>>

-----------------------------------------------------------------------------
(* The state dictionary.  A candidate that is not known has no times.      *)

Times == 0..MaxTime

Candidate == [first : Times, last : Times, paired : Times, attempts : 0..Len(Retry)]
Absent    == [first |-> 0, last |-> 0, paired |-> 0, attempts |-> 0]

\* candidates is a dictionary: before holds <<t, u>> if t was inserted first.
State == [cands : [Tokens -> Candidate], before : SUBSET (Tokens \X Tokens),
          runs : Nat, lastRun : Times, retryAt : Nat, cursor : Nat]

InitialState == [cands |-> [t \in Tokens |-> Absent], before |-> {}, runs |-> 0,
                 lastRun |-> 0, retryAt |-> 0, cursor |-> 0]

Known(s, t) == s.cands[t].first # 0

CycleSteps  == {"idle", "birdeye", "profiles", "pairs", "log", "save", "status", "scan"}
ReaderSteps == {"idle", "read", "rows"}

Row   == [last : Times, current : BOOLEAN]
Event == {"discovered", "resolved"} \X Tokens \X Times

\* The candidates that are known stand in one order.
InOrder(s) ==
  /\ \A p \in s.before : Known(s, p[1]) /\ Known(s, p[2]) /\ p[1] # p[2]
  /\ \A t, u \in Tokens :
       Known(s, t) /\ Known(s, u) /\ t # u => <<t, u>> \in s.before \/ <<u, t>> \in s.before
  /\ \A t, u, v \in Tokens :
       <<t, u>> \in s.before /\ <<u, v>> \in s.before => <<t, v>> \in s.before

TypeOK ==
  /\ clock \in Times /\ pc \in CycleSteps
  /\ mem \in State /\ InOrder(mem) /\ saved \in State /\ InOrder(saved)
  /\ status \in Times
  /\ archive \in [Tokens -> Row]
  /\ events \in SUBSET Event /\ runLog \in SUBSET (Nat \X Times)
  /\ cached \in Times /\ at \in [Readers -> ReaderSteps] /\ got \in [Readers -> Times]
  /\ lost \in 0..MaxLost

Init ==
  /\ clock = 0 /\ pc = "idle"
  /\ mem = InitialState /\ saved = InitialState
  /\ status = 0
  /\ archive = [t \in Tokens |-> [last |-> 0, current |-> FALSE]]
  /\ events = {} /\ runLog = {}
  /\ cached = 0 /\ at = [r \in Readers |-> "idle"] /\ got = [r \in Readers |-> 0]
  /\ lost = 0

-----------------------------------------------------------------------------
(* One cycle: main.                                                        *)

\* prune_stale_candidates.
Expired(s, t, now) == Known(s, t) /\ s.cands[t].last + ActiveAge < now
Remaining(s, now) ==
  {p \in s.before : ~ Expired(s, p[1], now) /\ ~ Expired(s, p[2], now)}
Pruned(s, now) ==
  [s EXCEPT !.cands = [t \in Tokens |-> IF Expired(s, t, now) THEN Absent ELSE @[t]],
            !.before = Remaining(s, now)]

\* merge_discovery: what the records of one answer add, in their order.
New(s, recs) == {t \in ToSet(recs) : ~ Known(s, t)}
Inserted(s, recs) ==
  {p \in Tokens \X New(s, recs) :
     Known(s, p[1]) \/ \E i, j \in DOMAIN recs : i < j /\ recs[i] = p[1] /\ recs[j] = p[2]}
Merged(s, recs, now) ==
  [s EXCEPT
     !.cands = [t \in Tokens |->
                  IF t \notin ToSet(recs) THEN @[t]
                  ELSE IF Known(s, t) THEN [@[t] EXCEPT !.last = now]
                  ELSE [Absent EXCEPT !.first = now, !.last = now]],
     !.before = @ \cup Inserted(s, recs)]
Discovered(s, recs, now) ==
  {<<"discovered", t, now>> : t \in New(s, recs)}

Answers == UNION {SetToSeqs(S) : S \in SUBSET Tokens}

StartCycle(now) ==
  /\ pc = "idle" /\ now > clock
  /\ clock' = now
  /\ mem' = [Pruned(saved, now) EXCEPT !.runs = @ + 1, !.lastRun = now]
  /\ pc' = "birdeye"
  /\ UNCHANGED <<saved, status, archive, events, runLog, lost, readerVars>>

\* One operation on mem and the event log, and on to the next.
Work(from, to) ==
  /\ pc = from /\ pc' = to
  /\ UNCHANGED <<clock, saved, status, archive, runLog, lost, readerVars>>

\* Mutant: the candidates are merged and the event log forgotten.
MergeSilently(s, recs) ==
  /\ mem' = Merged(s, recs, clock)
  /\ UNCHANGED events

\* A line is appended per candidate and the dictionary is in memory: a
\* process that ends in the middle is one whose answer was shorter.
MergeDiscovery(s, recs) ==
  /\ mem' = Merged(s, recs, clock)
  /\ events' = events \cup Discovered(s, recs, clock)

\* Every failure but the quota's, and a missing key, is only reported.
AskBirdeye ==
  /\ Work("birdeye", "profiles")
  /\ \/ UNCHANGED <<mem, events>>
     \/ /\ clock >= mem.retryAt
        /\ \/ /\ mem' = [mem EXCEPT !.retryAt = clock + Cooldown]
              /\ UNCHANGED events
           \/ \E recs \in Answers : MergeDiscovery([mem EXCEPT !.retryAt = 0], recs)

AskProfiles ==
  /\ Work("profiles", "pairs")
  /\ \/ UNCHANGED <<mem, events>>
     \/ \E recs \in Answers : MergeDiscovery(mem, recs)

\* Mutant: the attempts are not counted against the schedule.
DueForever(c, now) == c.first # 0 /\ c.paired = 0 /\ now >= c.first

\* candidate_due.
Due(c, now) ==
  /\ c.first # 0 /\ c.paired = 0
  /\ c.attempts < Len(Retry)
  /\ now >= c.first + Retry[c.attempts + 1]

\* What an answered attempt changes, in a candidate and in all of them.
Tried(c, paired) == [c EXCEPT !.attempts = c.attempts + 1, !.paired = paired]
Attempted(s, due, resolved, now) ==
  [s EXCEPT !.cands =
     [t \in Tokens |->
        IF t \notin due THEN s.cands[t]
        ELSE Tried(s.cands[t], IF t \in resolved THEN now ELSE s.cands[t].paired)]]

\* resolve_due_pairs: an attempt is spent only when the provider answered.
ResolvePairs ==
  /\ Work("pairs", "log")
  /\ LET due == {t \in Tokens : Due(mem.cands[t], clock)}
     IN  \/ UNCHANGED <<mem, events>>
         \/ \E resolved \in SUBSET due :
              /\ due # {}
              /\ mem' = Attempted(mem, due, resolved, clock)
              /\ events' = events \cup {<<"resolved", t, clock>> : t \in resolved}

AppendRun ==
  /\ pc = "log" /\ pc' = "save"
  /\ runLog' = runLog \cup {<<mem.runs, mem.lastRun>>}
  /\ UNCHANGED <<clock, mem, saved, status, archive, events, lost, readerVars>>

\* Mutant: each process starts the rotation again.
SaveSameCursor ==
  /\ pc = "save" /\ pc' = "status"
  /\ mem' = mem
  /\ saved' = mem'
  /\ UNCHANGED <<clock, status, archive, events, runLog, lost, readerVars>>

SaveState ==
  /\ pc = "save" /\ pc' = "status"
  /\ mem' = [mem EXCEPT !.cursor = @ + Take]
  /\ saved' = mem'
  /\ UNCHANGED <<clock, status, archive, events, runLog, lost, readerVars>>

SaveStatus ==
  /\ pc = "status" /\ pc' = "scan"
  /\ status' = clock
  /\ UNCHANGED <<clock, mem, saved, archive, events, runLog, lost, readerVars>>

\* qualify_discovery_candidates: the pools known, latest seen first, and the
\* window of them that rotation_start selects.
Pools(s) == {t \in Tokens : s.cands[t].paired # 0}
Ahead(s, t, u) ==
  \/ s.cands[t].last > s.cands[u].last
  \/ s.cands[t].last = s.cands[u].last /\ <<t, u>> \in s.before
Rank(s) == [t \in Pools(s) |-> Cardinality({u \in Pools(s) : Ahead(s, u, t)})]

Selected(s, start) ==
  LET n == Cardinality(Pools(s))
  IN  {t \in Pools(s) : (Rank(s)[t] + n - (start % n)) % n < Take}

Window == Selected(mem, mem.cursor - Take)

\* Mutant: the rows of the scan before keep their mark.
UpdateKeepingMarks(qualified) ==
  archive' = [t \in Tokens |->
                IF t \in qualified THEN [last |-> clock, current |-> TRUE]
                ELSE archive[t]]

\* _update_archive: one transaction, with the outcome of every check in it.
UpdateArchive(qualified) ==
  archive' = [t \in Tokens |->
                IF t \in qualified THEN [last |-> clock, current |-> TRUE]
                ELSE [archive[t] EXCEPT !.current = FALSE]]

\* refresh_solana_discovery_archive: its status is the one just written, so
\* it is fresh.  The reports that follow change nothing modelled.
RefreshArchive ==
  /\ pc = "scan" /\ pc' = "idle"
  /\ \E qualified \in SUBSET Window : UpdateArchive(qualified)
  /\ mem' = InitialState
  /\ UNCHANGED <<clock, saved, status, events, runLog, lost, readerVars>>

\* SIGTERM, SIGKILL, the loss of the container or an exception that no
\* handler names: what the process had in memory is gone.
LoseCycle ==
  /\ pc # "idle" /\ lost < MaxLost
  /\ pc' = "idle" /\ mem' = InitialState /\ lost' = lost + 1
  /\ UNCHANGED <<clock, saved, status, archive, events, runLog, readerVars>>

CycleStep ==
  \/ AskBirdeye \/ AskProfiles \/ ResolvePairs \/ AppendRun \/ SaveState
  \/ SaveStatus \/ RefreshArchive

-----------------------------------------------------------------------------
(* load_solana_discovery_engine_feed, in a thread of the web process.      *)

\* status.json is read before the lock is taken.
ReadStatus(r) ==
  /\ at[r] = "idle"
  /\ got' = [got EXCEPT ![r] = status]
  /\ at' = [at EXCEPT ![r] = "read"]
  /\ UNCHANGED <<cycleVars, pc, cached>>

LockFree == \A r \in Readers : at[r] # "rows"

\* SELECT MAX(last_qualified_at) ... WHERE currently_qualified = 1.
ArchivedAt(g) ==
  /\ \E t \in Tokens : archive[t].current /\ archive[t].last = g
  /\ \A t \in Tokens : archive[t].current => archive[t].last <= g

Leave(r) == at' = [at EXCEPT ![r] = "idle"] /\ got' = [got EXCEPT ![r] = 0]

\* Mutant: the status alone makes a generation known.
CheckStatusOnly(r) ==
  /\ at[r] = "read" /\ LockFree
  /\ at' = [at EXCEPT ![r] = "rows"]
  /\ cached' = got[r]
  /\ UNCHANGED <<cycleVars, pc, got>>

\* The generation is the one known already, or the archive has it too: the
\* lock is kept until the rows are read.  Otherwise the answer is that the
\* engine feed is not connected.
CheckGeneration(r) ==
  /\ at[r] = "read" /\ LockFree
  /\ IF got[r] \in {0, cached} \/ ArchivedAt(got[r])
       THEN /\ at' = [at EXCEPT ![r] = "rows"] /\ UNCHANGED got
            /\ cached' = IF got[r] # 0 THEN got[r] ELSE cached
       ELSE Leave(r) /\ UNCHANGED cached
  /\ UNCHANGED <<cycleVars, pc>>

\* The second query, in a connection of its own.
ReadRows(r) ==
  /\ at[r] = "rows"
  /\ Leave(r)
  /\ UNCHANGED <<cycleVars, pc, cached>>

WebRestart ==
  /\ cached' = 0
  /\ at' = [r \in Readers |-> "idle"] /\ got' = [r \in Readers |-> 0]
  /\ UNCHANGED <<cycleVars, pc>>

ReaderStep(r) == ReadStatus(r) \/ CheckGeneration(r) \/ ReadRows(r)

Next ==
  \/ \E now \in Times : StartCycle(now)
  \/ CycleStep \/ LoseCycle
  \/ \E r \in Readers : ReaderStep(r)
  \/ WebRestart

Spec == Init /\ [][Next]_vars

-----------------------------------------------------------------------------
(* Properties.                                                             *)

Logged(s) ==
  \A t \in Tokens : Known(s, t) =>
    /\ <<"discovered", t, s.cands[t].first>> \in events
    /\ s.cands[t].paired # 0 => <<"resolved", t, s.cands[t].paired>> \in events

\* The append-only files are ahead of state.json, wherever a cycle ends:
\* every candidate it knows, every pair it resolved and its last run are in
\* them, so that what a lost cycle did can be missing from the state and
\* never from the logs (main: the order of its writes).
SavedIsLogged ==
  /\ Logged(saved)
  /\ saved.runs # 0 => <<saved.runs, saved.lastRun>> \in runLog

\* A row the engine feed is about to answer passed the checks in the scan
\* the answer names or in a later one: no cached generation, status ahead
\* of its archive, lost cycle or restart brings back an older row.
EngineRowsFresh ==
  \A r \in Readers, t \in Tokens :
    at[r] = "rows" /\ archive[t].current => archive[t].last >= got[r]
=============================================================================
