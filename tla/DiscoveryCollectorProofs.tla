---------------------- MODULE DiscoveryCollectorProofs ----------------------
(***************************************************************************)
(* The types, the feed, the logs and the rotation, for every set of tokens *)
(* and readers, every schedule of retries, window and bound.               *)
(***************************************************************************)
EXTENDS PoolRotation, FiniteSetTheorems, TLAPS

-----------------------------------------------------------------------------
(* The engine feed.  Only the times matter: every current row is of one    *)
(* scan, no later than the clock, and a reader never holds a generation    *)
(* that a current row is older than once it is past the check.             *)

ClockOK == clock \in Nat /\ status \in 0..clock
RowsOK  == archive \in [Tokens -> [last : Nat, current : BOOLEAN]]

ReadersOK ==
  /\ at \in [Readers -> ReaderSteps]
  /\ got \in [Readers -> Nat] /\ \A r \in Readers : got[r] <= clock
  /\ cached \in Nat /\ cached <= clock

\* All current rows are of the last refresh, and no refresh is to come.
OneScan ==
  /\ \A t \in Tokens : archive[t].current => archive[t].last <= clock
  /\ \A t, u \in Tokens :
       archive[t].current /\ archive[u].current => archive[t].last = archive[u].last

\* The cached generation was in the archive once.
CacheBehind ==
  \A t \in Tokens : archive[t].current => archive[t].last >= cached

FeedInv ==
  /\ ClockOK /\ RowsOK /\ ReadersOK /\ OneScan /\ CacheBehind
  /\ EngineRowsFresh

feedVars == <<clock, status, archive, cached, at, got>>

\* It holds before the first cycle.
LEMMA FeedInit == Init => FeedInv
BY DEF Init, FeedInv, ClockOK, RowsOK, ReadersOK, OneScan, CacheBehind,
       EngineRowsFresh, ReaderSteps

\* Only these variables matter to it.
LEMMA FeedKept == FeedInv /\ UNCHANGED feedVars => FeedInv'
BY DEF FeedInv, feedVars, ClockOK, RowsOK, ReadersOK, OneScan, CacheBehind,
       EngineRowsFresh

\* A cycle starts later than the one before.
LEMMA FeedStart ==
  ASSUME FeedInv, NEW now \in Times, StartCycle(now)
  PROVE  FeedInv'
<1>1. /\ clock \in Nat /\ now \in Nat /\ clock < now /\ clock' = now
      /\ UNCHANGED <<status, archive, cached, at, got>>
  BY DiscoveryAssumption DEF FeedInv, ClockOK, StartCycle, Times, readerVars
<1>2. ClockOK' /\ RowsOK' /\ CacheBehind' /\ EngineRowsFresh'
  BY <1>1 DEF FeedInv, ClockOK, RowsOK, CacheBehind, EngineRowsFresh
<1>3. ReadersOK'
  BY <1>1 DEF FeedInv, ReadersOK
<1>4. OneScan'
  BY <1>1 DEF FeedInv, OneScan, RowsOK
<1> QED BY <1>2, <1>3, <1>4 DEF FeedInv

\* A status names the running cycle, whose time is the clock.
LEMMA FeedStatus ==
  ASSUME FeedInv, SaveStatus
  PROVE  FeedInv'
BY DEF FeedInv, SaveStatus, ClockOK, RowsOK, ReadersOK, OneScan, CacheBehind,
       EngineRowsFresh, readerVars

\* The refresh makes every current row one of this cycle.
LEMMA FeedRefresh ==
  ASSUME FeedInv, RefreshArchive
  PROVE  FeedInv'
<1>1. PICK qualified \in SUBSET Window : UpdateArchive(qualified)
  BY DEF RefreshArchive
<1>2. UNCHANGED <<clock, status, cached, at, got>>
  BY DEF RefreshArchive, readerVars
<1>3. clock \in Nat /\ archive \in [Tokens -> [last : Nat, current : BOOLEAN]]
  BY DEF FeedInv, ClockOK, RowsOK
<1>4. RowsOK'
  BY <1>1, <1>3 DEF UpdateArchive, RowsOK
<1>5. \A t \in Tokens : archive'[t].current => archive'[t].last = clock
  BY <1>1, <1>3 DEF UpdateArchive
<1>6. ClockOK' /\ ReadersOK'
  BY <1>2 DEF FeedInv, ClockOK, ReadersOK
<1>7. OneScan' /\ CacheBehind'
  BY <1>2, <1>3, <1>5 DEF FeedInv, OneScan, CacheBehind, ReadersOK
<1>8. EngineRowsFresh'
  BY <1>2, <1>3, <1>5 DEF FeedInv, EngineRowsFresh, ReadersOK
<1> QED BY <1>4, <1>6, <1>7, <1>8 DEF FeedInv

\* A reader takes the generation that status.json names.
LEMMA FeedRead ==
  ASSUME FeedInv, NEW r \in Readers, ReadStatus(r)
  PROVE  FeedInv'
<1>1. UNCHANGED <<clock, status, archive, cached>>
  BY DEF ReadStatus, cycleVars
<1>2. /\ got' = [got EXCEPT ![r] = status]
      /\ at' = [at EXCEPT ![r] = "read"]
  BY DEF ReadStatus
<1>3. ClockOK' /\ RowsOK' /\ OneScan' /\ CacheBehind'
  BY <1>1 DEF FeedInv, ClockOK, RowsOK, OneScan, CacheBehind
<1>4. ReadersOK'
  BY <1>1, <1>2 DEF FeedInv, ReadersOK, ReaderSteps, ClockOK
<1>5. EngineRowsFresh'
  BY <1>1, <1>2 DEF FeedInv, EngineRowsFresh, ReadersOK
<1> QED BY <1>3, <1>4, <1>5 DEF FeedInv

\* Past the check, the generation is behind every current row: it is the
\* cached one, or the largest of the rows, which are all of one scan.
LEMMA FeedCheck ==
  ASSUME FeedInv, NEW r \in Readers, CheckGeneration(r)
  PROVE  FeedInv'
<1>1. UNCHANGED <<clock, status, archive>>
  BY DEF CheckGeneration, cycleVars
<1>2. ClockOK' /\ RowsOK' /\ OneScan'
  BY <1>1 DEF FeedInv, ClockOK, RowsOK, OneScan
<1>3. CASE got[r] \in {0, cached} \/ ArchivedAt(got[r])
  <2>1. /\ at' = [at EXCEPT ![r] = "rows"] /\ got' = got
        /\ cached' = IF got[r] # 0 THEN got[r] ELSE cached
    BY <1>3 DEF CheckGeneration
  <2>2. \A t \in Tokens : archive[t].current => archive[t].last >= got[r]
    BY <1>3 DEF FeedInv, ArchivedAt, OneScan, CacheBehind, RowsOK, ReadersOK
  <2>3. ReadersOK'
    BY <1>1, <2>1 DEF FeedInv, ReadersOK, ReaderSteps
  <2>4. CacheBehind'
    BY <1>1, <2>1, <2>2 DEF FeedInv, CacheBehind
  <2>5. EngineRowsFresh'
    BY <1>1, <2>1, <2>2 DEF FeedInv, EngineRowsFresh, ReadersOK
  <2> QED BY <1>2, <2>3, <2>4, <2>5 DEF FeedInv
<1>4. CASE ~ (got[r] \in {0, cached} \/ ArchivedAt(got[r]))
  <2>1. /\ at' = [at EXCEPT ![r] = "idle"] /\ got' = [got EXCEPT ![r] = 0]
        /\ cached' = cached
    BY <1>4 DEF CheckGeneration, Leave
  <2>2. ReadersOK' /\ CacheBehind'
    BY <1>1, <2>1 DEF FeedInv, ReadersOK, ReaderSteps, CacheBehind, ClockOK
  <2>3. EngineRowsFresh'
    BY <1>1, <2>1 DEF FeedInv, EngineRowsFresh, ReadersOK
  <2> QED BY <1>2, <2>2, <2>3 DEF FeedInv
<1> QED BY <1>3, <1>4

\* A reader that has its rows is done.
LEMMA FeedLeave ==
  ASSUME FeedInv, NEW r \in Readers, ReadRows(r)
  PROVE  FeedInv'
<1>1. /\ UNCHANGED <<clock, status, archive, cached>>
      /\ at' = [at EXCEPT ![r] = "idle"] /\ got' = [got EXCEPT ![r] = 0]
  BY DEF ReadRows, cycleVars, Leave
<1>2. ClockOK' /\ RowsOK' /\ OneScan' /\ CacheBehind'
  BY <1>1 DEF FeedInv, ClockOK, RowsOK, OneScan, CacheBehind
<1>3. ReadersOK'
  BY <1>1 DEF FeedInv, ReadersOK, ReaderSteps, ClockOK
<1>4. EngineRowsFresh'
  BY <1>1 DEF FeedInv, EngineRowsFresh, ReadersOK
<1> QED BY <1>2, <1>3, <1>4 DEF FeedInv

\* A new web process has no cached generation and no readers.
LEMMA FeedRestart ==
  ASSUME FeedInv, WebRestart
  PROVE  FeedInv'
<1>1. /\ UNCHANGED <<clock, status, archive>> /\ cached' = 0
      /\ at' = [r \in Readers |-> "idle"] /\ got' = [r \in Readers |-> 0]
  BY DEF WebRestart, cycleVars
<1>2. ClockOK' /\ RowsOK' /\ OneScan' /\ CacheBehind'
  BY <1>1 DEF FeedInv, ClockOK, RowsOK, OneScan, CacheBehind
<1>3. ReadersOK' /\ EngineRowsFresh'
  BY <1>1 DEF FeedInv, ReadersOK, ReaderSteps, ClockOK, EngineRowsFresh
<1> QED BY <1>2, <1>3 DEF FeedInv

\* The engine feed answers no row older than the scan it names: for every
\* number of readers, cycles lost and restarts of the web process.
THEOREM FeedIsFresh == Spec => []EngineRowsFresh
<1>1. FeedInv /\ [Next]_vars => FeedInv'
  <2> SUFFICES ASSUME FeedInv, [Next]_vars PROVE FeedInv'
    OBVIOUS
  <2>1. ASSUME NEW now \in Times, StartCycle(now) PROVE FeedInv'
    BY <2>1, FeedStart
  <2>2. CASE CycleStep
    <3>1. CASE SaveStatus BY <3>1, FeedStatus
    <3>2. CASE RefreshArchive BY <3>2, FeedRefresh
    <3>3. CASE AskBirdeye \/ AskProfiles \/ ResolvePairs
      BY <3>3, FeedKept DEF AskBirdeye, AskProfiles, ResolvePairs, Work, readerVars, feedVars
    <3>4. CASE AppendRun \/ SaveState
      BY <3>4, FeedKept DEF AppendRun, SaveState, readerVars, feedVars
    <3> QED BY <2>2, <3>1, <3>2, <3>3, <3>4 DEF CycleStep
  <2>3. CASE LoseCycle
    BY <2>3, FeedKept DEF LoseCycle, readerVars, feedVars
  <2>4. ASSUME NEW r \in Readers, ReaderStep(r) PROVE FeedInv'
    BY <2>4, FeedRead, FeedCheck, FeedLeave DEF ReaderStep
  <2>5. CASE WebRestart
    BY <2>5, FeedRestart
  <2>6. CASE UNCHANGED vars
    BY <2>6, FeedKept DEF vars, cycleVars, readerVars, feedVars
  <2> QED BY <2>1, <2>2, <2>3, <2>4, <2>5, <2>6 DEF Next
<1>2. FeedInv => EngineRowsFresh
  BY DEF FeedInv
<1> QED BY <1>1, <1>2, FeedInit, PTL DEF Spec

-----------------------------------------------------------------------------
(* The logs.  A state dictionary is read as far as its candidates go: the  *)
(* order of the dictionary plays no part.                                  *)

Fields == {"cands", "before", "runs", "lastRun", "retryAt", "cursor"}
Record == [first : Nat, last : Nat, paired : Nat, attempts : Nat]
StateOK(s) == DOMAIN s = Fields /\ s.cands \in [Tokens -> Record]

LoggedIn(s, log) ==
  \A t \in Tokens : s.cands[t].first # 0 =>
    /\ <<"discovered", t, s.cands[t].first>> \in log
    /\ s.cands[t].paired # 0 => <<"resolved", t, s.cands[t].paired>> \in log

LogInv ==
  /\ clock \in Nat
  /\ StateOK(mem) /\ LoggedIn(mem, events)
  /\ StateOK(saved) /\ LoggedIn(saved, events)
  /\ pc \in {"save"} => <<mem.runs, mem.lastRun>> \in runLog
  /\ saved.runs # 0 => <<saved.runs, saved.lastRun>> \in runLog

\* Nothing known, nothing to log.
LEMMA InitialStateOK == StateOK(InitialState) /\ \A log : LoggedIn(InitialState, log)
BY DEF StateOK, InitialState, Fields, Record, Absent, LoggedIn

\* Pruning forgets candidates and changes none.
LEMMA PrunedLogged ==
  ASSUME NEW s, NEW log, NEW now \in Nat, StateOK(s), LoggedIn(s, log)
  PROVE  StateOK(Pruned(s, now)) /\ LoggedIn(Pruned(s, now), log)
<1> DEFINE kept == [t \in Tokens |-> IF Expired(s, t, now) THEN Absent ELSE s.cands[t]]
<1>1. DOMAIN Pruned(s, now) = Fields /\ Pruned(s, now).cands = kept
  BY DEF Pruned, StateOK, Fields
<1>2. kept \in [Tokens -> Record]
  BY DEF StateOK, Absent, Record
<1>3. \A t \in Tokens : kept[t].first # 0 => kept[t] = s.cands[t]
  BY DEF Absent
<1> HIDE DEF kept
<1>4. StateOK(Pruned(s, now))
  BY <1>1, <1>2 DEF StateOK
<1>5. LoggedIn(Pruned(s, now), log)
  BY <1>1, <1>3 DEF LoggedIn
<1> QED BY <1>4, <1>5

\* Overwriting the last sighting leaves a candidate.
LEMMA LastKeepsType ==
  ASSUME NEW c \in Record, NEW now \in Nat
  PROVE  [c EXCEPT !.last = now] \in Record
BY DEF Record

\* Counting an attempt leaves a candidate first seen when it was.
LEMMA TriedRecord ==
  ASSUME NEW c \in Record, NEW paired \in Nat
  PROVE  /\ Tried(c, paired) \in Record
         /\ Tried(c, paired).first = c.first /\ Tried(c, paired).paired = paired
<1>1. c.attempts + 1 \in Nat
  BY DEF Record
<1>2. Tried(c, paired) = [c EXCEPT !.attempts = c.attempts + 1, !.paired = paired]
  BY DEF Tried
<1> QED BY <1>1, <1>2 DEF Record

\* Merging an answer adds the candidates it logs.
LEMMA MergedLogged ==
  ASSUME NEW s, NEW log, NEW recs, NEW now \in Nat, StateOK(s), LoggedIn(s, log)
  PROVE  /\ StateOK(Merged(s, recs, now))
         /\ LoggedIn(Merged(s, recs, now), log \cup Discovered(s, recs, now))
<1> DEFINE grown == [t \in Tokens |->
                       IF t \notin ToSet(recs) THEN s.cands[t]
                       ELSE IF Known(s, t) THEN [s.cands[t] EXCEPT !.last = now]
                       ELSE [Absent EXCEPT !.first = now, !.last = now]]
<1>1. DOMAIN Merged(s, recs, now) = Fields /\ Merged(s, recs, now).cands = grown
  BY DEF Merged, StateOK, Fields
<1>2. \A t \in Tokens :
        \/ t \notin ToSet(recs) /\ grown[t] = s.cands[t]
        \/ t \in ToSet(recs) /\ Known(s, t) /\ grown[t] = [s.cands[t] EXCEPT !.last = now]
        \/ /\ t \in ToSet(recs) /\ ~ Known(s, t)
           /\ grown[t] = [first |-> now, last |-> now, paired |-> 0, attempts |-> 0]
  BY DEF Absent
<1>3. \A t \in Tokens : s.cands[t] \in Record
  BY DEF StateOK
<1>4. \A t \in Tokens : grown[t] \in Record
  <2> SUFFICES ASSUME NEW t \in Tokens PROVE grown[t] \in Record
    OBVIOUS
  <2>1. s.cands[t] \in Record /\ [s.cands[t] EXCEPT !.last = now] \in Record
    BY <1>3, LastKeepsType
  <2>2. [first |-> now, last |-> now, paired |-> 0, attempts |-> 0] \in Record
    BY DEF Record
  <2> HIDE DEF grown
  <2> QED BY <1>2, <2>1, <2>2
<1>5. grown \in [Tokens -> Record]
  <2>1. grown = [t \in Tokens |-> grown[t]]
    OBVIOUS
  <2> HIDE DEF grown
  <2> QED BY <1>4, <2>1
<1> HIDE DEF grown
<1>6. StateOK(Merged(s, recs, now))
  BY <1>1, <1>5 DEF StateOK
<1>7. ASSUME NEW t \in Tokens, grown[t].first # 0
      PROVE  /\ <<"discovered", t, grown[t].first>> \in log \cup Discovered(s, recs, now)
             /\ grown[t].paired # 0 => <<"resolved", t, grown[t].paired>> \in log
  <2>1. CASE grown[t] = s.cands[t]
    BY <1>7, <2>1 DEF LoggedIn
  <2>2. CASE Known(s, t) /\ grown[t] = [s.cands[t] EXCEPT !.last = now]
    <3>1. grown[t].first = s.cands[t].first /\ grown[t].paired = s.cands[t].paired
      BY <1>3, <2>2 DEF Record
    <3> QED BY <1>7, <3>1 DEF LoggedIn
  <2>3. CASE /\ t \in ToSet(recs) /\ ~ Known(s, t)
             /\ grown[t] = [first |-> now, last |-> now, paired |-> 0, attempts |-> 0]
    BY <2>3 DEF Discovered, New
  <2> QED BY <1>2, <2>1, <2>2, <2>3
<1>8. LoggedIn(Merged(s, recs, now), log \cup Discovered(s, recs, now))
  BY <1>1, <1>7 DEF LoggedIn
<1> QED BY <1>6, <1>8

\* A longer log logs as much.
LEMMA MoreLogged ==
  ASSUME NEW s, NEW log, NEW more, LoggedIn(s, log)
  PROVE  LoggedIn(s, log \cup more)
BY DEF LoggedIn

\* What happens to the fields that are no candidates does not matter.
LEMMA SameCands ==
  ASSUME NEW s, NEW t, NEW log, StateOK(s), LoggedIn(s, log),
         DOMAIN t = Fields, t.cands = s.cands
  PROVE  StateOK(t) /\ LoggedIn(t, log)
BY DEF StateOK, LoggedIn

\* Only these variables matter to it.
LEMMA LogKept ==
  LogInv /\ UNCHANGED <<clock, pc, mem, saved, events, runLog>> => LogInv'
BY DEF LogInv

\* A cycle starts from what was saved, which is logged.
LEMMA LogStart ==
  ASSUME LogInv, NEW now \in Times, StartCycle(now)
  PROVE  LogInv'
<1>1. now \in Nat
  BY DiscoveryAssumption DEF Times
<1>2. /\ clock' = now /\ pc' = "birdeye"
      /\ mem' = [Pruned(saved, now) EXCEPT !.runs = @ + 1, !.lastRun = now]
      /\ UNCHANGED <<saved, events, runLog>>
  BY DEF StartCycle
<1>3. StateOK(Pruned(saved, now)) /\ LoggedIn(Pruned(saved, now), events)
  BY <1>1, PrunedLogged DEF LogInv
<1>4. DOMAIN mem' = Fields /\ mem'.cands = Pruned(saved, now).cands
  BY <1>2, <1>3 DEF StateOK, Fields
<1>5. StateOK(mem') /\ LoggedIn(mem', events)
  BY <1>3, <1>4, SameCands
<1> QED BY <1>1, <1>2, <1>5 DEF LogInv

\* A merge logs what it adds.
LEMMA LogMerge ==
  ASSUME LogInv, NEW s, NEW recs, StateOK(s), LoggedIn(s, events),
         MergeDiscovery(s, recs), UNCHANGED <<clock, saved, runLog>>, pc' # "save"
  PROVE  LogInv'
<1>1. /\ mem' = Merged(s, recs, clock)
      /\ events' = events \cup Discovered(s, recs, clock)
  BY DEF MergeDiscovery
<1>2. StateOK(mem') /\ LoggedIn(mem', events')
  BY <1>1, MergedLogged DEF LogInv
<1>3. LoggedIn(saved, events')
  BY <1>1, MoreLogged DEF LogInv
<1> QED BY <1>2, <1>3 DEF LogInv

\* The first provider answers, fails or is left alone.
LEMMA LogBirdeye ==
  ASSUME LogInv, AskBirdeye
  PROVE  LogInv'
<1>1. UNCHANGED <<clock, saved, runLog>> /\ pc' = "profiles"
  BY DEF AskBirdeye, Work
<1>2. CASE UNCHANGED <<mem, events>>
  BY <1>1, <1>2 DEF LogInv
<1>3. CASE mem' = [mem EXCEPT !.retryAt = clock + Cooldown] /\ UNCHANGED events
  <2>1. DOMAIN mem' = Fields /\ mem'.cands = mem.cands
    BY <1>3 DEF LogInv, StateOK, Fields
  <2>2. StateOK(mem') /\ LoggedIn(mem', events)
    BY <2>1, SameCands DEF LogInv
  <2> QED BY <1>1, <1>3, <2>2 DEF LogInv
<1>4. ASSUME NEW recs \in Answers, MergeDiscovery([mem EXCEPT !.retryAt = 0], recs)
      PROVE  LogInv'
  <2> DEFINE s == [mem EXCEPT !.retryAt = 0]
  <2>1. DOMAIN s = Fields /\ s.cands = mem.cands
    BY DEF LogInv, StateOK, Fields
  <2> HIDE DEF s
  <2>2. StateOK(s) /\ LoggedIn(s, events)
    BY <2>1, SameCands DEF LogInv
  <2>3. MergeDiscovery(s, recs)
    BY <1>4 DEF s
  <2> QED BY <1>1, <2>2, <2>3, LogMerge
<1> QED BY <1>2, <1>3, <1>4 DEF AskBirdeye

\* The second provider answers or fails.
LEMMA LogProfiles ==
  ASSUME LogInv, AskProfiles
  PROVE  LogInv'
<1>1. UNCHANGED <<clock, saved, runLog>> /\ pc' = "pairs"
  BY DEF AskProfiles, Work
<1>2. CASE UNCHANGED <<mem, events>>
  BY <1>1, <1>2 DEF LogInv
<1>3. ASSUME NEW recs \in Answers, MergeDiscovery(mem, recs)
      PROVE  LogInv'
  <2>1. StateOK(mem) /\ LoggedIn(mem, events)
    BY DEF LogInv
  <2> QED BY <1>1, <1>3, <2>1, LogMerge
<1> QED BY <1>2, <1>3 DEF AskProfiles

\* An attempt moves two fields of the candidates that were due.
LEMMA LogPairs ==
  ASSUME LogInv, ResolvePairs
  PROVE  LogInv'
<1>1. UNCHANGED <<clock, saved, runLog>> /\ pc' = "log"
  BY DEF ResolvePairs, Work
<1>2. CASE UNCHANGED <<mem, events>>
  BY <1>1, <1>2 DEF LogInv
<1>3. ASSUME NEW due \in SUBSET Tokens, NEW resolved \in SUBSET due,
             mem' = Attempted(mem, due, resolved, clock),
             events' = events \cup {<<"resolved", t, clock>> : t \in resolved}
      PROVE  LogInv'
  <2> DEFINE tried == [t \in Tokens |->
                         IF t \notin due THEN mem.cands[t]
                         ELSE Tried(mem.cands[t],
                                    IF t \in resolved THEN clock ELSE mem.cands[t].paired)]
  <2>1. DOMAIN mem' = Fields /\ mem'.cands = tried
    BY <1>3 DEF LogInv, StateOK, Fields, Attempted
  <2>2. \A t \in Tokens : mem.cands[t] \in Record
    BY DEF LogInv, StateOK
  <2>3. ASSUME NEW t \in Tokens
        PROVE  /\ tried[t] \in Record
               /\ tried[t].first = mem.cands[t].first
               /\ \/ tried[t].paired = mem.cands[t].paired
                  \/ t \in resolved /\ tried[t].paired = clock
    <3>1. CASE t \notin due
      BY <2>2, <3>1
    <3>2. CASE t \in due
      <4>1. clock \in Nat /\ mem.cands[t].paired \in Nat
        BY <2>2 DEF LogInv, Record
      <4>2. CASE t \in resolved
        <5>1. tried[t] = Tried(mem.cands[t], clock)
          BY <3>2, <4>2
        <5> HIDE DEF tried
        <5> QED BY <2>2, <4>1, <4>2, <5>1, TriedRecord
      <4>3. CASE t \notin resolved
        <5>1. tried[t] = Tried(mem.cands[t], mem.cands[t].paired)
          BY <3>2, <4>3
        <5> HIDE DEF tried
        <5> QED BY <2>2, <4>1, <5>1, TriedRecord
      <4> QED BY <4>2, <4>3
    <3> QED BY <3>1, <3>2
  <2>4. tried \in [Tokens -> Record]
    <3>1. tried = [t \in Tokens |-> tried[t]]
      OBVIOUS
    <3> HIDE DEF tried
    <3> QED BY <2>3, <3>1
  <2> HIDE DEF tried
  <2>5. StateOK(mem')
    BY <2>1, <2>4 DEF StateOK
  <2>6. LoggedIn(mem', events')
    <3>1. LoggedIn(mem, events)
      BY DEF LogInv
    <3>2. ASSUME NEW t \in Tokens, tried[t].first # 0
          PROVE  /\ <<"discovered", t, tried[t].first>> \in events'
                 /\ tried[t].paired # 0 => <<"resolved", t, tried[t].paired>> \in events'
      BY <1>3, <2>3, <3>1, <3>2 DEF LoggedIn
    <3> QED BY <2>1, <3>2 DEF LoggedIn
  <2>7. LoggedIn(saved, events')
    BY <1>3, MoreLogged DEF LogInv
  <2> QED BY <1>1, <2>5, <2>6, <2>7 DEF LogInv
<1> QED BY <1>2, <1>3 DEF ResolvePairs

\* The run is logged before the state that counts it is saved.
LEMMA LogSave ==
  ASSUME LogInv, AppendRun \/ SaveState
  PROVE  LogInv'
<1>1. CASE AppendRun
  BY <1>1 DEF LogInv, AppendRun
<1>2. CASE SaveState
  <2>1. /\ pc = "save" /\ pc' = "status" /\ saved' = mem'
        /\ mem' = [mem EXCEPT !.cursor = @ + Take]
        /\ UNCHANGED <<clock, events, runLog>>
    BY <1>2 DEF SaveState
  <2>2. /\ DOMAIN mem' = Fields /\ mem'.cands = mem.cands
        /\ mem'.runs = mem.runs /\ mem'.lastRun = mem.lastRun
    BY <2>1 DEF LogInv, StateOK, Fields
  <2>3. StateOK(mem') /\ LoggedIn(mem', events)
    BY <2>2, SameCands DEF LogInv
  <2> QED BY <2>1, <2>2, <2>3 DEF LogInv
<1> QED BY <1>1, <1>2

\* state.json never knows what the append-only logs do not, whatever the
\* providers answer and wherever a cycle is lost.
THEOREM StateIsLogged == Spec => []SavedIsLogged
<1>1. Init => LogInv
  BY InitialStateOK DEF Init, LogInv, InitialState
<1>2. LogInv /\ [Next]_vars => LogInv'
  <2> SUFFICES ASSUME LogInv, [Next]_vars PROVE LogInv'
    OBVIOUS
  <2>1. ASSUME NEW now \in Times, StartCycle(now) PROVE LogInv'
    BY <2>1, LogStart
  <2>2. CASE CycleStep
    <3>1. CASE AskBirdeye BY <3>1, LogBirdeye
    <3>2. CASE AskProfiles BY <3>2, LogProfiles
    <3>3. CASE ResolvePairs BY <3>3, LogPairs
    <3>4. CASE AppendRun \/ SaveState BY <3>4, LogSave
    <3>5. CASE SaveStatus BY <3>5 DEF SaveStatus, LogInv
    <3>6. CASE RefreshArchive
      <4>1. /\ mem' = InitialState /\ pc' = "idle"
            /\ UNCHANGED <<clock, saved, events, runLog>>
        BY <3>6 DEF RefreshArchive
      <4> QED BY <4>1, InitialStateOK DEF LogInv
    <3> QED BY <2>2, <3>1, <3>2, <3>3, <3>4, <3>5, <3>6 DEF CycleStep
  <2>3. CASE LoseCycle
    <3>1. /\ mem' = InitialState /\ pc' = "idle"
          /\ UNCHANGED <<clock, saved, events, runLog>>
      BY <2>3 DEF LoseCycle
    <3> QED BY <3>1, InitialStateOK DEF LogInv
  <2>4. ASSUME NEW r \in Readers, ReaderStep(r) PROVE LogInv'
    BY <2>4, LogKept DEF ReaderStep, ReadStatus, CheckGeneration, ReadRows, cycleVars
  <2>5. CASE WebRestart
    BY <2>5, LogKept DEF WebRestart, cycleVars
  <2>6. CASE UNCHANGED vars
    BY <2>6, LogKept DEF vars, cycleVars
  <2> QED BY <2>1, <2>2, <2>3, <2>4, <2>5, <2>6 DEF Next
<1>3. LogInv => SavedIsLogged
  BY DEF LogInv, LoggedIn, SavedIsLogged, Logged, Known
<1> QED BY <1>1, <1>2, <1>3, PTL DEF Spec
-----------------------------------------------------------------------------
(* Types.  The candidates stand in one order whatever is pruned and merged, *)
(* although the model keeps only which of two was inserted first.           *)

TypeInv == TypeOK /\ (pc # "idle" => clock # 0)

Dict(s) == s \in State /\ InOrder(s)

\* A state dictionary, field by field.
LEMMA StateFields ==
  ASSUME NEW s \in State
  PROVE  /\ s.cands \in [Tokens -> Candidate] /\ s.before \subseteq Tokens \X Tokens
         /\ s.runs \in Nat /\ s.lastRun \in Times /\ s.retryAt \in Nat /\ s.cursor \in Nat
BY DEF State

\* Nothing known yet.
LEMMA InitialDict == Dict(InitialState)
<1>1. Absent \in Candidate /\ Absent.first = 0
  BY DiscoveryAssumption DEF Absent, Candidate, Times
<1>2. InitialState \in State
  BY <1>1, DiscoveryAssumption DEF InitialState, State, Times
<1>3. \A t \in Tokens : ~ Known(InitialState, t)
  BY <1>1 DEF InitialState, Known
<1>4. InitialState.before = {}
  BY DEF InitialState
<1> QED BY <1>2, <1>3, <1>4 DEF Dict, InOrder

\* What is no candidate and no order may change.
LEMMA OtherFields ==
  ASSUME NEW s, Dict(s)
  PROVE  /\ \A n \in Nat : Dict([s EXCEPT !.retryAt = n])
         /\ \A n \in Nat : Dict([s EXCEPT !.cursor = n])
         /\ \A n \in Nat, t \in Times : Dict([s EXCEPT !.runs = n, !.lastRun = t])
<1> USE DEF Dict, State, InOrder, Known
<1>1. ASSUME NEW n \in Nat PROVE Dict([s EXCEPT !.retryAt = n])
  OBVIOUS
<1>2. ASSUME NEW n \in Nat PROVE Dict([s EXCEPT !.cursor = n])
  OBVIOUS
<1>3. ASSUME NEW n \in Nat, NEW t \in Times PROVE Dict([s EXCEPT !.runs = n, !.lastRun = t])
  OBVIOUS
<1> QED BY <1>1, <1>2, <1>3

\* What is left after pruning stands as it stood.
LEMMA PrunedDict ==
  ASSUME NEW s, Dict(s), NEW now \in Times
  PROVE  /\ Dict(Pruned(s, now))
         /\ Pruned(s, now).runs = s.runs /\ Pruned(s, now).cursor = s.cursor
<1> DEFINE kept == [t \in Tokens |-> IF Expired(s, t, now) THEN Absent ELSE s.cands[t]]
<1>1. /\ s \in State /\ InOrder(s) /\ s.cands \in [Tokens -> Candidate]
      /\ s.before \subseteq Tokens \X Tokens
  BY StateFields DEF Dict
<1>2. Absent \in Candidate /\ Absent.first = 0
  BY DiscoveryAssumption DEF Absent, Candidate, Times
<1>3. kept \in [Tokens -> Candidate]
  BY <1>1, <1>2
<1>4. Remaining(s, now) \subseteq Tokens \X Tokens
  BY <1>1 DEF Remaining
<1>5. Pruned(s, now) = [s EXCEPT !.cands = kept, !.before = Remaining(s, now)]
  BY DEF Pruned
<1>6. /\ Pruned(s, now).cands = kept /\ Pruned(s, now).before = Remaining(s, now)
      /\ Pruned(s, now).runs = s.runs /\ Pruned(s, now).cursor = s.cursor
  BY <1>1, <1>5 DEF State
<1>7. Pruned(s, now) \in State
  <2> HIDE DEF kept
  <2> QED BY <1>1, <1>3, <1>4, <1>5 DEF State
<1>8. \A t \in Tokens : Known(Pruned(s, now), t) <=> Known(s, t) /\ ~ Expired(s, t, now)
  BY <1>2, <1>6 DEF Known, Expired
<1> HIDE DEF kept
<1>9. InOrder(Pruned(s, now))
  <2>1. \A p \in Remaining(s, now) : p \in s.before /\ p[1] \in Tokens /\ p[2] \in Tokens
    BY <1>1 DEF Remaining
  <2>2. ASSUME NEW p \in Remaining(s, now)
        PROVE  Known(Pruned(s, now), p[1]) /\ Known(Pruned(s, now), p[2]) /\ p[1] # p[2]
    BY <1>1, <1>8, <2>1 DEF InOrder, Remaining
  <2>3. ASSUME NEW t \in Tokens, NEW u \in Tokens, Known(Pruned(s, now), t),
               Known(Pruned(s, now), u), t # u
        PROVE  <<t, u>> \in Remaining(s, now) \/ <<u, t>> \in Remaining(s, now)
    BY <1>1, <1>8, <2>3 DEF InOrder, Remaining
  <2>4. ASSUME NEW t \in Tokens, NEW u \in Tokens, NEW v \in Tokens,
               <<t, u>> \in Remaining(s, now), <<u, v>> \in Remaining(s, now)
        PROVE  <<t, v>> \in Remaining(s, now)
    BY <1>1, <2>4 DEF InOrder, Remaining
  <2> QED BY <1>6, <2>2, <2>3, <2>4 DEF InOrder
<1> QED BY <1>6, <1>7, <1>9 DEF Dict

\* An answer has no token twice.
LEMMA AnswerOnce ==
  ASSUME NEW recs \in Answers
  PROVE  /\ ToSet(recs) \subseteq Tokens /\ DOMAIN recs \subseteq Nat
         /\ \A t \in ToSet(recs) : \E i \in DOMAIN recs : recs[i] = t
         /\ \A i, j \in DOMAIN recs : recs[i] = recs[j] => i = j
<1>1. PICK S \in SUBSET Tokens : recs \in SetToSeqs(S)
  BY DEF Answers
<1>2. IsFiniteSet(S) /\ Cardinality(S) \in Nat
  BY <1>1, DiscoveryAssumption, FS_Subset, FS_CardinalityType
<1>3. /\ recs \in [1..Cardinality(S) -> S]
      /\ \A i, j \in 1..Cardinality(S) : i # j => recs[i] # recs[j]
  BY <1>1 DEF SetToSeqs
<1> QED BY <1>2, <1>3 DEF ToSet

\* What an answer adds stands behind what is known, in the answer's order.
LEMMA MergedDict ==
  ASSUME NEW s, Dict(s), NEW recs \in Answers, NEW now \in Times, now # 0
  PROVE  /\ Dict(Merged(s, recs, now)) /\ Discovered(s, recs, now) \subseteq Event
         /\ Merged(s, recs, now).cursor = s.cursor
<1> DEFINE grown == [t \in Tokens |->
                       IF t \notin ToSet(recs) THEN s.cands[t]
                       ELSE IF Known(s, t) THEN [s.cands[t] EXCEPT !.last = now]
                       ELSE [Absent EXCEPT !.first = now, !.last = now]]
<1> DEFINE m == Merged(s, recs, now)
<1> DEFINE more == Inserted(s, recs)
<1>1. /\ s \in State /\ InOrder(s) /\ s.cands \in [Tokens -> Candidate]
      /\ s.before \subseteq Tokens \X Tokens
  BY StateFields DEF Dict
<1>2. /\ ToSet(recs) \subseteq Tokens /\ DOMAIN recs \subseteq Nat
      /\ \A t \in ToSet(recs) : \E i \in DOMAIN recs : recs[i] = t
      /\ \A i, j \in DOMAIN recs : recs[i] = recs[j] => i = j
      /\ \A i \in DOMAIN recs : recs[i] \in ToSet(recs)
  BY AnswerOnce DEF ToSet
<1>3. New(s, recs) \subseteq Tokens /\ more \subseteq Tokens \X Tokens
  BY <1>2 DEF New, Inserted
<1>4. ASSUME NEW t \in Tokens
      PROVE  /\ grown[t] \in Candidate
             /\ grown[t].first # 0 <=> Known(s, t) \/ t \in ToSet(recs)
  <2>1. s.cands[t] \in Candidate /\ now \in Times /\ 0 \in Times /\ 0 \in 0..Len(Retry)
    BY <1>1, DiscoveryAssumption DEF Times
  <2>2. CASE t \notin ToSet(recs)
    BY <2>1, <2>2 DEF Known
  <2>3. CASE t \in ToSet(recs) /\ Known(s, t)
    <3>1. grown[t] = [s.cands[t] EXCEPT !.last = now]
      BY <2>3
    <3> HIDE DEF grown
    <3> QED BY <2>1, <2>3, <3>1 DEF Known, Candidate
  <2>4. CASE t \in ToSet(recs) /\ ~ Known(s, t)
    <3>1. grown[t] = [first |-> now, last |-> now, paired |-> 0, attempts |-> 0]
      BY <2>4 DEF Absent
    <3> HIDE DEF grown
    <3> QED BY <2>1, <2>4, <3>1 DEF Candidate
  <2> QED BY <2>2, <2>3, <2>4
<1>5. m = [s EXCEPT !.cands = grown, !.before = s.before \cup more]
  BY DEF Merged
<1>6. m.cands = grown /\ m.before = s.before \cup more /\ m.cursor = s.cursor
  BY <1>1, <1>5 DEF State
<1>7. grown \in [Tokens -> Candidate]
  <2>1. grown = [t \in Tokens |-> grown[t]]
    OBVIOUS
  <2> HIDE DEF grown
  <2> QED BY <1>4, <2>1
<1> HIDE DEF grown
<1>8. m \in State
  <2> HIDE DEF m, more
  <2> QED BY <1>1, <1>3, <1>5, <1>7 DEF State
<1>9. \A t \in Tokens : Known(m, t) <=> Known(s, t) \/ t \in ToSet(recs)
  BY <1>4, <1>6 DEF Known
<1> HIDE DEF m
<1>10. /\ \A p \in s.before : /\ p[1] \in Tokens /\ p[2] \in Tokens /\ p[1] # p[2]
                              /\ Known(s, p[1]) /\ Known(s, p[2])
       /\ \A p \in more :
            /\ p[1] \in Tokens /\ p[2] \in ToSet(recs) /\ ~ Known(s, p[2])
            /\ Known(s, p[1]) \/ \E i, j \in DOMAIN recs : i < j /\ recs[i] = p[1] /\ recs[j] = p[2]
  BY <1>1 DEF InOrder, Inserted, New
<1>11. /\ \A t \in Tokens, u \in ToSet(recs) :
            Known(s, t) /\ ~ Known(s, u) => <<t, u>> \in more
       /\ \A i, j \in DOMAIN recs :
            i < j /\ ~ Known(s, recs[j]) => <<recs[i], recs[j]>> \in more
  BY <1>2 DEF Inserted, New
<1> HIDE DEF more
<1>12. ASSUME NEW p \in m.before
       PROVE  Known(m, p[1]) /\ Known(m, p[2]) /\ p[1] # p[2]
  <2>1. CASE p \in s.before
    BY <1>9, <1>10, <2>1
  <2>2. CASE p \in more
    <3>1. p[1] \in Tokens /\ p[2] \in ToSet(recs) /\ ~ Known(s, p[2])
      BY <1>10, <2>2
    <3>2. CASE Known(s, p[1])
      BY <1>2, <1>9, <3>1, <3>2
    <3>3. ASSUME NEW i \in DOMAIN recs, NEW j \in DOMAIN recs,
                 i < j, recs[i] = p[1], recs[j] = p[2]
          PROVE  Known(m, p[1]) /\ Known(m, p[2]) /\ p[1] # p[2]
      <4>1. recs[i] # recs[j]
        BY <1>2, <3>3
      <4> QED BY <1>2, <1>9, <3>1, <3>3, <4>1
    <3> QED BY <1>10, <2>2, <3>2, <3>3
  <2> QED BY <1>6, <2>1, <2>2
<1>13. ASSUME NEW t \in Tokens, NEW u \in Tokens, Known(m, t), Known(m, u), t # u
       PROVE  <<t, u>> \in m.before \/ <<u, t>> \in m.before
  <2>1. CASE Known(s, t) /\ Known(s, u)
    BY <1>1, <1>6, <1>13, <2>1 DEF InOrder
  <2>2. CASE Known(s, t) /\ ~ Known(s, u)
    BY <1>6, <1>9, <1>11, <1>13, <2>2
  <2>3. CASE ~ Known(s, t) /\ Known(s, u)
    BY <1>6, <1>9, <1>11, <1>13, <2>3
  <2>4. CASE ~ Known(s, t) /\ ~ Known(s, u)
    <3>1. t \in ToSet(recs) /\ u \in ToSet(recs)
      BY <1>9, <1>13, <2>4
    <3>2. PICK i \in DOMAIN recs : recs[i] = t
      BY <1>2, <3>1
    <3>3. PICK j \in DOMAIN recs : recs[j] = u
      BY <1>2, <3>1
    <3>4. i < j \/ j < i
      BY <1>2, <1>13, <3>2, <3>3
    <3> QED BY <1>6, <1>11, <2>4, <3>2, <3>3, <3>4
  <2> QED BY <2>1, <2>2, <2>3, <2>4
<1>14. ASSUME NEW t \in Tokens, NEW u \in Tokens, NEW v \in Tokens,
              <<t, u>> \in m.before, <<u, v>> \in m.before
       PROVE  <<t, v>> \in m.before
  <2>1. CASE <<t, u>> \in s.before /\ <<u, v>> \in s.before
    BY <1>1, <1>6, <2>1 DEF InOrder
  <2>2. CASE <<t, u>> \in s.before /\ <<u, v>> \in more
    BY <1>6, <1>10, <1>11, <2>2
  <2>3. CASE <<t, u>> \in more /\ <<u, v>> \in s.before
    BY <1>10, <2>3
  <2>4. CASE <<t, u>> \in more /\ <<u, v>> \in more
    <3>1. ~ Known(s, u) /\ ~ Known(s, v) /\ v \in ToSet(recs)
      BY <1>10, <2>4
    <3>2. PICK i \in DOMAIN recs, j \in DOMAIN recs : i < j /\ recs[i] = u /\ recs[j] = v
      BY <1>10, <2>4, <3>1
    <3>3. CASE Known(s, t)
      BY <1>6, <1>11, <3>1, <3>3
    <3>4. CASE ~ Known(s, t)
      <4>1. PICK k \in DOMAIN recs, l \in DOMAIN recs : k < l /\ recs[k] = t /\ recs[l] = u
        BY <1>10, <2>4, <3>4
      <4>2. k < j
        BY <1>2, <3>2, <4>1
      <4> QED BY <1>6, <1>11, <3>1, <3>2, <4>1, <4>2
    <3> QED BY <3>3, <3>4
  <2> QED BY <1>6, <1>14, <2>1, <2>2, <2>3, <2>4
<1>15. InOrder(m)
  BY <1>12, <1>13, <1>14 DEF InOrder
<1>16. Discovered(s, recs, now) \subseteq Event
  BY <1>3 DEF Discovered, Event
<1> QED BY <1>6, <1>8, <1>15, <1>16 DEF Dict, m

\* An attempt moves no candidate, and counts within the schedule.
LEMMA AttemptedDict ==
  ASSUME NEW s, Dict(s), NEW due \in SUBSET Tokens, NEW resolved \in SUBSET due,
         NEW now \in Times, \A t \in due : Due(s.cands[t], now)
  PROVE  /\ Dict(Attempted(s, due, resolved, now))
         /\ Attempted(s, due, resolved, now).cursor = s.cursor
<1> DEFINE paid(t) == IF t \in resolved THEN now ELSE s.cands[t].paired
<1> DEFINE tried == [t \in Tokens |->
                       IF t \notin due THEN s.cands[t] ELSE Tried(s.cands[t], paid(t))]
<1> DEFINE a == Attempted(s, due, resolved, now)
<1>1. s \in State /\ InOrder(s) /\ s.cands \in [Tokens -> Candidate]
  BY StateFields DEF Dict
<1>2. ASSUME NEW t \in Tokens
      PROVE  tried[t] \in Candidate /\ tried[t].first = s.cands[t].first
  <2>1. s.cands[t] \in Candidate /\ paid(t) \in Times
    BY <1>1 DEF Candidate
  <2>2. CASE t \notin due
    BY <2>1, <2>2
  <2>3. CASE t \in due
    <3>1. tried[t] = Tried(s.cands[t], paid(t))
      BY <2>3
    <3>2. Due(s.cands[t], now)
      BY <2>3
    <3> HIDE DEF tried, paid
    <3>3. s.cands[t].attempts + 1 \in 0..Len(Retry)
      BY <2>1, <3>2, DiscoveryAssumption DEF Due, Candidate
    <3>4. Tried(s.cands[t], paid(t)) =
            [s.cands[t] EXCEPT !.attempts = s.cands[t].attempts + 1, !.paired = paid(t)]
      BY DEF Tried
    <3> QED BY <2>1, <3>1, <3>3, <3>4 DEF Candidate
  <2> QED BY <2>2, <2>3
<1>3. tried \in [Tokens -> Candidate]
  <2>1. tried = [t \in Tokens |-> tried[t]]
    OBVIOUS
  <2> HIDE DEF tried
  <2> QED BY <1>2, <2>1
<1>4. a = [s EXCEPT !.cands = tried]
  BY DEF Attempted
<1> HIDE DEF tried
<1>5. a.cands = tried /\ a.before = s.before /\ a.cursor = s.cursor
  BY <1>1, <1>4 DEF State
<1>6. a \in State
  <2> HIDE DEF a
  <2> QED BY <1>1, <1>3, <1>4 DEF State
<1>7. \A t \in Tokens : Known(a, t) <=> Known(s, t)
  BY <1>2, <1>5 DEF Known
<1>8. InOrder(a)
  <2>1. s.before \subseteq Tokens \X Tokens
    BY <1>1, StateFields
  <2>2. \A p \in s.before : p[1] \in Tokens /\ p[2] \in Tokens
    BY <2>1
  <2> HIDE DEF a
  <2> QED BY <1>1, <1>5, <1>7, <2>2 DEF InOrder
<1> QED BY <1>5, <1>6, <1>8 DEF Dict, a

\* A cycle begins with the saved state, pruned.
LEMMA TypeStart ==
  ASSUME TypeInv, NEW now \in Times, StartCycle(now)
  PROVE  TypeInv'
<1> USE DEF TypeInv, TypeOK
<1>1. /\ clock' = now /\ pc' = "birdeye" /\ clock < now
      /\ mem' = [Pruned(saved, now) EXCEPT !.runs = saved.runs + 1, !.lastRun = now]
      /\ UNCHANGED <<saved, status, archive, events, runLog, lost, cached, at, got>>
  <2>1. Pruned(saved, now).runs = saved.runs
    BY PrunedDict DEF Dict
  <2> QED BY <2>1 DEF StartCycle, readerVars
<1>2. saved.runs + 1 \in Nat
  BY StateFields
<1>3. Dict(mem')
  <2>1. Dict(Pruned(saved, now))
    BY PrunedDict DEF Dict
  <2> QED BY <1>1, <1>2, <2>1, OtherFields
<1>4. now # 0
  BY <1>1, DiscoveryAssumption DEF Times
<1> QED BY <1>1, <1>3, <1>4 DEF Dict, CycleSteps

\* The operations of a cycle on its state dictionary.
LEMMA TypeWork ==
  ASSUME TypeInv, AskBirdeye \/ AskProfiles \/ ResolvePairs
  PROVE  TypeInv'
<1> USE DEF TypeInv, TypeOK
<1>1. /\ pc' \in CycleSteps /\ clock # 0
      /\ UNCHANGED <<clock, saved, status, archive, runLog, lost, cached, at, got>>
  BY DEF AskBirdeye, AskProfiles, ResolvePairs, Work, CycleSteps, readerVars
<1>2. ASSUME Dict(mem'), events' \subseteq Event PROVE TypeInv'
  BY <1>1, <1>2 DEF Dict
<1>3. ASSUME NEW s, Dict(s), NEW recs \in Answers, MergeDiscovery(s, recs)
      PROVE  TypeInv'
  <2>1. Dict(Merged(s, recs, clock)) /\ Discovered(s, recs, clock) \subseteq Event
    BY <1>1, <1>3, MergedDict
  <2> QED BY <1>2, <1>3, <2>1 DEF MergeDiscovery
<1>4. Dict(mem)
  BY DEF Dict
<1>5. CASE UNCHANGED <<mem, events>>
  BY <1>2, <1>4, <1>5
<1>6. CASE mem' = [mem EXCEPT !.retryAt = clock + Cooldown] /\ UNCHANGED events
  <2>1. clock + Cooldown \in Nat
    BY DiscoveryAssumption DEF Times
  <2> QED BY <1>2, <1>4, <1>6, <2>1, OtherFields
<1>7. CASE AskBirdeye
  <2>1. Dict([mem EXCEPT !.retryAt = 0])
    BY <1>4, OtherFields
  <2> QED BY <1>3, <1>5, <1>6, <1>7, <2>1 DEF AskBirdeye
<1>8. CASE AskProfiles
  BY <1>3, <1>4, <1>5, <1>8 DEF AskProfiles
<1>9. ASSUME NEW due, due = {t \in Tokens : Due(mem.cands[t], clock)},
             NEW resolved \in SUBSET due,
             mem' = Attempted(mem, due, resolved, clock),
             events' = events \cup {<<"resolved", t, clock>> : t \in resolved}
      PROVE  TypeInv'
  <2>1. Dict(mem')
    BY <1>4, <1>9, AttemptedDict
  <2>2. events' \subseteq Event
    BY <1>9 DEF Event
  <2> QED BY <1>2, <2>1, <2>2
<1>10. CASE ResolvePairs
  BY <1>5, <1>9, <1>10 DEF ResolvePairs
<1> QED BY <1>7, <1>8, <1>10

\* Its writes.
LEMMA TypeWrite ==
  ASSUME TypeInv, AppendRun \/ SaveState \/ SaveStatus \/ RefreshArchive \/ LoseCycle
  PROVE  TypeInv'
<1> USE DEF TypeInv, TypeOK, CycleSteps
<1>1. CASE AppendRun
  <2>1. <<mem.runs, mem.lastRun>> \in Nat \X Times
    BY StateFields
  <2> QED BY <1>1, <2>1 DEF AppendRun, readerVars
<1>2. CASE SaveState
  <2>1. mem.cursor + Take \in Nat
    BY StateFields, DiscoveryAssumption
  <2>2. Dict(mem') /\ saved' = mem'
    BY <1>2, <2>1, OtherFields DEF SaveState, Dict
  <2> QED BY <1>2, <2>2 DEF SaveState, Dict, readerVars
<1>3. CASE SaveStatus
  BY <1>3 DEF SaveStatus, readerVars
<1>4. CASE RefreshArchive
  <2>1. PICK qualified \in SUBSET Window : UpdateArchive(qualified)
    BY <1>4 DEF RefreshArchive
  <2>2. archive' \in [Tokens -> Row]
    <3>1. \A t \in Tokens : /\ [archive[t] EXCEPT !.current = FALSE] \in Row
                            /\ [last |-> clock, current |-> TRUE] \in Row
      BY DEF Row
    <3> QED BY <2>1, <3>1 DEF UpdateArchive
  <2> QED BY <1>4, <2>2, InitialDict DEF RefreshArchive, Dict, readerVars
<1>5. CASE LoseCycle
  <2>1. lost' \in 0..MaxLost
    BY <1>5, DiscoveryAssumption DEF LoseCycle
  <2> QED BY <1>5, <2>1, InitialDict DEF LoseCycle, Dict, readerVars
<1> QED BY <1>1, <1>2, <1>3, <1>4, <1>5

\* The readers' steps.
LEMMA TypeRead ==
  ASSUME TypeInv, NEW r \in Readers, ReaderStep(r)
  PROVE  TypeInv'
<1> USE DEF TypeInv, TypeOK, ReaderSteps, cycleVars
<1>0. 0 \in Times
  BY DiscoveryAssumption DEF Times
<1>1. CASE ReadStatus(r)
  BY <1>1 DEF ReadStatus
<1>2. CASE CheckGeneration(r)
  BY <1>0, <1>2 DEF CheckGeneration, Leave
<1>3. CASE ReadRows(r)
  BY <1>0, <1>3 DEF ReadRows, Leave
<1> QED BY <1>1, <1>2, <1>3 DEF ReaderStep

\* Every step keeps the type.
LEMMA TypeStep == TypeInv /\ [Next]_vars => TypeInv'
<1> SUFFICES ASSUME TypeInv, [Next]_vars PROVE TypeInv'
  OBVIOUS
<1>1. ASSUME NEW now \in Times, StartCycle(now) PROVE TypeInv'
  BY <1>1, TypeStart
<1>2. CASE CycleStep \/ LoseCycle
  BY <1>2, TypeWork, TypeWrite DEF CycleStep
<1>3. ASSUME NEW r \in Readers, ReaderStep(r) PROVE TypeInv'
  BY <1>3, TypeRead
<1>4. CASE WebRestart
  <2>1. 0 \in Times
    BY DiscoveryAssumption DEF Times
  <2> QED BY <1>4, <2>1 DEF WebRestart, cycleVars, TypeInv, TypeOK, ReaderSteps
<1>5. CASE UNCHANGED vars
  BY <1>5 DEF vars, cycleVars, readerVars, TypeInv, TypeOK
<1> QED BY <1>1, <1>2, <1>3, <1>4, <1>5 DEF Next

\* The initial state has its types.
LEMMA TypeInit == Init => TypeInv
<1> SUFFICES ASSUME Init PROVE TypeInv
  OBVIOUS
<1>1. 0 \in Times /\ 0 \in 0..MaxLost
  BY DiscoveryAssumption DEF Times
<1> QED BY <1>1, InitialDict
        DEF Init, TypeInv, TypeOK, Dict, CycleSteps, ReaderSteps, Row

\* Every reachable state of a collector and its readers is of its type: the
\* state dictionaries hold their candidates in one order, and no pair is
\* attempted more often than the schedule says (candidate_due).
THEOREM TypeCorrect == Spec => []TypeOK
<1>1. TypeInv => TypeOK
  BY DEF TypeInv
<1> QED BY <1>1, TypeInit, TypeStep, PTL DEF Spec

-----------------------------------------------------------------------------
(* The rotation.  How far a pool is ahead of the cursor falls by Take with *)
(* every scan that passes it over, so that the scans it still has to wait  *)
(* and those it has waited never make more than a round.                   *)

\* Of numbers below twice a modulus.
LEMMA ModSmall ==
  ASSUME NEW n \in Nat \ {0}, NEW x \in 0 .. (2 * n - 1)
  PROVE  x % n = IF x < n THEN x ELSE x - n
<1>1. /\ x = n * (x \div n) + (x % n) /\ x % n \in 0 .. (n - 1)
      /\ x \div n \in Int
  OBVIOUS
<1> DEFINE q == x \div n
<1> DEFINE r == x % n
<1> HIDE DEF q, r
<1>2. x = n * q + r /\ r \in 0 .. (n - 1) /\ q \in Int
  BY <1>1 DEF q, r
<1>3. q >= 0
  <2> SUFFICES ASSUME q <= -1 PROVE FALSE
    BY <1>2
  <2>1. n * q <= -n
    BY <1>2
  <2> QED BY <1>2, <2>1
<1>4. q <= 1
  <2> SUFFICES ASSUME q >= 2 PROVE FALSE
    BY <1>2
  <2>1. n * q >= 2 * n
    BY <1>2
  <2> QED BY <1>2, <2>1
<1>5. q = 0 \/ q = 1
  BY <1>2, <1>3, <1>4
<1>6. n * 0 = 0 /\ n * 1 = n
  OBVIOUS
<1>7. r = IF x < n THEN x ELSE x - n
  BY <1>2, <1>5, <1>6
<1> QED BY <1>7 DEF r

\* The remainder is the one below the modulus.
LEMMA ModUnique ==
  ASSUME NEW n \in Nat \ {0}, NEW k \in Nat, NEW y \in 0 .. (n - 1), NEW x \in Nat,
         x = n * k + y
  PROVE  x % n = y
<1> DEFINE q == x \div n
<1> DEFINE r == x % n
<1>1. x = n * q + r /\ r \in 0 .. (n - 1) /\ q \in Int
  OBVIOUS
<1> HIDE DEF q, r
<1>2. PICK d \in Int : d = q - k
  BY <1>1
<1>3. n * d = n * q - n * k
  BY <1>1, <1>2
<1>4. n * d = y - r
  BY <1>1, <1>3
<1>5. d < 1
  <2> SUFFICES ASSUME d >= 1 PROVE FALSE
    BY <1>2
  <2>1. n * d >= n
    BY <1>2
  <2> QED BY <1>1, <1>4, <2>1
<1>6. d > -1
  <2> SUFFICES ASSUME d <= -1 PROVE FALSE
    BY <1>2
  <2>1. n * d <= -n
    BY <1>2
  <2> QED BY <1>1, <1>4, <2>1
<1>7. n * d = 0
  BY <1>2, <1>5, <1>6
<1>8. r = y
  BY <1>1, <1>4, <1>7
<1> QED BY <1>8 DEF r

\* How far the place r of n is ahead of a cursor.
Dist(n, r, cursor) == (r + n - (cursor % n)) % n

\* The same place, from a cursor and from one a few places further on.
LEMMA Turn ==
  ASSUME NEW n \in Nat \ {0}, NEW r \in 0 .. (n - 1), NEW start \in Nat, NEW take \in Nat,
         NEW later, later = start + take, take <= Dist(n, r, start)
  PROVE  /\ Dist(n, r, start) \in 0 .. (n - 1)
         /\ Dist(n, r, later) = Dist(n, r, start) - take
<1> DEFINE d == Dist(n, r, start)
<1> DEFINE k == start \div n
<1> DEFINE s == start % n
<1>1. start = n * k + s /\ s \in 0 .. (n - 1) /\ k \in Nat
  <2>1. start = n * k + s /\ s \in 0 .. (n - 1) /\ k \in Int
    OBVIOUS
  <2>2. k >= 0
    <3> HIDE DEF k, s
    <3> SUFFICES ASSUME k <= -1 PROVE FALSE
      BY <2>1
    <3>1. n * k <= -n
      BY <2>1
    <3> QED BY <2>1, <3>1
  <2> QED BY <2>1, <2>2
<1>2. d = (r + n - s) % n /\ take <= d
  BY DEF Dist
<1> HIDE DEF k, s, d
<1>3. d = IF r < s THEN r + n - s ELSE r - s
  <2>1. r + n - s \in 0 .. (2 * n - 1)
    BY <1>1
  <2>2. d = IF r + n - s < n THEN r + n - s ELSE (r + n - s) - n
    BY <1>2, <2>1, ModSmall
  <2> QED BY <1>1, <2>2
<1>4. d \in 0 .. (n - 1)
  BY <1>1, <1>3
<1> DEFINE e == IF s + take < n THEN s + take ELSE s + take - n
<1>5. e \in 0 .. (n - 1)
  BY <1>1, <1>2, <1>4
<1>6. (start + take) % n = e
  <2>1. CASE s + take < n
    <3>1. start + take = n * k + e
      BY <1>1, <2>1
    <3> HIDE DEF e
    <3> QED BY <1>1, <1>5, <3>1, ModUnique
  <2>2. CASE ~ (s + take < n)
    <3>1. n * (k + 1) = n * k + n
      BY <1>1
    <3>2. PICK j \in Nat : j = k + 1
      BY <1>1
    <3>3. start + take = n * j + e
      BY <1>1, <2>2, <3>1, <3>2
    <3> HIDE DEF e
    <3>4. e \in 0 .. (n - 1) /\ start + take \in Nat
      BY <1>5
    <3>5. PICK x, y : x = start + take /\ y = e
      OBVIOUS
    <3>6. x % n = y
      <4>1. j \in Nat /\ x \in Nat /\ y \in 0 .. (n - 1) /\ x = n * j + y
        BY <3>2, <3>3, <3>4, <3>5
      <4> QED BY <4>1, ModUnique
    <3> QED BY <3>5, <3>6
  <2> QED BY <2>1, <2>2
<1>7. (r + n - e) % n = IF r < e THEN r + n - e ELSE r - e
  <2> HIDE DEF e
  <2>1. r + n - e \in 0 .. (2 * n - 1)
    BY <1>5
  <2>2. (r + n - e) % n = IF r + n - e < n THEN r + n - e ELSE (r + n - e) - n
    BY <2>1, ModSmall
  <2> QED BY <1>5, <2>2
<1>8. (IF r < e THEN r + n - e ELSE r - e) = d - take
  BY <1>1, <1>2, <1>3, <1>4
<1> HIDE DEF e
<1>9. Dist(n, r, later) = (r + n - e) % n
  BY <1>6 DEF Dist
<1> QED BY <1>4, <1>7, <1>8, <1>9 DEF d

\* How many places a pool is ahead of a cursor, in a ranking.
Far(ranks, t, start) == Dist(Cardinality(DOMAIN ranks), ranks[t], start)

\* Where the next scan starts.
NextStart == IF pc \in {"status", "scan"} THEN saved.cursor - Take ELSE saved.cursor

InTurn(t) ==
  \/ passed[t] = 0
  \/ /\ t \in DOMAIN list
     /\ Far(list, t, NextStart) + passed[t] * Take < Cardinality(DOMAIN list)

RotationInvariant ==
  /\ pc # "idle" => mem.cursor = saved.cursor
  /\ pc \in {"status", "scan"} => saved.cursor >= Take
  /\ passed \in [Tokens -> Nat]
  /\ \A t \in Tokens : passed[t] # 0 =>
       /\ DOMAIN list \subseteq Tokens
       /\ \A u \in DOMAIN list : list[u] \in 0 .. (Cardinality(DOMAIN list) - 1)
  /\ \A t \in Tokens : InTurn(t)

\* A pool's rank is a place among the pools.
LEMMA RankBelow ==
  ASSUME NEW s, Dict(s), NEW t \in Pools(s)
  PROVE  /\ DOMAIN Rank(s) = Pools(s) /\ Pools(s) \subseteq Tokens
         /\ Cardinality(Pools(s)) \in Nat \ {0}
         /\ Rank(s)[t] \in 0 .. (Cardinality(Pools(s)) - 1)
<1> DEFINE ahead == {u \in Pools(s) : Ahead(s, u, t)}
<1>1. Pools(s) \subseteq Tokens /\ IsFiniteSet(Pools(s))
  BY DiscoveryAssumption, FS_Subset DEF Pools
<1>2. DOMAIN Rank(s) = Pools(s) /\ Rank(s)[t] = Cardinality(ahead)
  BY DEF Rank
<1>3. ~ Ahead(s, t, t)
  <2>1. s.cands[t].last \in Nat
    BY <1>1, StateFields, DiscoveryAssumption DEF Dict, Candidate, Times
  <2>2. <<t, t>> \notin s.before
    BY DEF Dict, InOrder
  <2> QED BY <2>1, <2>2 DEF Ahead
<1>4. ahead \subseteq Pools(s) \ {t}
  BY <1>3
<1> HIDE DEF ahead
<1>5. /\ IsFiniteSet(Pools(s) \ {t})
      /\ Cardinality(Pools(s) \ {t}) = Cardinality(Pools(s)) - 1
      /\ Cardinality(Pools(s)) \in Nat /\ Cardinality(Pools(s) \ {t}) \in Nat
  BY <1>1, FS_RemoveElement, FS_CardinalityType
<1>6. Cardinality(ahead) \in Nat /\ Cardinality(ahead) <= Cardinality(Pools(s) \ {t})
  BY <1>4, <1>5, FS_Subset, FS_CardinalityType
<1> QED BY <1>1, <1>2, <1>5, <1>6

\* A scan that passes a pool over brings the cursor Take places nearer.
LEMMA PassedOver ==
  ASSUME NEW s, Dict(s), NEW start \in Nat, NEW t \in Pools(s), t \notin Selected(s, start)
  PROVE  /\ Far(Rank(s), t, start) \in 0 .. (Cardinality(Pools(s)) - 1)
         /\ Far(Rank(s), t, start + Take) = Far(Rank(s), t, start) - Take
<1> DEFINE n == Cardinality(Pools(s))
<1> DEFINE r == Rank(s)[t]
<1>1. DOMAIN Rank(s) = Pools(s) /\ n \in Nat \ {0} /\ r \in 0 .. (n - 1)
  BY RankBelow
<1>2. ~ (Dist(n, r, start) < Take)
  BY DEF Selected, Dist
<1>3. Far(Rank(s), t, start) = Dist(n, r, start)
      /\ Far(Rank(s), t, start + Take) = Dist(n, r, start + Take)
  BY <1>1 DEF Far
<1> HIDE DEF n, r
<1>4. Dist(n, r, start) \in 0 .. (n - 1)
  <2>1. start % n \in 0 .. (n - 1)
    BY <1>1
  <2>2. r + n - (start % n) \in Int
    BY <1>1, <2>1
  <2> QED BY <1>1, <2>2 DEF Dist
<1>5. Take \in Nat /\ Take <= Dist(n, r, start)
  BY <1>1, <1>2, <1>4, DiscoveryAssumption
<1>6. Dist(n, r, start + Take) = Dist(n, r, start) - Take
  BY <1>1, <1>5, Turn
<1> QED BY <1>3, <1>4, <1>6 DEF n

\* A scan counts the pools it passes over, and the cursor has moved on.
LEMMA ScanRotates ==
  ASSUME TypeInv, RotationInvariant, RefreshArchive, list' = Rank(mem),
         passed' = [t \in Tokens |->
           IF t \notin Pools(mem) \/ t \in Window THEN 0
           ELSE IF list = Rank(mem) THEN passed[t] + 1 ELSE 1]
  PROVE  RotationInvariant'
<1> DEFINE start == mem.cursor - Take
<1> DEFINE n == Cardinality(Pools(mem))
<1>1. Dict(mem) /\ mem.cursor \in Nat /\ Take \in Nat \ {0}
  BY StateFields, DiscoveryAssumption DEF TypeInv, TypeOK, Dict
<1>2. /\ pc = "scan" /\ pc' = "idle" /\ saved' = saved /\ saved.cursor = mem.cursor
      /\ saved.cursor >= Take
  BY DEF RefreshArchive, RotationInvariant
<1>3. start \in Nat /\ NextStart = start /\ NextStart' = start + Take
  BY <1>1, <1>2 DEF NextStart
<1>4. passed' \in [Tokens -> Nat]
  BY DEF RotationInvariant
<1>5. DOMAIN Rank(mem) = Pools(mem) /\ Pools(mem) \subseteq Tokens
  BY DEF Rank, Pools
<1>6. \A u \in Pools(mem) : Rank(mem)[u] \in 0 .. (n - 1)
  BY <1>1, RankBelow
<1>7. ASSUME NEW t \in Tokens, passed'[t] # 0
      PROVE  InTurn(t)'
  <2>1. t \in Pools(mem) /\ t \notin Selected(mem, start)
    BY <1>7 DEF Window
  <2>2. passed'[t] = IF list = Rank(mem) THEN passed[t] + 1 ELSE 1
    BY <2>1 DEF Window
  <2> DEFINE d == Far(Rank(mem), t, start)
  <2>3. d \in 0 .. (n - 1) /\ Far(Rank(mem), t, start + Take) = d - Take
    BY <1>1, <1>3, <2>1, PassedOver
  <2>4. n \in Nat
    BY <1>1, <2>1, RankBelow
  <2> HIDE DEF d, n, start
  <2>5. d + (passed'[t] - 1) * Take < n
    <3>1. CASE list = Rank(mem) /\ passed[t] # 0
      <4>1. InTurn(t)
        BY DEF RotationInvariant
      <4>2. Far(list, t, NextStart) + passed[t] * Take < Cardinality(DOMAIN list)
        BY <3>1, <4>1 DEF InTurn
      <4>3. d + passed[t] * Take < n
        BY <1>3, <1>5, <3>1, <4>2 DEF d, n
      <4>4. passed'[t] - 1 = passed[t]
        BY <2>2, <3>1 DEF RotationInvariant
      <4> QED BY <4>3, <4>4
    <3>2. CASE list # Rank(mem) \/ passed[t] = 0
      <4>1. passed'[t] = 1
        BY <2>2, <3>2
      <4>2. (passed'[t] - 1) * Take = 0
        BY <1>1, <4>1
      <4> QED BY <2>3, <2>4, <4>2
    <3> QED BY <3>1, <3>2
  <2>6. (d - Take) + passed'[t] * Take = d + (passed'[t] - 1) * Take
    BY <1>1, <1>4, <2>3
  <2>7. Far(list', t, NextStart') + passed'[t] * Take < n
    BY <1>3, <2>3, <2>5, <2>6
  <2> QED BY <1>5, <2>1, <2>7 DEF InTurn, n
<1>8. \A t \in Tokens : InTurn(t)'
  BY <1>7 DEF InTurn
<1> HIDE DEF n
<1> QED BY <1>2, <1>4, <1>5, <1>6, <1>8 DEF RotationInvariant, n

\* Every step keeps the pools in turn.
LEMMA RotationStep ==
  ASSUME TypeInv, RotationInvariant, [RotationNext]_rotationVars
  PROVE  RotationInvariant'
<1>0. /\ saved.cursor \in Nat /\ mem.cursor \in Nat /\ Take \in Nat \ {0}
  BY StateFields, DiscoveryAssumption DEF TypeInv, TypeOK
<1>1. ASSUME UNCHANGED <<list, passed>>, NextStart' = NextStart,
             pc' # "idle" => mem'.cursor = saved'.cursor,
             pc' \in {"status", "scan"} => saved'.cursor >= Take
      PROVE  RotationInvariant'
  BY <1>1 DEF RotationInvariant, InTurn, Far
<1>2. ASSUME UNCHANGED <<list, passed, saved>>,
             mem'.cursor = mem.cursor, pc # "idle",
             pc' \in {"status", "scan"} <=> pc \in {"status", "scan"}
      PROVE  RotationInvariant'
  BY <1>1, <1>2 DEF NextStart, RotationInvariant
<1>3. ASSUME list' = << >>, passed' = NoPass, pc' = "idle" PROVE RotationInvariant'
  BY <1>3 DEF RotationInvariant, NoPass, InTurn
<1>4. CASE UNCHANGED rotationVars
  <2>1. UNCHANGED <<list, passed, saved, mem, pc>>
    BY <1>4 DEF rotationVars, vars, cycleVars
  <2> QED BY <1>1, <2>1 DEF NextStart, RotationInvariant
<1>5. CASE RotationNext
  <2> DEFINE Same == UNCHANGED <<list, passed>>
  <2>1. (~ (pc = "scan" /\ pc' = "idle") /\ lost' = lost) => Same
    BY <1>5 DEF RotationNext
  <2>2. ASSUME NEW now \in Times, StartCycle(now) PROVE RotationInvariant'
    <3>1. /\ pc = "idle" /\ pc' = "birdeye" /\ saved' = saved /\ lost' = lost
          /\ mem' = [Pruned(saved, now) EXCEPT !.runs = @ + 1, !.lastRun = now]
      BY <2>2 DEF StartCycle
    <3>2. Pruned(saved, now) \in State /\ Pruned(saved, now).cursor = saved.cursor
      BY PrunedDict DEF TypeInv, TypeOK, Dict
    <3>3. mem'.cursor = saved.cursor
      BY <3>1, <3>2 DEF State
    <3> QED BY <1>1, <2>1, <3>1, <3>3 DEF NextStart
  <2>3. ASSUME AskBirdeye \/ AskProfiles \/ ResolvePairs PROVE RotationInvariant'
    <3>1. /\ pc \in {"birdeye", "profiles", "pairs"} /\ pc' \in {"profiles", "pairs", "log"}
          /\ saved' = saved /\ lost' = lost
      BY <2>3 DEF AskBirdeye, AskProfiles, ResolvePairs, Work
    <3>2. Dict(mem) /\ mem \in State /\ clock \in Times /\ clock # 0
      BY <3>1 DEF TypeInv, TypeOK, Dict
    <3>3. \A s, recs : /\ Dict(s) /\ recs \in Answers /\ s.cursor = mem.cursor
                       /\ MergeDiscovery(s, recs)
                       => mem'.cursor = mem.cursor
      BY <3>2, MergedDict DEF MergeDiscovery
    <3>4. /\ Dict([mem EXCEPT !.retryAt = 0])
          /\ [mem EXCEPT !.retryAt = 0].cursor = mem.cursor
          /\ [mem EXCEPT !.retryAt = clock + Cooldown].cursor = mem.cursor
      BY <3>2, OtherFields DEF State
    <3>6. ASSUME AskBirdeye PROVE mem'.cursor = mem.cursor
      <4>1. mem' = [mem EXCEPT !.retryAt = clock + Cooldown] => mem'.cursor = mem.cursor
        BY <3>4
      <4>2. ASSUME NEW recs \in Answers, MergeDiscovery([mem EXCEPT !.retryAt = 0], recs)
            PROVE  mem'.cursor = mem.cursor
        <5> DEFINE s == [mem EXCEPT !.retryAt = 0]
        <5>1. Dict(s) /\ s.cursor = mem.cursor /\ MergeDiscovery(s, recs)
          BY <3>4, <4>2
        <5> HIDE DEF s
        <5> QED BY <3>3, <5>1
      <4> QED BY <3>6, <4>1, <4>2 DEF AskBirdeye
    <3>7. ASSUME AskProfiles PROVE mem'.cursor = mem.cursor
      <4>1. ASSUME NEW recs \in Answers, MergeDiscovery(mem, recs)
            PROVE  mem'.cursor = mem.cursor
        BY <3>2, <3>3, <4>1
      <4> QED BY <3>7, <4>1 DEF AskProfiles
    <3>9. ASSUME ResolvePairs PROVE mem'.cursor = mem.cursor
      <4>1. ASSUME NEW due, due = {t \in Tokens : Due(mem.cands[t], clock)},
                   NEW resolved \in SUBSET due, mem' = Attempted(mem, due, resolved, clock)
            PROVE  mem'.cursor = mem.cursor
        BY <3>2, <4>1, AttemptedDict
      <4> QED BY <3>9, <4>1 DEF ResolvePairs
    <3>8. mem'.cursor = mem.cursor
      BY <2>3, <3>6, <3>7, <3>9
    <3> QED BY <1>2, <2>1, <3>1, <3>8
  <2>4. ASSUME AppendRun \/ SaveStatus PROVE RotationInvariant'
    BY <1>2, <2>1, <2>4 DEF AppendRun, SaveStatus
  <2>5. ASSUME SaveState PROVE RotationInvariant'
    <3>1. /\ pc = "save" /\ pc' = "status" /\ lost' = lost
          /\ saved' = mem' /\ mem' = [mem EXCEPT !.cursor = mem.cursor + Take]
      BY <2>5 DEF SaveState
    <3>2. mem'.cursor = mem.cursor + Take /\ mem.cursor = saved.cursor
      BY <3>1 DEF TypeInv, TypeOK, State, RotationInvariant
    <3> QED BY <1>0, <1>1, <2>1, <3>1, <3>2 DEF NextStart
  <2>6. ASSUME RefreshArchive PROVE RotationInvariant'
    <3>1. pc = "scan" /\ pc' = "idle" /\ lost' = lost
      BY <2>6 DEF RefreshArchive
    <3> QED BY <1>5, <2>6, <3>1, ScanRotates DEF RotationNext
  <2>7. ASSUME LoseCycle PROVE RotationInvariant'
    <3>1. /\ pc # "idle" /\ pc' = "idle" /\ saved' = saved /\ lost' # lost
      BY <2>7 DEF LoseCycle, TypeInv, TypeOK
    <3>2. CASE pc \in {"status", "scan"}
      BY <1>3, <1>5, <3>1, <3>2 DEF RotationNext
    <3>3. CASE pc \notin {"status", "scan"}
      BY <1>1, <1>5, <3>1, <3>3 DEF RotationNext, NextStart
    <3> QED BY <3>2, <3>3
  <2>8. ASSUME (\E r \in Readers : ReaderStep(r)) \/ WebRestart PROVE RotationInvariant'
    <3>1. UNCHANGED <<pc, mem, saved, lost>>
      BY <2>8 DEF ReaderStep, ReadStatus, CheckGeneration, ReadRows, WebRestart, cycleVars
    <3> QED BY <1>1, <2>1, <3>1 DEF NextStart, RotationInvariant
  <2>9. Next
    BY <1>5 DEF RotationNext
  <2> QED BY <2>2, <2>3, <2>4, <2>5, <2>6, <2>7, <2>8, <2>9 DEF Next, CycleStep
<1> QED BY <1>4, <1>5

\* While the ranking of the pools stays what it is, no pool is passed over by
\* more scans in a row than a round has windows: for any number of pools,
\* any take, and cursors that processes hand on in state.json (main:
\* rotation_start, qualify_discovery_candidates).
THEOREM NoPoolStarves == RotationSpec => []EveryPoolInTurn
<1> DEFINE RInv == TypeInv /\ RotationInvariant
<1>1. RotationInit => RInv
  <2>1. RotationInit => TypeInv
    BY TypeInit DEF RotationInit
  <2>2. RotationInit => RotationInvariant
    BY DEF RotationInit, RotationInvariant, Init, NoPass, InTurn
  <2> QED BY <2>1, <2>2
<1>2. RInv /\ [RotationNext]_rotationVars => RInv'
  <2>1. [RotationNext]_rotationVars => [Next]_vars
    BY DEF RotationNext, rotationVars
  <2> QED BY <2>1, TypeStep, RotationStep
<1>3. RInv => EveryPoolInTurn
  <2> SUFFICES ASSUME RInv, NEW t \in Tokens, passed[t] # 0
               PROVE  passed[t] * Take < Cardinality(DOMAIN list)
    BY DEF EveryPoolInTurn
  <2> DEFINE n == Cardinality(DOMAIN list)
  <2>1. /\ t \in DOMAIN list /\ Far(list, t, NextStart) + passed[t] * Take < n
        /\ DOMAIN list \subseteq Tokens /\ list[t] \in 0 .. (n - 1)
    BY DEF RotationInvariant, InTurn
  <2>2. n \in Nat \ {0}
    BY <2>1, DiscoveryAssumption, FS_Subset, FS_CardinalityType
  <2>3. NextStart \in Nat /\ passed[t] * Take \in Nat
    BY StateFields, DiscoveryAssumption
       DEF TypeInv, TypeOK, RotationInvariant, NextStart
  <2>4. Far(list, t, NextStart) = (list[t] + n - (NextStart % n)) % n
    BY DEF Far, Dist
  <2> HIDE DEF n
  <2>5. Far(list, t, NextStart) \in Nat
    <3>1. NextStart % n \in 0 .. (n - 1)
      BY <2>2, <2>3
    <3>2. list[t] + n - (NextStart % n) \in Int
      BY <2>1, <2>2, <3>1
    <3> QED BY <2>2, <2>4, <3>2
  <2>6. passed[t] * Take < n
    BY <2>1, <2>2, <2>3, <2>5
  <2> QED BY <2>6 DEF n
<1> QED BY <1>1, <1>2, <1>3, PTL DEF RotationSpec
=============================================================================
