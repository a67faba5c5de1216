# DexSato: TLA+ specifications and proofs

DexSato is a Python web service that watches Solana markets, shows detected
signals to visitors under a quota, prepares and relays Jupiter swaps, claims its
referral fees with operator-run command-line tools, and sends alerts over
Telegram.  This directory holds TLA+ models of the parts of it whose correctness
depends on the order of events: several callers, files without locks, crashes,
lost answers, clocks.  TLC checks them on small instances and TLAPS proves the
most important theorems for every instance.

    tlc -workers 2 -config swap.cfg MCJupiterSwap.tla
    tlapm JupiterSwapProofs.tla

All paths below are relative to `src/`.

## 1. Inventory of the system

Files of `application/` are given without the directory.

| Component | State | Operations | Interacts with | What is hard, and what makes it correct |
|---|---|---|---|---|
| **Redis pending-order store** `jupiter_pending_store.py` | four sorted sets of members with an expiry; keys `reservation:`, `pending:`, `execute:` with a time to live | Lua scripts reserve, release reservation, commit, begin, release and complete an execution | called by the swap service of any replica | admission counts sorted sets by the *caller's* clock while keys expire by *Redis's*; limits must hold, no slot may leak, an order is bound to one signed transaction, a lock is given back by its owner only |
| **Swap service** `jupiter_swap_service.py` | pending orders (Redis, or dictionaries under `_pending_lock`) | `prepare_jupiter_swap`, `execute_jupiter_swap` | store, one-shot gate, Jupiter's HTTP API, wallet in the browser | retries, lapsed locks, lost and late answers, crashes between any two effects; never two transactions of one order, never again after it was confirmed |
| **One-shot swap gate** `jupiter_one_shot_swap_gate.py`, `jupiter_one_shot_receipt.py` | one JSON file and its temporary | arm, require_armed, bind, consume, record, verify | operator, swap service, chain | read-decide-replace without a lock; a single approved transaction, status only forward |
| **ClaimV2 gate** `jupiter_claim_v2_one_shot_gate.py`, `_live_approval`, `_submission`, `_controlled_execution`, `_receipt`, `_wallet_boundary`, `_jit_handoff` | one JSON file and its temporary | arm, retire, bind, approve, inspect, reserve, submit, record, verify | operator's commands, Solana RPC | the same, with two expiries and slow RPC calls between checks and writes; one submission at most, approved in time, spent for good |
| **ClaimV2 evidence and simulation** `jupiter_claim_v2_*` (the others) | evidence files written once | capture, bind, simulate, close | the gate | pure validation |
| **Fee decoders and simulations** `jupiter_fee_*`, `jupiter_*_decoder`, ... | none | functions over captured bytes | - | pure |
| **Detected-signal quota** `product_signal_quota_store.py`, `product_signal_entitlement.py` | JSON ledger of (subject, signal, time) | admit: load, prune, admit, replace | root page handler (`app/main.py:355-407`), threads of one server | clock read before the lock; failing disk; a rolling limit, nothing shown uncounted |
| **Rate limiter** `token_workspace_rate_limit.py` | buckets in memory or sorted sets in Redis | check over several keys at once | HTTP middleware (`:543-592`) | all or nothing over keys; repeated commands and late scripts; bucket cap |
| **Collector and scheduler** `collector_scheduler.py`, `research/continuous_discovery_runtime.py` | lock file, `state.json`, `candidate-events.jsonl`, `runs.jsonl` | one cycle per interval in a subprocess; acquire lock, merge, resolve pairs, save | providers; web server reads its files | stale-lock takeover, kill on timeout, crash between append and save, quota cooldown |
| **Discovery feed and qualification** `solana_discovery_*` | archive (SQLite), cached generation | rank, rotate, qualify, refresh, read | collector's files | status, archive and cache are read at three times; the cursor of the rotation passes from process to process |
| **Founder automation** `founder_scheduler.py`, `generate_snapshot.py`, `change_detector.py`, `telegram_notifier.py` | latest snapshot file, latest run | load previous, generate, compare, send, fan out | scanner, Telegram, linking | snapshot replaced before its changes are delivered; a run may die anywhere |
| **Telegram linking and customer alerts** `telegram_*`, `supabase_telegram_*`, `supabase/migrations` | link requests and links (SQL) | issue, redeem, dispatch | Supabase, Telegram | concurrent and repeated redemption; entitlement read right before each send |
| **Identity and entitlement** `product_*`, `supabase_product_*` | sessions and subscriptions in Supabase | sign in, resolve | routes | delegated, or pure |
| **Market feeds and stores** `jupiter_market_feed_service.py`, `recent_market_store.py`, `ranked_market_feed_store.py`, `presenter_metrics_store.py` | caches with a lock each, a barrier per load, files of last known good rows | load, restore, serve stale, refresh in the background, save | providers, pages | loaders of one load wait for each other; age limits over restarts and failed refreshes |
| **Scanner, adaptive history** `scanner/`, `adaptive/` | Supabase tables | one sequential pass | founder automation | pure rules |
| **Content control, web application, presentation, operating tools** | admin session, platform state | drafts, routes, HTML, Windows tasks | everything above | I/O and wording |

`PROJECT.json` repeats this list with the status of each component, and names
under `hazards` every place where something can go wrong that a test would
hardly reach, with the properties that watch it.

## 2. Modules

| Module | Models |
|---|---|
| `JupiterPendingStore` | the Redis store: one action per outcome of each Lua script, and key expiry |
| `OneShotSwapGate` | the one-shot gate file: what each operation requires and writes, and the two steps of `_write` |
| `JupiterSwap` | composes both (EXTENDS the store, INSTANCE of the gate) with the program counters of preparing and executing calls, the receipt verifier, the provider, crashes and time |
| `ClaimGate` | the claim gate file and the commands on it |
| `SignalQuota` | the quota ledger and the page threads on it |
| `SlidingWindow` | what a rate limiter promises: the abstract specification |
| `RateLimiter` | the limiter on dictionaries or on Redis, shown to implement `SlidingWindow` |
| `CollectorSupervisor` | the scheduler, the collector processes and the lock file they share |
| `DiscoveryCollector` | what a cycle writes, in which order, and the web process that reads it |
| `PoolRotation` | EXTENDS it with the history of the scans: how often in a row each pool was passed over |
| `TelegramLink` | link codes and their redemption |
| `FounderAutomation` | a scheduled run from the previous snapshot to the last customer's alert; EXTENDS `TelegramLink` |
| `RankedFeeds` | the caches, loads, barrier, file and background refresh of the ranked market feeds |
| `MC...` | small instances for TLC: symmetry and sets of numbers |
| `...Proofs` | theorems with their proofs |

A mutant is an operator beside the definition it would replace, with a comment
that begins "Mutant:"; no behaviour of the models uses one.

### JupiterPendingStore, OneShotSwapGate, JupiterSwap

A Lua script is atomic in Redis, therefore one action.  Its verdict
(`ReserveVerdict`, `CommitVerdict`, `BeginVerdict`) is an operator over the
pruned sets in the order the script tests.  `index` gives each sorted set as a
function from members to scores, 0 for no member.  The caller's reading `t` of
the clock prunes and scores; keys end by the clock of Redis, `now`.  `Clocks` is
what a replica's clock may show: up to `ClockLag` behind Redis, up to
`ClockLead` ahead, another value at every reading.  `reserve` scores by the
reading of line 220 of the store.  A commit uses the one taken when the
provider's answer came (`jupiter_swap_service.py:1139`): it is carried in
`prep[p].read` over the answer's checks and the gate's binding, however long
these take.

A call stops between any two of its effects on shared state.  `prep[p]` steps
through reserve, (provider's) order, bind, commit, and abort with release;
`exec[e]` through begin, consume, post, waiting, complete, record, or release.
The gate file's operations take three steps each - read and decide, create the
temporary file exclusively, rename - and write back the copy that was read, as
the code does.  A lost reply of a script has the effect of a crash after the
script: the call ends, its effect stays.

The provider gives out new request ids; with `RepeatIds` it may also give one out
again, for an order that is still pending (`DUPLICATE_REQUEST`) or for a new one
after it is gone.  An `AnswerFailed` ends the call and leaves order and lock,
because line 1320 of `jupiter_swap_service.py` assigns to an attribute that the
Redis order does not have.  Ghost variables: `issued` and `repeated` (ids given
out, and given out again), `sent` (what was posted), `settled` (final answers
taken in) and `late`; no guard of the code reads them, `issued` only says which
ids are new.

`late` holds "slot" once a preparing call has outlived its reservation, and
"lock" once a one-shot execution has outlived its lock; it never forgets.  A
reservation counts as outlived as soon as the fastest clock of a replica may
take its place in the sorted sets for expired.  Its key may live on for up to
`ClockLag + ClockLead`, and commit asks for the key only.

Abstracted: validation of addresses, amounts, fee policy and transactions (a
call that fails one before its first effect has no effect; a call that fails one
after is `OrderRefused`), the bytes of messages, the fixed binding of the gate
to one wallet and token.

### ClaimGate

One gate file.  `gate_id` and the closure's hashes, mint, accounts and amounts
are written once by `arm` and compared everywhere; with one file all those
comparisons succeed, and they are not fields.  Each command is a process: `arm`
(create, then write), `retire`, `bind` (two readings of the gate,
`wallet_boundary.py:74` and `:110`), `approve`, `submit` (inspect, genesis,
reserve, post, answer, record) and `verify` (read, fetch, write).
`bind_and_approve_fresh` is a bind and an approve by one command.  `write_gate`
is `TempExists`, `TempOpen` (which may fail), `Replace`, with `WriteFails` for a
full disk or, on Windows, a rename refused while a reader has the file open.  A command reads the
clock when it reads the gate; the code passes one reading taken slightly
earlier, and the expiries are compared at that reading in both.
`PostTransaction` may or may not land on the chain (`landed`).  `granted` and
`posted` are ghosts: the approvals ever written, and each call of
`sendTransaction` with the approval id and time reserved for it; so is
`overlapped`, true once two commands have run at the same time.

### SignalQuota

The ledger file is a set of entries (subject, signal, time), at most one per
subject and signal.  A call reads the clock
(`product_signal_quota_store.py:264`), waits for `_PROCESS_LOCK`, and then
loads, prunes, admits and replaces as one step (`Serve`); `FutureEntry`,
`LoadFails` and `PersistFails` are its failures, and `app/main.py:355-407` shows
nothing after any of them.  `Tick` lets a call wait at most `ClockLag`.
`Restart` drops the calls and keeps the file.  One process:
`discovery_storage.py:33-47` refuses more in production.  A wall clock set back
has the effect of an old reading.  `granted` is a ghost: every entry ever
written.

### CollectorSupervisor

`CollectorScheduler._run_loop` is `sched`, `stop()` is `stopper`; a collector
process stands between two of its operations on `collector.lock`: exclusive
creation, stat, unlink of a stale file, creation again, the cycle, close and
unlink.  SIGTERM (`term`) is delivered between two steps and raises SystemExit
there; SIGKILL and a lost container end a process where it stands.  Collectors
other than the supervisor's (`Runners`) are the PowerShell runner's, or those of
an overlapping deployment.  Time is relative (ages stop counting once no guard
tells them apart), so that behaviours are infinite and liveness means
something.  The file has no owner in it: the field `owner` of the model's lock
is a history.  `raced` records the two ways in which the design lets two
collectors in: two processes find the same file stale, and the slower one
unlinks the lock the faster has just made
(`continuous_discovery_runtime.py:386`); or a holder outlives the thirty
minutes. A cycle that is skipped exits 0 and counts as one that ran.

### DiscoveryCollector

One cycle at a time: load state, ask the providers (each with its quota
cooldown), merge, resolve pairs, append events and the run, replace
`state.json`, then `status.json`, then refresh the archive in one SQLite
transaction.  It may be lost between any two of these writes (`LoseCycle`).
The candidates are a dictionary, whose order Python takes from the insertions:
`before` holds which of two was inserted first.  `Rank` and `Window` are the
rotation that qualification makes over the resolved pools, sorted by last
sighting and, where that is equal, by insertion, with the cursor saved in the
state.  Readers are threads of the web
process in the engine feed: they read `status.json` before they wait for the
lock, then the archive's generation, then, in another connection, its rows.  A
qualification is one nondeterministic verdict per pool; tokens that share a pool
are left out.

Known consequences of the code's order, which the model has and no property
forbids: a completed cycle that qualifies nothing leaves the engine feed
disconnected until one does; the front feed's "Qualified Now" may be false
between the writing of the status and the refresh of the archive; a rotation
over a list that is sorted differently at every scan can pass a pool over for
ever (`EveryPoolInTurn` speaks of an unchanged ranking); a cycle lost after its
state was saved skips the window it had taken; a lost cycle's events and run
number are logged again, and a quota cooldown it met is forgotten.

### SlidingWindow, RateLimiter

`SlidingWindow` has a history of consumed events per key as its whole state, and
consumes under every key of a request or under none.  `RateLimiter` implements
it on either store.  In memory a check is one step in the event loop, with the
pruning of idle buckets and the cap on their number; with Redis a check is sent,
the script runs, the reply comes or does not; redis-py sends the command again
after a timeout or a broken connection, and the first one may still run, late,
when its request has long been answered (`stray`).  Such a script consumes for a
request that was refused with 503, or twice for one request: the abstract action
`Charge`.  `Retry-After` is exact for the key that refused; the 60 seconds that
the bucket cap answers are a constant, and no property is stated about them.

### TelegramLink, FounderAutomation

A redemption is two steps: the SELECT ... FOR UPDATE that holds the request's
row, and the rest up to the commit.  A redemption answers false and changes
nothing if the code is consumed or expired, the account disabled or the chat
taken; Telegram's retry of a webhook call is one more redemption.  Waiting for
the row lock is the absence of the first step, and the code's expiry is compared
when the row is obtained; the SQL's `now()` is the start of the transaction, so
that a redemption that waited may pass an expiry the model refuses.

A run of the automation is `run.step`: previous snapshot, scan and replace, load
again and compare, digest to the founder, then the fan-out, page by page over
the linked users, with the gate reading the link and the subscription right
before each post.  Users, links and subscriptions change between any two reads;
they, `SetEnabled` and `ChangeSubscription` stand for other parts of the
product.  Any other program that writes the snapshot (`generate_snapshot.py`,
`founder_daily.py`) is `ManualSnapshot`. `due`, `tried` and `held` are
histories.  Left out: overlapping runs of the scheduler (the daily tasks are
hours apart), the temporary file's name that overlapping snapshot commands share
(its write is one step with the replace), truncation of the digest, the unused
`send_telegram_alert`.  Two facts of the code that no property forbids: a digest
that failed is not sent again, since the snapshot it compares with is replaced
already; and a market that is unavailable in one scan between WATCH and ALERT is
never announced.

### RankedFeeds

Three feeds in the code, two in the instances: a cached payload with its time,
the eligible rows with the time they were last known good, the file read once
per process, `_RANKED_REFRESH_IN_FLIGHT`.  A load is a page or a background
refresh; it runs one loader thread per feed.  A loader (`task[r][f]`) finds its
feed in the cache, restores it from the file, or asks the provider; it then
waits at the load's barrier for all loaders, because the pairs of all feeds are
resolved in one call (`_SharedRankedExactSolResolution`), and stores what it
has.  A page that finds every feed servable shows the old rows and may start a
refresh, which takes the page's place in the model (`ServeAndRefresh`).  The
file is whatever an earlier process left (`Init`); a save of it is modelled
while some loader may still read it.  A restart is an initial state: nothing but
the file survives.  `Restore` is one step from the file to the last known good
time (lines 1556-1570); the code can be overtaken between the cache and that
time.  `Release` takes for granted what `register`, `skip` and `finish` of the
shared resolution provide: a loader that asked the provider arrives at the
barrier whatever became of its request.

Two ways in which a load never returns come out of the model.  (i) A loader that
restored its feed returns without `shared.skip`, and the loaders of the feeds
that were not in the file, or too old there, wait at a barrier without a
timeout: this is `feeds_stuck`.  (ii) A loader that finds its feed in the cache
waits at the barrier with the feed's lock in its hands; two pages with warm
caches can take one lock each and wait for each other's, and every later page
waits for both.  `LoneLoadReturns` therefore excepts "another load beside it";
both exceptions are in the property by name.  Further: restored rows may
overwrite newer live rows and then count as newer; a refresh whose loaders all
hit their caches has no outcome and counts as failed, with its cooldown; rows
may be shown for the cache's minute beyond the age limit, which
`ServedKnownGood` allows.

## 3. Runs

Twelve runs; every cfg names its bounds.  `CHECK_DEADLOCK FALSE` except in
`collector`: elsewhere the clock is bounded (`MaxTime`) and the system may rest,
whereas the supervisor must always have a next step, and TLC checks that it has.
Identities (executors, digests, ids, threads, commands, chats) are symmetric
where `SYMMETRY` says so: no definition orders or names one of them. No run with
liveness uses symmetry.

| Run | Expect | Distinct states | Question |
|---|---|---|---|
| `swap` | pass | 2 227 326 | One order after another, also under an id given out before, with readings of a slower clock, two executions racing through lapsed locks, crashes and late answers: no leak, one digest, terms kept, owners only, no restart after success? |
| `swap_failed` | violation | | Is an order that the provider reported failed over? |
| `one_shot` | pass | 2 194 161 | One-shot mode, two calls competing for the pair's slot with readings of a slower clock carried to the commit: until a call outlives its slot, the pair's limit and one transaction of one order; until one outlives slot or lock, is what is sent what the gate says, and does the gate only move forward? |
| `claim` | pass | 1 767 431 | Two commands of any kind, crashing and failing anywhere: approved in its window, lawful rows, verified only if landed; and, if they never overlap, one submission, spent for good? |
| `quota` | pass | 423 365 | Two threads, three signals, two slots, old readings, failures and restarts: rolling quota, counted, held, hidden only when full? |
| `rate_limit` | pass | 663 571 | Both stores, three requests under two or three keys, repeated commands and late scripts: no window overdrawn, all keys or none, exact Retry-After, bounded buckets, and the abstract window implemented? |
| `collector` | pass | 57 414 | Supervisor and runner on one lock file with crashes, hangs, stop and deployments: one cycle at a time, the own lock never stale; never stuck, stop returns, cycles go on? |
| `discovery` | pass | 4 564 604 | Three cycles, failing providers, a cycle lost anywhere, two readers and restarts of the web process: logs ahead of the state, no stale row in the engine feed, every pool in turn? |
| `alerts` | pass | 2 294 496 | Runs dying anywhere, two customers, overlapping redemptions, changing links and subscriptions: only the eligible, everybody once, a code links at most once? |
| `alert_missed` | violation | | Is a market that rises to ALERT announced? |
| `feeds` | pass | 1 260 541 | Two feeds, any file, two loads with interleaved loaders: no row past the hard limit, one refresh at a time, does a load end that is alone? |
| `feeds_stuck` | violation | | Does every load end? |

### Properties

*Swap.* `SlotsBacked` (no capacity is held by what is gone),
`PendingNeverReplaced`, `OneDigestPerOrder`, `LockTakenBackByOwner`,
`ConfirmedNotRestarted`, `PairCapacityInTime`, `OneShotSingleTransactionInTime`,
`SentIsApprovedInTime`, `GateNeverRevertsInTime`; `CapacityInTime`, of all
limits, is in no run and proved only.
*Claim.* `ApprovedBeforePosted`, `AuditTable`, `VerifiedMeansLanded`,
`OneSubmissionAlone`, `AttemptStaysSpentAlone`.
*Quota.* `QuotaWithinWindow`, `ShownIsCounted`, `SlotHeldForWindow`,
`HiddenOnlyWhenFull`.
*Rate limiter.* `WithinLimit`, `AllOrNothing`, `RetryAfterExact`,
`BucketsBounded`, `ImplementsWindow` (the refinement).
*Collector.* `OneCycleAtATime`, `SupervisedLockFresh`; liveness
`LoopNeverStuck`, `StopReturns`, `CyclesGoOn`.
*Discovery.* `SavedIsLogged`, `EngineRowsFresh`, `EveryPoolInTurn`.
*Alerts.* `SentWhileEligible`, `EachLinkedUserOnce`, `ReplayBindsNothing`.
*Feeds.* `ServedKnownGood`, `RefreshesApart`; liveness `LoneLoadReturns`.

Each is stated in words above its definition, and each is broken by a mutant of
the code that `PROJECT.json` names.  `TypeOK` is checked in `one_shot` (of
`JupiterSwap`), `claim` and `discovery`; for `SignalQuota`, `RateLimiter`,
`CollectorSupervisor`, `FounderAutomation` and `RankedFeeds` it is not run but
proved.

Histories let one run ask of two operating regimes: `JupiterSwap.late` names what
a running call has outlived, a slot or a one-shot lock, and `repeated` the ids
of a second order; `ClaimGate.overlapped` becomes true when two commands run at
once.  `PoolRotation` counts by how many scans in a row a pool was passed over.

### Bounds, and why they are enough

* Limits are the code's scaled down.  Admission 240, wallet 2, pair 1 and hard
  limit 256 become 2, 2, 1, 2 in `one_shot` and 2, 2, 2, 2 in `swap`, which has
  one slot name to give.  Reached are GLOBAL_LIMIT and RESERVATION_MISSING in
  both, WALLET_TOKEN_LIMIT in `one_shot` and DUPLICATE_REQUEST in `swap`.  With
  one wallet, WALLET_LIMIT and HARD_LIMIT are behind another limit and not
  reached; theorem `LimitsHold` covers them.  RESERVATION_MISMATCH needs a call
  that commits a reservation under another wallet or token than it made it
  under, and there is none.  The quota is 2 of three signals, the rate limits 2
  and 1 with three requests, the bucket cap 2 with three keys.
* Times keep their order: in the code a reservation lives 30 s and a lock 45 s,
  in the runs 2 and 1 (`swap`, so that locks lapse under running calls) or 3 and
  3 (`one_shot`, so that a call may finish in time with clocks one unit apart
  and may outlive its slot as well); the claim gate's 300 s and its
  approval's 90 s become 2 and 1; the quota's day 3 units.  Collector: timeout < interval < stale age, as 600 s,
  900 s and 30 min are.  Feeds: limits 1 and 2, cache and cooldown 1, and times
  up to one unit before the start for what is in the file. `MaxTime` lets the
  longest of them end and the next attempt begin.
* Two of each actor (one preparing call at a time in `swap`, where two executions
  race): every hazard listed is a race of two.  Two digests tell a
  retry of the same transaction from another one, two request ids a new order
  from an old one.  Three faults in `collector`: a kill, a hang and a delay, or
  three of one kind.
* `discovery`: three cycles let a pair fail, be retried and age out, one lost
  cycle lies before, between or after the others.

### Assumptions that a run makes

* `ClockLag + ClockLead < ReservationTtl` (`SkewAssumption`): the clocks of Redis
  and the replicas differ by less than the 30 seconds of a slot.  The runs have
  a replica one unit behind; the theorems hold for every lag and lead.
* "slot" in `late` is excepted by `PairCapacityInTime` and
  `OneShotSingleTransactionInTime`, and the exception is needed (drop it in the
  definitions and `one_shot.cfg` fails).  The key of a reservation outlives its
  place in the sorted sets; another request prunes and takes the place, and if
  the call is still running it commits all the same: two orders of the pair,
  and in one-shot mode two transactions.  The code bounds each read of the
  provider's answer by 12 seconds against the slot's 30, not the call.
* `RepeatIds = FALSE` in `one_shot`: the gate recognises an order by its id, so
  that the one-shot theorems need ids given out once.  In `swap` they repeat;
  `OneDigestPerOrder`, `ConfirmedNotRestarted` and, for orders, `SlotsBacked`
  speak of ids that were not, since a second order under an id is another order
  to everybody but the model.
* `WalletTokenLimit = 1` in `one_shot`, the code's
  `MAX_PENDING_ORDERS_PER_WALLET_TOKEN` (`jupiter_swap_service.py:65`).  It is
  the limit of one slot for the pair, and no lock on the gate file, that keeps
  two calls from binding the gate to two orders.
* The quota holds over the window *less* the lag; over the full window it fails
  already with a lag of 1.  A call that waited for the lock may also find an
  entry of the call it waited for "in the future", and fails although nothing is
  wrong.
* `late` and `overlapped` (above) limit six properties to normal operation.
  The code bounds each read of a provider's answer by 12 and 20 seconds against
  30 and 45, and the runbook starts claim commands by hand one by one; nothing
  in the code enforces either.
* `CollectorSupervisor` assumes Timeout < StaleAge, which the defaults satisfy
  and the configuration does not enforce (Timeout < Interval it does).

### Fairness

`collector`: weak fairness of the supervisor's loop, of `stop()`, of time, and
of every collector process's own next step: threads and processes are scheduled,
a wait with a timeout ends.  None for the start of a runner, a request to stop,
a hang, a crash, a redeployment, a signal: they may never happen.  A process
that hangs has no next step at all; only the supervisor's kill ends it.

`feeds`: weak fairness of each load's own steps and of its loaders' together (a
thread waits for a lock or a barrier, and goes on when it may; every HTTP
request has a timeout of ten seconds).  Nobody has to visit a page and time need
not pass.

The other components promise only safety: a refused or failed caller may try
again, and nothing in the code retries for it.

## 4. What the violated runs show, and what else was met

* `swap_failed`: the last lines of `execute_jupiter_swap` set attributes that
  `_RedisPendingOrder` does not have; after a final "Failed" the order stays
  executable, and in one-shot mode the gate stays CONSUMED.
* `alert_missed`: the detector's list of actionable decisions has no ALERT, so
  that a market that goes from IGNORE to ALERT is no change, although the digest
  keeps only changes to ALERT.
* `feeds_stuck`: the first page after a start with a file that has one feed and
  not the other never renders.

The findings in `PROJECT.json` quote the lines.  Not runs of their own, but easy
to reproduce by a changed constant or property:

* `OneSubmission` in `claim.cfg` in place of `OneSubmissionAlone` fails:
  `reserve_submission` has no lock between reading and replacing the gate, and
  two submit commands that overlap both submit.
* A lost answer to `sendTransaction` is recorded as FAILED and not submitted
  while the claim may land; the attempt stays spent all the same.
* The circular wait of two page loads of `RankedFeeds` (see section 2): state it
  as an invariant that no two loads hold one feed lock each at the barrier; TLC
  reaches it in fourteen steps.
* The outlived slot of `one_shot`, the quota's entry in the future (section 3).

## 5. Proofs

Every theorem holds for every value of the constants, from the ASSUMEs of the
modules alone (positive limits, finite sets, `None` outside the sets it is used
with); TLC evaluates those on every run.

**JupiterSwapProofs.**  The theorems hold for any lag and lead within
`SkewAssumption`, and for repeated ids unless said otherwise.  `TypeCorrect`:
`Spec => []TypeOK`.  `TypeOK` alone is not inductive: a call in a step that uses
its slot, request or copy of the gate must have one, which is `LocalsOK`.
`DigestAgreement` (`OneDigestPerOrder`): what was sent says nothing of what is
about to be sent; `PinInvariant` adds the digests of running executions and of
the order on record, says that all of them agree, that an order on record
without a digest is bound to none, and that an id which was never committed is
known to one call only.  `OnlyOwnersUnlock` (`LockTakenBackByOwner`) follows
from lemma `LockChanges`, which names the only steps that touch a lock: the
start of an execution, a lapse, and a step of the holder.  `ConfirmedStaysDone`
(`ConfirmedNotRestarted`): an order whose confirmation was taken in is `Closed`,
which is off the record, its id given out, and known to no call that could still
commit it (`SettledInvariant`).  `TermsKept` (`PendingNeverReplaced`) needs the
types and the verdict of a commit.

The capacity of the store has two halves.  `NoSlotLeaks` (`SlotsBacked`): what
counts exists.  `BackedInvariant` says that a member of a sorted set is scored
no later than the key it stands for ends plus the lead, and is in no
set of another wallet or token; `TermsAgree`, that a call which will give a slot
or an order back knows the right sets; `ReadAgree`, that no call carries a
reading that is ahead of every clock.  `LimitsHold` (`CapacityInTime`): what
exists counts, until a slot is outlived.  `CountedInvariant` is the converse of
the first, for every record no replica may take for expired (`Current`), and
`CountsWithin` bounds the live members of each set by its limit at every reading
still to come; both together bound the keys through an injection from keys to
members.  `SlotsInTime` is what "slot" outside `late` buys: the slot of a
running call still counts, so that a commit exchanges one member for another
instead of adding one.  The hard limit is checked by the commit itself and needs
none of this.  `PairLimitHolds` (`PairCapacityInTime`) is a corollary.

One-shot mode, for `RepeatIds = FALSE` and `WalletTokenLimit = 1`:
`SingleTransaction` (`OneShotSingleTransactionInTime`) holds until a slot is
outlived, however slow the executions are.  `SingleInvariant` says that until
the gate is bound no order was ever dealt with, that whoever could still bind it
has a slot of the pair or has lost it to an order nobody has executed, and that
two slots of the pair never exist at once; for that a slot must end as a place
before it can end as a key (`KeysOutlive`).  `SentWasApproved`
(`SentIsApprovedInTime`) and `GateOnlyAdvances` (`GateNeverRevertsInTime`) hold
while no call is late: `TimeInvariant` adds that a running call still has its
slot or its lock (`InTimeStore`) and that whoever is about to write the gate
file holds a copy of what is in it (`InTimeGate`).

**ClaimGateProofs.**  `TypeCorrect`; `AuditHolds`: the gate, and every copy that
a racing or crashed command may yet write, is a row of the audit table - it has
to speak of the copies, since any of them may become the gate; `FetchOK` adds
what the verifier read before it asked the chain.  `ApprovedFirst`: what is
posted was approved under its id and reserved in time; its invariants are
`LiveOK` (only an approving command sets out to write a live gate, with the
approval it drew and the digest it was given) and `GrantOK` (a live gate's
approval is on record, and so is that of every submission that has reserved or
is about to).  `VerifiedLanded`: what says FINALIZED_VERIFIED carries a
signature that landed (`Backed`, `VerifiedOK`).  All of this for any number of
concurrent commands: the race of section 4 breaks the *count* of submissions,
not their approval.  `SubmittedOnce` (`OneSubmissionAlone`) and `SpentForGood`
(`AttemptStaysSpentAlone`) are about that count, for commands of any kind that
crash and fail anywhere but never overlap: `SerialInvariant` says that a posted
claim leaves the gate spent, and that the copy in a running command's hands is
as spent as the gate it will replace.

**SignalQuotaProofs.**  `TypeCorrect`, `QuotaHolds`, `ShownCounted`, `SlotHeld`,
`HiddenWhenFull`.
The quota speaks of every entry ever granted, the code only of the file;
`Recent` (entries within the window are still in the file), `Readings` (a
waiting call's reading is at most the lag old), `Past` and `Slots` (the file has
at most Limit signals per subject) connect them.  `HiddenWhenFull` is about what
the admission of a whole page computes: `FirstFill` says that the signals chosen
by position fill the free slots whenever one is left over, `HiddenFills` that
the file is then full.

**RateLimiterProofs.**  `TypeCorrect`, `ForgetsNothing`, `LimitHolds`,
`BucketsHold`, `Refinement`, `PaidTogether`, `RetryIsExact`.  The strengthening
is `Remembered`: what a window still counts of the history is in the store,
although the store drops events, idle buckets and expired keys.  Every step of
either store has one of four effects on it (tick, prune, consume, none), each a
lemma; the limit, the refinement and the payments rest on those instead of on
thirteen actions each.

**CollectorSupervisorProofs.**  `TypeCorrect`, `OneCycle`, `SupervisedFresh`,
`AloneIsSafe` (without another program's collector nothing ever races).  The
invariant, while `raced` is false: whoever holds the lock created the file that
is there (`HolderHasFile`), and a process that has found the file stale is alone
with it (`TakerIsAlone`).  `Supervised` ties the file's age to how far the
supervisor's turn has come.

**DiscoveryCollectorProofs.**  `FeedIsFresh` rests on `FeedInv`: the current
rows of the archive are of one scan (`OneScan`) and the cached generation is
never ahead of it (`CacheBehind`).  `StateIsLogged` rests on `LogInv`, which
says of the running cycle's dictionary, write by write, what has been logged of
it.  `TypeCorrect`: the known candidates stand in one total order through every
merge and pruning (`InOrder`), which makes `Rank` a ranking.  `NoPoolStarves`
(`EveryPoolInTurn`, of `PoolRotation`) is arithmetic over the cursor:
`RotationInvariant` says that the distance of a pool from the next scan's start
(`Far`), plus `Take` for every scan that passed it over, stays below the number
of pools, and `Turn` that such a scan takes `Take` off the distance.

**FounderAutomationProofs.**  `TypeCorrect`, `SentEligible` (`GateInv`: what has
been read of the user whose turn it is has held since), `LinkedOnce` (`ListInv`:
who stayed linked is listed or still to come, and nobody is listed twice),
`ReplayHarmless` (`LinkInv`: consumed codes, open redemptions, and one chat per
account).

**RankedFeedsProofs.**  `TypeCorrect`, `NeverTwoRefreshes` (`RefreshInv`: while
a refresh runs the flag is set, so that no page may begin another),
`ServedIsKnown` (`ServedKnownGood`).  Its `KnownInvariant` relates three times
of a feed, the age of the rows, the moment they were put in the cache, and when
the feed was last known good: rows were within the limit when cached
(`RowsKnown`), and a loader about to remember its load's time as good had live
rows then (`RemembersLive`).

**Only model-checked:** all liveness (`LoopNeverStuck`, `StopReturns`,
`CyclesGoOn`, `LoneLoadReturns`).  Every safety property of the passing runs is
stated by a theorem.

**Out of the prover's reach:** liveness under fairness, ENABLED, and what
recursive definitions compute (induction over data).  No module here declares a
RECURSIVE operator.

## 6. Not modelled

* *Swap service, memory mode* (dictionaries under `_pending_lock`): one process,
  used without Redis only; production requires Redis.
* *Market feeds*: the loads of a single feed for workspaces, the Recent feed and
  its store, rows kept for workspaces, quotes, presenter metrics.
* *Discovery feed*: thresholds of a qualification, the front feed, token pages
  and universe registry, which are pure reads; metrics and the monitor page.
* *ClaimV2 evidence and simulation, fee decoders*: validation and decoding of
  one captured transaction; their effects on shared state go through the gate.
* *Identity and entitlement*: sessions are Supabase's, the entitlement is a pure
  function of one row.
* *Scanner, adaptive history*: one sequential pass of pure rules, then inserts.
* *Workspaces, content control, web application, operating tools, presentation*:
  reads for one page, wording, HTML, routes, registration of Windows tasks.
  They make up most of the lines of the repository and have no state whose order
  of changes matters.

Where the work would go on: the memory mode as a second implementation of an
abstract order book; the Recent store's retention; what holds after a slot was
outlived, beyond the hard limit; `Release` of the feeds split into the arrivals
of its loaders.
