---------------------------- MODULE SignalQuota ----------------------------
(***************************************************************************)
(* The ledger of detected signals that public visitors have been shown     *)
(* (application/product_signal_quota_store.py): at most Limit distinct     *)
(* signals per subject in a rolling window of a day.  The page handler is  *)
(* run by threads of one web server.  A call reads the clock first and     *)
(* then waits for _PROCESS_LOCK, under which it loads the JSON file,       *)
(* prunes it, admits signals and replaces the file.                        *)
(*                                                                         *)
(* The file is a set of entries.  A subject with no entry has no record:   *)
(* _prune_expired drops an empty record and admit stores none.             *)
(***************************************************************************)
EXTENDS Integers, Sequences, FiniteSets

CONSTANTS
  Subjects,   \* guests and users
  Signals,    \* detected tokens
  Threads,    \* threads that serve the page
  Limit,      \* detected_signals_unique_rolling_24h_max
  Window,     \* PRODUCT_SIGNAL_QUOTA_WINDOW_SECONDS
  ClockLag,   \* how old a call's clock reading may be when it has the lock
  MaxTime     \* the model's bound on the clock

ASSUME QuotaAssumption ==
  /\ Limit \in Nat /\ Window \in Nat \ {0} /\ ClockLag \in Nat /\ MaxTime \in Nat
  /\ IsFiniteSet(Signals) /\ Subjects # {}

VARIABLES
  now,      \* the clock
  ledger,   \* the entries of the file
  call,     \* the call of each thread
  granted   \* every entry that was ever in the file

vars == <<now, ledger, call, granted>>

-----------------------------------------------------------------------------
Entry == [subject : Subjects, signal : Signals, time : Nat]

\* The tokens of a page, without duplicates, in the order of the feeds.
Pages == {page \in UNION {[1..n -> Signals] : n \in 0..Cardinality(Signals)} :
            \A i, j \in DOMAIN page : page[i] = page[j] => i = j}

Call == [step : {"idle", "waiting", "served", "unavailable", "future"},
         subject : Subjects, page : Pages, current : Nat,
         allowed : SUBSET Signals]

SignalsOf(entries, s) == {e.signal : e \in {x \in entries : x.subject = s}}

\* Mutant: an entry's last unit of time is forgotten.
KeptTooShort(entries, current) == {e \in entries : current - e.time < Window - 1}
Kept(entries, current) == {e \in entries : current - e.time < Window}

\* The slots left, with the signals the page does not show counted too.
\* Mutant: only what the page shows is counted.
RoomForPage(known, page) ==
  Limit - Cardinality({page[i] : i \in DOMAIN page} \cap known)
Room(known, page) == Limit - Cardinality(known)

\* The first unknown signals of the page, as many as there are slots left.
\* Mutant: the slots are given out from the end of the page.
TakenBackwards(known, page) ==
  LET unknown == {i \in DOMAIN page : page[i] \notin known}
  IN {page[i] : i \in {n \in unknown :
        Cardinality({m \in unknown : m > n}) < Room(known, page)}}
Taken(known, page) ==
  LET unknown == {i \in DOMAIN page : page[i] \notin known}
  IN {page[i] : i \in {n \in unknown :
        Cardinality({m \in unknown : m < n}) < Room(known, page)}}

Admitted(entries, c) ==
  entries \cup {[subject |-> c.subject, signal |-> k, time |-> c.current] :
                  k \in Taken(SignalsOf(entries, c.subject), c.page)}

\* What the file holds once the call has pruned it and admitted its page.
Updated(c) == Admitted(Kept(ledger, c.current), c)

-----------------------------------------------------------------------------
\* A thread without a call, or whose call ended as it says and showed nothing.
Empty(step) == [step |-> step, subject |-> CHOOSE s \in Subjects : TRUE,
                page |-> << >>, current |-> 0, allowed |-> {}]

Init ==
  /\ now = 0 /\ ledger = {} /\ granted = {}
  /\ call = [p \in Threads |-> Empty("idle")]

\* A page is asked for: the call reads the clock and waits for the lock.
Begin(p) ==
  /\ call[p].step # "waiting"
  /\ \E s \in Subjects, page \in Pages :
       call' = [call EXCEPT ![p] = [step |-> "waiting", subject |-> s,
                  page |-> page, current |-> now, allowed |-> {}]]
  /\ UNCHANGED <<now, ledger, granted>>

Shows(p, allowed) ==
  call' = [call EXCEPT ![p].step = "served", ![p].page = << >>,
                       ![p].allowed = allowed]
ShowsNothing(p, step) == call' = [call EXCEPT ![p] = Empty(step)]

\* Under the lock: an entry from after the call's own clock reading.
FutureEntry(p) ==
  /\ call[p].step = "waiting"
  /\ \E e \in ledger : e.time > call[p].current
  /\ ShowsNothing(p, "future")
  /\ UNCHANGED <<now, ledger, granted>>

\* Under the lock: the file is replaced, unless nothing changed.
Serve(p) ==
  LET c == call[p]
      file == Updated(c)
  IN /\ c.step = "waiting"
     /\ \A e \in ledger : e.time <= c.current
     /\ ledger' = file
     /\ granted' = granted \cup file
     /\ Shows(p, {c.page[i] : i \in DOMAIN c.page}
                   \cap SignalsOf(file, c.subject))
     /\ UNCHANGED now

\* Under the lock: the file cannot be read.
LoadFails(p) ==
  /\ call[p].step = "waiting"
  /\ ShowsNothing(p, "unavailable")
  /\ UNCHANGED <<now, ledger, granted>>

\* Under the lock: the file cannot be replaced; the temporary file is removed.
\* Mutant: the page is shown all the same.
PersistFailsServed(p) ==
  /\ call[p].step = "waiting"
  /\ \A e \in ledger : e.time <= call[p].current
  /\ Updated(call[p]) # ledger
  /\ Shows(p, {call[p].page[i] : i \in DOMAIN call[p].page}
               \cap SignalsOf(Updated(call[p]), call[p].subject))
  /\ UNCHANGED <<now, ledger, granted>>
PersistFails(p) ==
  /\ call[p].step = "waiting"
  /\ \A e \in ledger : e.time <= call[p].current
  /\ Updated(call[p]) # ledger
  /\ ShowsNothing(p, "unavailable")
  /\ UNCHANGED <<now, ledger, granted>>

\* The server stops and starts again: the calls are lost, the file is not.
Restart ==
  /\ call' = [p \in Threads |-> Empty("idle")]
  /\ UNCHANGED <<now, ledger, granted>>

Tick ==
  /\ now < MaxTime
  /\ \A p \in Threads : call[p].step = "waiting" => now < call[p].current + ClockLag
  /\ now' = now + 1
  /\ UNCHANGED <<ledger, call, granted>>

Next ==
  \/ \E p \in Threads : \/ Begin(p) \/ FutureEntry(p) \/ Serve(p)
                        \/ LoadFails(p) \/ PersistFails(p)
  \/ Restart \/ Tick

Spec == Init /\ [][Next]_vars

-----------------------------------------------------------------------------
\* Types; the file is a JSON object, with one entry per subject and signal.
TypeOK ==
  /\ now \in Nat
  /\ ledger \subseteq granted /\ granted \subseteq Entry
  /\ \A e, f \in ledger : e.subject = f.subject /\ e.signal = f.signal => e = f
  /\ call \in [Threads -> Call]

\* The quota: in no window of Window - ClockLag units are more than Limit
\* distinct signals admitted for a subject, whatever restarts, failing disks
\* and calls that had to wait for the lock do.
GrantedIn(s, from, to) ==
  {k \in Signals : \E e \in granted :
     e.subject = s /\ e.signal = k /\ from < e.time /\ e.time <= to}
QuotaWithinWindow ==
  \A s \in Subjects : \A t \in 0..now :
    Cardinality(GrantedIn(s, t - (Window - ClockLag), t)) <= Limit

\* What a page shows has a slot on disk, which no other call, failure or
\* restart takes away before the slot's window is over.
ShownIsCounted ==
  \A p \in Threads : \A k \in call[p].allowed : \E e \in granted :
    /\ e.subject = call[p].subject /\ e.signal = k
    /\ call[p].current - e.time < Window
    /\ now - e.time < Window => e \in ledger

\* A slot is neither renewed by showing the signal again nor freed early: an
\* entry leaves the file only when its window is over.
SlotHeldForWindow == [][\A e \in ledger \ ledger' : now - e.time >= Window]_vars

\* A page hides a signal only when the subject's slots are all taken, and
\* never hides one that comes before a signal it newly admits.
HidesWhenFull(p) ==
  LET page == call[p].page
      hidden == {i \in DOMAIN page : page[i] \notin call'[p].allowed}
      known == SignalsOf(Kept(ledger, call[p].current), call[p].subject)
  IN call[p].step = "waiting" /\ call'[p].step = "served" /\ hidden # {} =>
       /\ Cardinality(SignalsOf(ledger', call[p].subject)) = Limit
       /\ \A i \in hidden, j \in DOMAIN page :
            i < j => page[j] \in known \/ j \in hidden
HiddenOnlyWhenFull == [][\A p \in Threads : HidesWhenFull(p)]_vars

\* Does not hold (see README): that no call is turned away because another
\* one, served meanwhile, wrote a good file with a later time in it.
UnavailableOnlyOnFailure == \A p \in Threads : call[p].step # "future"
=============================================================================
