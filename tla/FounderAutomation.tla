--------------------------- MODULE FounderAutomation ---------------------------
(***************************************************************************)
(* One run of the founder automation after another                         *)
(* (founder_scheduler.py): it loads the latest snapshot, scans and replaces *)
(* it, loads it again, compares the two (application/change_detector.py),  *)
(* sends the founder a digest (application/telegram_notifier.py) and fans  *)
(* the alerts out to the linked customers                                  *)
(* (application/telegram_customer_dispatch.py), each behind the gate of    *)
(* application/telegram_pro_alert_gate.py.                                 *)
(*                                                                         *)
(* Every step reads or changes shared state once: the snapshot file, which *)
(* generate_snapshot.py and founder_daily.py replace too, and the tables   *)
(* of TelegramLink and of the subscriptions.  A run may die in between.    *)
(***************************************************************************)
EXTENDS TelegramLink

CONSTANTS
  Markets,        \* token symbols
  Evidence,       \* reasons of a decision
  Scans,          \* what a scan may find
  PageSize,       \* rows per page of linked_customer_ids
  CustomerAlerts  \* DEXSATO_CUSTOMER_TELEGRAM_ALERTS_ENABLED

VARIABLES
  snapshot,   \* latest_snapshot.json
  run,        \* the run, or RunIdle
  latestRun,  \* automation_status in latest_run.json
  pro,        \* users with an active subscription
  due,        \* history: users linked since the listing began
  tried,      \* history: users whose turn has come in this run
  held        \* history: what held of the user whose turn it is

autoVars == <<snapshot, run, latestRun, pro>>
history  == <<due, tried, held>>
vars     == <<linkVars, autoVars, history>>

Decisions == {"IGNORE", "REVIEW", "WATCH", "ALERT"}

Coin == [available : BOOLEAN, decision : Decisions, confidence : 0..3,
         evidence : SUBSET Evidence]
Snapshots == UNION {[S -> Coin] : S \in SUBSET Markets}

ASSUME AutomationAssumption ==
  /\ Scans \subseteq Snapshots /\ None \notin Snapshots
  /\ PageSize \in Nat \ {0} /\ CustomerAlerts \in BOOLEAN

\* Users are numbers from 1: 0 is nobody.
RunSteps == {"idle", "scan", "load", "digest", "fan", "list", "turn", "link",
             "tier", "post", "record"}

Run == [step : RunSteps, previous : Snapshots \cup {None}, alerts : SUBSET Markets,
        telegram : {"NONE", "SENT", "SKIPPED", "FAILED"},
        listed : SUBSET Users, after : Users \cup {0}, complete : BOOLEAN,
        user : Users \cup {0}, chat : Chats \cup {None}]

RunIdle == [step |-> "idle", previous |-> None, alerts |-> {}, telegram |-> "NONE",
            listed |-> {}, after |-> 0, complete |-> FALSE, user |-> 0, chat |-> None]

TypeOK ==
  /\ LinkTypeOK
  /\ snapshot \in Snapshots \cup {None}
  /\ run \in Run
  /\ latestRun \in {"NONE", "HEALTHY", "DEGRADED"}
  /\ pro \subseteq Users /\ due \subseteq Users /\ tried \subseteq Users
  /\ held \subseteq {"enabled", "pro"} \cup Chats

Init ==
  /\ LinkInit
  /\ snapshot = None /\ run = RunIdle /\ latestRun = "NONE"
  /\ pro \in SUBSET Users
  /\ due = {} /\ tried = {} /\ held = {}

-----------------------------------------------------------------------------
(* detect_meaningful_changes.                                              *)

\* ACTIONABLE_DECISIONS.
Actionable == {"BUY", "WATCH", "REVIEW", "SELL"}

DecisionChanged(old, new) ==
  old.decision # new.decision /\ {old.decision, new.decision} \cap Actionable # {}

\* detect_coin_change.
Meaningful(old, new) ==
  /\ old.available /\ new.available
  /\ \/ DecisionChanged(old, new)
     \/ /\ new.decision \in Actionable
        /\ \/ new.confidence > old.confidence
           \/ new.evidence \ old.evidence # {}

Changes(old, new) ==
  IF old = None THEN {}
  ELSE {m \in DOMAIN old \cap DOMAIN new : Meaningful(old[m], new[m])}

\* _alert_changes: all that the digest and the customers' message are about.
Alerts(old, new) == {m \in Changes(old, new) : new[m].decision = "ALERT"}

-----------------------------------------------------------------------------
(* execute_founder_scheduler.                                              *)

At(step)   == run.step = step
Goto(step) == run' = [run EXCEPT !.step = step]

LoadPrevious ==
  /\ At("idle")
  /\ run' = [RunIdle EXCEPT !.step = "scan", !.previous = snapshot]
  /\ UNCHANGED <<linkVars, snapshot, latestRun, pro, due>>

Generate(s) ==
  /\ At("scan")
  /\ snapshot' = s
  /\ Goto("load")
  /\ UNCHANGED <<linkVars, latestRun, pro, due>>

\* The file is read again: it may be another command's by now.
Compare ==
  /\ At("load")
  /\ run' = [run EXCEPT !.step = "digest", !.previous = None,
                        !.alerts = Alerts(run.previous, snapshot)]
  /\ UNCHANGED <<linkVars, snapshot, latestRun, pro, due>>

\* deliver_change_digest: an exception is FAILED, a message that was
\* delivered before its answer timed out included.
SendDigest ==
  /\ At("digest")
  /\ \E t \in IF run.alerts = {} THEN {"SKIPPED"} ELSE {"SENT", "FAILED"} :
       run' = [run EXCEPT !.step = "fan", !.telegram = t]
  /\ UNCHANGED <<linkVars, snapshot, latestRun, pro, due>>

\* deliver_customer_changes.
StartFanOut ==
  /\ At("fan")
  /\ IF CustomerAlerts /\ run.alerts # {}
     THEN Goto("list") /\ due' = {u \in Users : link[u] # None}
     ELSE Goto("record") /\ UNCHANGED due
  /\ UNCHANGED <<linkVars, snapshot, latestRun, pro>>

LinkedAfter(last) == {u \in Users : link[u] # None /\ u > last}

\* Mutant: a full page is taken for the last.
ListOnePage ==
  /\ At("list")
  /\ \E page \in SUBSET LinkedAfter(run.after) :
       /\ Cardinality(page) <= PageSize
       /\ \A u \in page, v \in LinkedAfter(run.after) \ page : u < v
       /\ Cardinality(page) < PageSize => page = LinkedAfter(run.after)
       /\ run' = [run EXCEPT !.step = "turn", !.complete = TRUE, !.after = 0,
                             !.listed = @ \cup page]
  /\ UNCHANGED <<linkVars, snapshot, latestRun, pro, due>>

\* One page of linked_customer_ids: the last is shorter than the others.
ListPage ==
  /\ At("list")
  /\ \/ /\ Cardinality(LinkedAfter(run.after)) < PageSize
        /\ run' = [run EXCEPT !.step = "turn", !.complete = TRUE, !.after = 0,
                              !.listed = @ \cup LinkedAfter(run.after)]
     \/ \E page \in SUBSET LinkedAfter(run.after), last \in Users :
          /\ Cardinality(page) = PageSize
          /\ last \in page
          /\ page = {u \in LinkedAfter(run.after) : u <= last}
          /\ run' = [run EXCEPT !.listed = @ \cup page, !.after = last]
  /\ UNCHANGED <<linkVars, snapshot, latestRun, pro, due>>

\* No client, a page that cannot be read, or no gate: it is built when all are
\* listed and none has been served, which looks the same from outside.
FanOutFails ==
  /\ At("list")
  /\ Goto("record")
  /\ UNCHANGED <<linkVars, snapshot, latestRun, pro, due>>

\* recipient_for reads the user, the link and the subscription, one after
\* the other; a read that fails denies as an answer does.
TakeTurn(u) ==
  /\ At("turn")
  /\ u \in run.listed /\ \A v \in run.listed : u <= v
  /\ \/ /\ u \in enabled
        /\ run' = [run EXCEPT !.listed = @ \ {u}, !.user = u, !.step = "link"]
     \/ run' = [run EXCEPT !.listed = @ \ {u}]
  /\ UNCHANGED <<linkVars, snapshot, latestRun, pro, due>>

ReadLink ==
  /\ At("link")
  /\ link[run.user] # None
  /\ run' = [run EXCEPT !.step = "tier", !.chat = link[run.user]]
  /\ UNCHANGED <<linkVars, snapshot, latestRun, pro, due>>

\* Mutant: the subscription is taken for granted.
ReadNoTier ==
  /\ At("tier")
  /\ Goto("post")
  /\ UNCHANGED <<linkVars, snapshot, latestRun, pro, due>>

ReadTier ==
  /\ At("tier")
  /\ run.user \in pro
  /\ Goto("post")
  /\ UNCHANGED <<linkVars, snapshot, latestRun, pro, due>>

EndTurn == run' = [run EXCEPT !.step = "turn", !.user = 0, !.chat = None]

Deny ==
  /\ At("link") \/ At("tier")
  /\ EndTurn
  /\ UNCHANGED <<linkVars, snapshot, latestRun, pro, due>>

\* Delivered or not: an exception only counts as failed.
PostAlert ==
  /\ At("post")
  /\ EndTurn
  /\ UNCHANGED <<linkVars, snapshot, latestRun, pro, due>>

EndFanOut ==
  /\ At("turn") /\ run.listed = {}
  /\ Goto("record")
  /\ UNCHANGED <<linkVars, snapshot, latestRun, pro, due>>

\* write_latest_run.
Record ==
  /\ At("record")
  /\ latestRun' = IF run.telegram = "FAILED" THEN "DEGRADED" ELSE "HEALTHY"
  /\ run' = RunIdle
  /\ UNCHANGED <<linkVars, snapshot, pro, due>>

\* An exception that ends the run, or the death of its process.
RunFails ==
  /\ ~ At("idle")
  /\ run' = RunIdle
  /\ UNCHANGED <<linkVars, snapshot, latestRun, pro, due>>

\* generate_snapshot.py or founder_daily.py, by hand.
ManualSnapshot(s) ==
  /\ snapshot' = s
  /\ UNCHANGED <<linkVars, run, latestRun, pro, due>>

-----------------------------------------------------------------------------
(* The tables change under a run.                                          *)

\* Subscriptions start, end and are cancelled.
ChangeSubscription(u) ==
  /\ pro' \in {pro \cup {u}, pro \ {u}}
  /\ UNCHANGED <<linkVars, snapshot, run, latestRun, due>>

LinkStep ==
  /\ LinkNext
  /\ due' = {u \in due : link'[u] # None}
  /\ UNCHANGED autoVars

Step ==
  \/ LoadPrevious \/ Compare \/ SendDigest
  \/ \E s \in Scans : Generate(s) \/ ManualSnapshot(s)
  \/ StartFanOut \/ ListPage \/ FanOutFails
  \/ \E u \in Users : TakeTurn(u) \/ ChangeSubscription(u)
  \/ ReadLink \/ ReadTier \/ Deny \/ PostAlert \/ EndFanOut
  \/ Record \/ RunFails
  \/ LinkStep

\* What holds of a user: it is enabled, it is Pro, the chat it is linked to.
Facts(u) ==
  {f \in {"enabled", "pro"} \cup Chats :
     \/ f = "enabled" /\ u \in enabled
     \/ f = "pro" /\ u \in pro
     \/ f \in Chats /\ f = link[u]}

Remember ==
  /\ tried' = IF run'.step = "idle" THEN {} ELSE tried \cup (run.listed \ run'.listed)
  /\ held' = IF run'.user = 0 THEN {}
             ELSE (IF run'.user = run.user THEN held ELSE {}) \cup Facts(run.user)'

Next == Step /\ Remember

Spec == Init /\ [][Next]_vars

-----------------------------------------------------------------------------
(* Properties.                                                             *)

\* A customer message is only posted to a user of whom all that the gate
\* asks has held since the gate was asked, and to a chat that was the user's
\* meanwhile: no answer of an earlier turn, of the listing or of another
\* user stands in for a read (TelegramProAlertGate.deliver).
SentWhileEligible ==
  At("post") => {"enabled", "pro", run.chat} \subseteq held

\* The pages of linked_customer_ids, read one by one while accounts are
\* linked and unlinked, leave out nobody who was linked all the time, and
\* nobody's turn comes twice in a run.
EachLinkedUserOnce ==
  /\ run.listed \cap tried = {}
  /\ At("record") /\ run.complete => due \subseteq tried

\* What the documents say of ALERT: "A decision changes into or out of an
\* actionable state" is a change (change_detector.py), and a market that
\* became one that requires attention is in the digest.
RisesAnnounced ==
  [][\A m \in Markets :
       /\ run.step = "load" /\ run'.step = "digest" /\ run.previous # None
       /\ m \in DOMAIN run.previous \cap DOMAIN snapshot
       /\ run.previous[m].available /\ snapshot[m].available
       /\ run.previous[m].decision # "ALERT" /\ snapshot[m].decision = "ALERT"
       => m \in run'.alerts]_vars
===============================================================================
