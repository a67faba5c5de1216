--------------------------- MODULE SlidingWindow ---------------------------
(***************************************************************************)
(* What the rate limiter of application/token_workspace_rate_limit.py      *)
(* promises, whatever store it runs on: "atomically evaluate all keys and  *)
(* consume one event only if all pass".  The history of consumed events is *)
(* the whole state; RateLimiter shows how the two stores implement it      *)
(* although they forget events, buckets and replies.                       *)
(***************************************************************************)
EXTENDS Naturals, FiniteSets

CONSTANTS
  Keys,       \* what is counted: an address, a wallet, an e-mail, everybody
  Requests,
  AskSets,    \* the sets of keys that one request may be counted under
  Limit,      \* RateLimitRule.limit of each key
  Window      \* RateLimitRule.window_seconds of each key

VARIABLES
  now,
  spent,     \* every event ever consumed under a key: <<request, time>>
  verdict,   \* what the store decided for a request
  answer     \* what the request was answered

vars == <<now, spent, verdict, answer>>

Event   == Requests \X Nat
Verdict == {"none", "pass", "limited", "capacity"}
Answer  == Verdict \cup {"unavailable"}

TypeOK ==
  /\ now \in Nat /\ spent \in [Keys -> SUBSET Event]
  /\ verdict \in [Requests -> Verdict] /\ answer \in [Requests -> Answer]

Init ==
  /\ now = 0 /\ spent = [k \in Keys |-> {}]
  /\ verdict = [r \in Requests |-> "none"]
  /\ answer = [r \in Requests |-> "none"]

Recent(k) == {e \in spent[k] : e[2] + Window[k] > now}
Room(k)   == Cardinality(Recent(k)) < Limit[k]

Spend(r, ks) ==
  spent' = [k \in Keys |-> IF k \in ks THEN spent[k] \cup {<<r, now>>} ELSE spent[k]]

\* The verdict is known to the request at once, or by Deliver.
Decide(r, v) ==
  /\ answer[r] = "none"
  /\ verdict' = [verdict EXCEPT ![r] = v]
  /\ answer' \in {answer, [answer EXCEPT ![r] = v]}

Grant(r, ks) ==
  /\ \A k \in ks : Room(k)
  /\ Spend(r, ks) /\ Decide(r, "pass")
  /\ UNCHANGED now

\* An attempt that its request no longer waits for is counted all the same.
Charge(r, ks) ==
  /\ \A k \in ks : Room(k)
  /\ Spend(r, ks)
  /\ UNCHANGED <<now, verdict, answer>>

Refuse(r, ks) ==
  /\ \E k \in ks : ~ Room(k)
  /\ Decide(r, "limited")
  /\ UNCHANGED <<now, spent>>

\* No place is ever lacking for keys that have been seen in their window.
NoPlace(r, ks) ==
  /\ \E k \in ks : Recent(k) = {}
  /\ Decide(r, "capacity")
  /\ UNCHANGED <<now, spent>>

Deliver(r) ==
  /\ answer[r] = "none" /\ verdict[r] # "none"
  /\ answer' = [answer EXCEPT ![r] = verdict[r]]
  /\ UNCHANGED <<now, spent, verdict>>

GiveUp(r) ==
  /\ answer[r] = "none"
  /\ answer' = [answer EXCEPT ![r] = "unavailable"]
  /\ UNCHANGED <<now, spent, verdict>>

Tick == now' = now + 1 /\ UNCHANGED <<spent, verdict, answer>>

Next ==
  \/ \E r \in Requests :
       \/ \E ks \in AskSets : Grant(r, ks) \/ Charge(r, ks) \/ Refuse(r, ks)
                                \/ NoPlace(r, ks)
       \/ Deliver(r) \/ GiveUp(r)
  \/ Tick

Spec == Init /\ [][Next]_vars
=============================================================================
