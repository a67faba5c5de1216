------------------------ MODULE FounderAutomationProofs ------------------------
(***************************************************************************)
(* What holds of FounderAutomation and TelegramLink for every number of    *)
(* users, chats, codes, overlapping redemptions and markets, every page    *)
(* size, and wherever runs die.                                            *)
(***************************************************************************)
EXTENDS FounderAutomation, TLAPS

-----------------------------------------------------------------------------
(* Linking.                                                                *)

\* An open redemption has its request's row to itself, and the request is
\* not consumed; a code that has linked an account is.
LinkInv ==
  /\ OneToOne
  /\ \A h \in Webhooks : tx[h] # None =>
       request[tx[h].code] # None /\ ~ request[tx[h].code].consumed
  /\ \A g, h \in Webhooks :
       tx[g] # None /\ tx[h] # None /\ tx[g].code = tx[h].code => g = h
  /\ \A c \in used : request[c] # None /\ request[c].consumed

LEMMA CommitLinkStep ==
  ASSUME LinkAssumption, NoRow, LinkTypeOK, LinkInv,
         NEW h \in Webhooks, CommitLink(h)
  PROVE  LinkTypeOK' /\ LinkInv'
<1> DEFINE c == tx[h].code
           k == tx[h].chat
           u == request[c].user
<1>1. c \in Codes /\ k \in Chats /\ k # None
  BY DEF CommitLink, LinkTypeOK, Redemption, LinkAssumption
<1>2. request[c] \in RequestRow /\ u \in Users /\ ~ request[c].consumed
  BY <1>1 DEF CommitLink, LinkTypeOK, LinkInv, RequestRow
<1>3. /\ link' = [link EXCEPT ![u] = k]
      /\ request' = [request EXCEPT ![c].consumed = TRUE]
      /\ used' = used \cup {c}
      /\ tx' = [tx EXCEPT ![h] = None]
      /\ now' = now /\ enabled' = enabled
      /\ NoConflict(u, k)
  BY DEF CommitLink
<1>4. tx[h] # None
  BY DEF CommitLink
<1> HIDE DEF c, k, u
<1>5. [request[c] EXCEPT !.consumed = TRUE] \in RequestRow
  BY <1>2 DEF RequestRow
<1>6. request' = [request EXCEPT ![c] = [request[c] EXCEPT !.consumed = TRUE]]
  BY <1>3
<1>7. /\ request'[c] # None /\ request'[c].consumed
      /\ \A b \in Codes \ {c} : request'[b] = request[b]
  BY <1>1, <1>2, <1>5, <1>6 DEF LinkTypeOK, NoRow, RequestRow
<1>8. LinkTypeOK'
  BY <1>1, <1>2, <1>3, <1>5, <1>6 DEF LinkTypeOK
<1>9. OneToOne'
  BY <1>1, <1>2, <1>3 DEF OneToOne, NoConflict, LinkInv, LinkTypeOK
<1>10. ASSUME NEW g \in Webhooks, tx'[g] # None
       PROVE  g # h /\ tx'[g] = tx[g] /\ tx[g].code # c /\ tx[g].code \in Codes
  BY <1>3, <1>4, <1>10 DEF LinkInv, LinkTypeOK, Redemption, c
<1>11. \A g \in Webhooks : tx'[g] # None =>
         request'[tx'[g].code] # None /\ ~ request'[tx'[g].code].consumed
  <2> TAKE g \in Webhooks
  <2> HAVE tx'[g] # None
  <2>1. tx'[g] = tx[g] /\ tx[g].code # c /\ tx[g].code \in Codes
    BY <1>10
  <2>2. request'[tx[g].code] = request[tx[g].code]
    BY <1>7, <2>1
  <2> QED BY <2>1, <2>2 DEF LinkInv
<1>12. \A f, g \in Webhooks :
         tx'[f] # None /\ tx'[g] # None /\ tx'[f].code = tx'[g].code => f = g
  BY <1>10 DEF LinkInv
<1>13. \A b \in used' : request'[b] # None /\ request'[b].consumed
  <2> TAKE b \in used'
  <2>1. CASE b = c
    BY <1>7, <2>1
  <2>2. CASE b # c
    BY <1>3, <1>7, <2>2 DEF LinkInv, LinkTypeOK
  <2> QED BY <2>1, <2>2
<1> QED BY <1>8, <1>9, <1>11, <1>12, <1>13 DEF LinkInv

LEMMA LinkStepInv ==
  ASSUME LinkAssumption, NoRow, LinkTypeOK, LinkInv, LinkNext
  PROVE  LinkTypeOK' /\ LinkInv'
<1>1. ASSUME NEW c \in Codes, NEW u \in Users, Issue(c, u)
      PROVE  LinkTypeOK' /\ LinkInv'
  <2> DEFINE row == [user |-> u, expires |-> now + CodeTtl, consumed |-> FALSE]
  <2>1. now + CodeTtl \in Nat
    BY DEF LinkAssumption, LinkTypeOK
  <2>2. row \in RequestRow
    BY <2>1 DEF RequestRow
  <2>3. request' = [request EXCEPT ![c] = row] /\ request[c] = None
    BY <1>1 DEF Issue
  <2>4. UNCHANGED <<now, enabled, link, tx, used>>
    BY <1>1 DEF Issue
  <2> HIDE DEF row
  <2>5. LinkTypeOK'
    BY <2>2, <2>3, <2>4 DEF LinkTypeOK
  <2>6. \A b \in Codes : request[b] # None => request'[b] = request[b]
    BY <2>3 DEF LinkTypeOK
  <2>7. \A h \in Webhooks : tx[h] # None => tx[h].code \in Codes
    BY DEF LinkTypeOK, Redemption
  <2>8. \A h \in Webhooks : tx'[h] # None =>
          request'[tx'[h].code] # None /\ ~ request'[tx'[h].code].consumed
    BY <2>4, <2>6, <2>7 DEF LinkInv
  <2>9. \A b \in used' : request'[b] # None /\ request'[b].consumed
    BY <2>4, <2>6 DEF LinkInv, LinkTypeOK
  <2>10. OneToOne'
    BY <2>4 DEF LinkInv, OneToOne
  <2>11. \A g, h \in Webhooks :
           tx'[g] # None /\ tx'[h] # None /\ tx'[g].code = tx'[h].code => g = h
    BY <2>4 DEF LinkInv
  <2> QED BY <2>5, <2>8, <2>9, <2>10, <2>11 DEF LinkInv
<1>2. ASSUME NEW h \in Webhooks, NEW c \in Codes, NEW k \in Chats, SelectRequest(h, c, k)
      PROVE  LinkTypeOK' /\ LinkInv'
  <2> DEFINE open == [code |-> c, chat |-> k]
  <2>1. open \in Redemption /\ open # None /\ open.code = c
    BY DEF Redemption, NoRow
  <2>2. /\ tx' = [tx EXCEPT ![h] = open]
        /\ RowFree(c) /\ request[c] # None /\ ~ request[c].consumed
        /\ UNCHANGED <<now, enabled, request, link, used>>
    BY <1>2 DEF SelectRequest
  <2> HIDE DEF open
  <2>3. LinkTypeOK'
    BY <2>1, <2>2 DEF LinkTypeOK
  <2>4. \A g \in Webhooks : tx'[g] = IF g = h THEN open ELSE tx[g]
    BY <2>2 DEF LinkTypeOK
  <2> QED BY <2>1, <2>2, <2>3, <2>4 DEF LinkInv, OneToOne, RowFree
<1>3. ASSUME NEW h \in Webhooks, CommitLink(h) PROVE LinkTypeOK' /\ LinkInv'
  BY <1>3, CommitLinkStep
<1>4. ASSUME NEW h \in Webhooks, EndUnlinked(h) PROVE LinkTypeOK' /\ LinkInv'
  BY <1>4 DEF EndUnlinked, LinkTypeOK, LinkInv, OneToOne
<1>5. ASSUME NEW u \in Users, SetEnabled(u) PROVE LinkTypeOK' /\ LinkInv'
  BY <1>5 DEF SetEnabled, LinkTypeOK, LinkInv, OneToOne
<1>6. ASSUME NEW u \in Users, DropLink(u) PROVE LinkTypeOK' /\ LinkInv'
  BY <1>6 DEF DropLink, LinkTypeOK, LinkInv, OneToOne
<1>7. CASE Tick
  BY <1>7 DEF Tick, LinkTypeOK, LinkInv, OneToOne
<1> QED BY <1>1, <1>2, <1>3, <1>4, <1>5, <1>6, <1>7 DEF LinkNext

LEMMA LinkStart ==
  ASSUME LinkAssumption, LinkInit
  PROVE  LinkTypeOK /\ LinkInv
BY DEF LinkInit, LinkTypeOK, LinkInv

-----------------------------------------------------------------------------
(* The run.                                                                *)

\* The steps at which the gate has been asked about the run's user.
Asking == {"link", "tier", "post"}

\* Why SentWhileEligible is inductive: each read leaves what it found among
\* the facts that have held since.
GateInv ==
  /\ run.step \notin Asking => run.user = 0
  /\ run.step \in Asking => run.user \in Users /\ "enabled" \in held
  /\ run.step \in {"tier", "post"} => run.chat \in Chats /\ run.chat \in held
  /\ run.step = "post" => "pro" \in held

\* Why EachLinkedUserOnce is inductive: while pages are read, whoever was
\* linked all the time and comes before the next page has been listed; later
\* he is listed or has had his turn.
ListInv ==
  /\ run.step \in {"idle", "scan", "load", "digest", "fan"} =>
       run.listed = {} /\ tried = {} /\ ~ run.complete /\ run.after = 0
  /\ run.step = "list" =>
       /\ tried = {} /\ ~ run.complete
       /\ \A u \in run.listed : u <= run.after
       /\ \A u \in due : link[u] # None /\ (u <= run.after => u \in run.listed)
  /\ run.step \in {"turn"} \cup Asking => due \subseteq run.listed \cup tried
  /\ run.step = "record" /\ run.complete =>
       due \subseteq run.listed \cup tried /\ run.listed = {}
  /\ run.listed \cap tried = {}

\* A run that compares finds a snapshot.
LoadInv == run.step = "load" => snapshot # None

RunTypeOK ==
  /\ snapshot \in Snapshots \cup {None}
  /\ run \in Run
  /\ latestRun \in {"NONE", "HEALTHY", "DEGRADED"}
  /\ pro \subseteq Users /\ due \subseteq Users /\ tried \subseteq Users
  /\ held \subseteq {"enabled", "pro"} \cup Chats

LEMMA RunIdleType == RunIdle \in Run
BY DEF RunIdle, Run, RunSteps

LEMMA AlertsType ==
  ASSUME NEW old \in Snapshots \cup {None}, NEW new \in Snapshots
  PROVE  Alerts(old, new) \subseteq Markets
<1>1. PICK S \in SUBSET Markets : new \in [S -> Coin]
  BY DEF Snapshots
<1> QED BY <1>1 DEF Alerts, Changes

\* What every step of Next does to the histories.
LEMMA HistoryType ==
  ASSUME LinkTypeOK', run' \in Run, run \in Run, tried \subseteq Users,
         held \subseteq {"enabled", "pro"} \cup Chats, Remember
  PROVE  tried' \subseteq Users /\ held' \subseteq {"enabled", "pro"} \cup Chats
<1>1. run.listed \subseteq Users
  BY DEF Run
<1>2. Facts(run.user)' \subseteq {"enabled", "pro"} \cup Chats
  BY DEF Facts
<1> QED BY <1>1, <1>2 DEF Remember

\* A step of the run itself.
LEMMA RunTypeStep ==
  ASSUME LinkAssumption, AutomationAssumption, LinkTypeOK, RunTypeOK, LoadInv, GateInv,
         Step
  PROVE  /\ snapshot' \in Snapshots \cup {None} /\ run' \in Run
         /\ latestRun' \in {"NONE", "HEALTHY", "DEGRADED"}
         /\ pro' \subseteq Users /\ due' \subseteq Users
         /\ LoadInv'
<1> DEFINE Goal == /\ snapshot' \in Snapshots \cup {None} /\ run' \in Run
                   /\ latestRun' \in {"NONE", "HEALTHY", "DEGRADED"}
                   /\ pro' \subseteq Users /\ due' \subseteq Users
                   /\ LoadInv'
<1>0. run \in Run
  BY DEF RunTypeOK
<1>1. ASSUME UNCHANGED <<snapshot, latestRun, pro>>, due' \subseteq Users,
             run' \in Run, run'.step = "load" => run.step = "load"
      PROVE  Goal
  BY <1>1 DEF RunTypeOK, LoadInv
<1>2. \A s \in RunSteps \ {"load"} : run' = [run EXCEPT !.step = s] =>
        run' \in Run /\ run'.step # "load"
  BY <1>0 DEF Run, RunSteps
<1>3. RunIdle \in Run /\ RunIdle.step # "load"
  BY RunIdleType DEF RunIdle
<1>4. CASE LoadPrevious
  <2>1. run' \in Run /\ run'.step # "load"
    BY <1>4 DEF LoadPrevious, RunTypeOK, RunIdle, Run, RunSteps
  <2> QED BY <1>1, <1>4, <2>1 DEF LoadPrevious, RunTypeOK
<1>5. ASSUME NEW s \in Scans, Generate(s) \/ ManualSnapshot(s) PROVE Goal
  <2>1. s \in Snapshots /\ s # None
    BY DEF AutomationAssumption
  <2>3. run' \in Run
    BY <1>0, <1>5 DEF Generate, Goto, ManualSnapshot, Run, RunSteps
  <2> QED BY <1>5, <2>1, <2>3 DEF Generate, ManualSnapshot, RunTypeOK, LoadInv
<1>6. CASE Compare
  <2>1. run.previous \in Snapshots \cup {None} /\ snapshot \in Snapshots
    BY <1>0, <1>6 DEF Compare, At, RunTypeOK, LoadInv, Run
  <2>2. Alerts(run.previous, snapshot) \in SUBSET Markets
    BY <2>1, AlertsType
  <2> DEFINE alerts == Alerts(run.previous, snapshot)
  <2>4. run' = [run EXCEPT !.step = "digest", !.previous = None, !.alerts = alerts]
    BY <1>6 DEF Compare
  <2> HIDE DEF alerts
  <2>5. alerts \in SUBSET Markets
    BY <2>2 DEF alerts
  <2>3. run' \in Run /\ run'.step # "load"
    BY <1>0, <2>4, <2>5 DEF Run, RunSteps
  <2> QED BY <1>1, <1>6, <2>3 DEF Compare, RunTypeOK
<1>7. CASE SendDigest
  <2>1. run' \in Run /\ run'.step # "load"
    <3>1. PICK t \in {"SENT", "SKIPPED", "FAILED"} :
            run' = [run EXCEPT !.step = "fan", !.telegram = t]
      BY <1>7 DEF SendDigest
    <3> QED BY <1>0, <3>1 DEF Run, RunSteps
  <2> QED BY <1>1, <1>7, <2>1 DEF SendDigest, RunTypeOK
<1>8. CASE StartFanOut
  <2>1. {"list", "record"} \subseteq RunSteps \ {"load"}
    BY DEF RunSteps
  <2>2. run' \in Run /\ run'.step # "load"
    BY <1>2, <1>8, <2>1 DEF StartFanOut, Goto
  <2> QED BY <1>1, <1>8, <2>2 DEF StartFanOut, RunTypeOK
<1>9. CASE ListPage
  <2>1. run.listed \cup LinkedAfter(run.after) \in SUBSET Users
    BY <1>0 DEF Run, LinkedAfter
  <2>2. \A page \in SUBSET LinkedAfter(run.after) : run.listed \cup page \in SUBSET Users
    BY <2>1
  <2> DEFINE all == run.listed \cup LinkedAfter(run.after)
  <2>4. ASSUME run' = [run EXCEPT !.step = "turn", !.complete = TRUE, !.after = 0,
                                  !.listed = all]
        PROVE  run' \in Run /\ run'.step # "load"
    <3> HIDE DEF all
    <3>1. all \in SUBSET Users
      BY <2>1 DEF all
    <3> QED BY <1>0, <2>4, <3>1 DEF Run, RunSteps
  <2>5. ASSUME NEW page \in SUBSET LinkedAfter(run.after), NEW last \in Users,
               run' = [run EXCEPT !.listed = @ \cup page, !.after = last]
        PROVE  run' \in Run /\ run'.step = run.step
    <3> DEFINE more == run.listed \cup page
    <3>1. run' = [run EXCEPT !.listed = more, !.after = last] /\ more \in SUBSET Users
      BY <1>0, <2>2, <2>5 DEF Run
    <3> HIDE DEF more
    <3> QED BY <1>0, <3>1 DEF Run, RunSteps
  <2>6. run.step # "load"
    BY <1>9 DEF ListPage, At
  <2>3. run' \in Run /\ run'.step # "load"
    BY <1>0, <1>9, <2>4, <2>5, <2>6 DEF ListPage, Run
  <2> QED BY <1>1, <1>9, <2>3 DEF ListPage, RunTypeOK
<1>10. CASE FanOutFails \/ EndFanOut
  <2>1. "record" \in RunSteps \ {"load"}
    BY DEF RunSteps
  <2> QED BY <1>1, <1>2, <1>10, <2>1 DEF FanOutFails, EndFanOut, Goto, RunTypeOK
<1>11. ASSUME NEW u \in Users, TakeTurn(u) PROVE Goal
  <2>1. run.listed \ {u} \in SUBSET Users
    BY <1>0 DEF Run
  <2>2. run' \in Run /\ (run'.step = "load" => run.step = "load")
    BY <1>0, <1>11, <2>1 DEF TakeTurn, Run, RunSteps
  <2> QED BY <1>1, <1>11, <2>2 DEF TakeTurn, RunTypeOK
<1>12. ASSUME NEW u \in Users, ChangeSubscription(u) PROVE Goal
  BY <1>12 DEF ChangeSubscription, RunTypeOK, LoadInv
<1>13. CASE ReadLink
  <2>1. run.user \in Users => link[run.user] \in Chats
    BY <1>13 DEF ReadLink, LinkTypeOK
  <2>2. run.user \in Users
    BY <1>13 DEF ReadLink, At, GateInv, Asking
  <2>3. run' \in Run /\ run'.step # "load"
    BY <1>0, <1>13, <2>1, <2>2 DEF ReadLink, Run, RunSteps
  <2> QED BY <1>1, <1>13, <2>3 DEF ReadLink, RunTypeOK
<1>14. CASE ReadTier
  <2>1. "post" \in RunSteps \ {"load"}
    BY DEF RunSteps
  <2> QED BY <1>1, <1>2, <1>14, <2>1 DEF ReadTier, Goto, RunTypeOK
<1>15. CASE Deny \/ PostAlert
  <2>1. run' \in Run /\ run'.step # "load"
    BY <1>0, <1>15 DEF Deny, PostAlert, EndTurn, Run, RunSteps
  <2> QED BY <1>1, <1>15, <2>1 DEF Deny, PostAlert, RunTypeOK
<1>16. CASE Record
  BY <1>3, <1>16 DEF Record, RunTypeOK, LoadInv
<1>17. CASE RunFails
  BY <1>1, <1>3, <1>17 DEF RunFails, RunTypeOK
<1>18. CASE LinkStep
  BY <1>1, <1>0, <1>18 DEF LinkStep, autoVars, RunTypeOK
<1> QED BY <1>4, <1>5, <1>6, <1>7, <1>8, <1>9, <1>10, <1>11, <1>12, <1>13,
           <1>14, <1>15, <1>16, <1>17, <1>18 DEF Step

-----------------------------------------------------------------------------
(* What the gate has found still held since it was asked.                  *)

\* A step that leaves the run's user as he is forgets nothing of him, and
\* what holds of the user after a step is remembered.
LEMMA FactsHeld ==
  ASSUME Remember
  PROVE  /\ run'.user = 0 => held' = {}
         /\ run'.user # 0 => /\ run'.user = run.user => held \subseteq held'
                             /\ Facts(run.user)' \subseteq held'
BY DEF Remember

LEMMA GateKept ==
  ASSUME GateInv, Remember, 0 \notin Users, run'.user = run.user,
         run'.step = run.step, run'.chat = run.chat
  PROVE  GateInv'
BY FactsHeld DEF GateInv, Asking

LEMMA GateStep ==
  ASSUME LinkAssumption, LinkTypeOK, RunTypeOK, GateInv, Step, Remember
  PROVE  GateInv'
<1>0. run \in Run /\ 0 \notin Users
  BY DEF RunTypeOK, LinkAssumption
<1>1. ASSUME run'.step \notin Asking, run'.user = 0 PROVE GateInv'
  BY <1>1 DEF GateInv, Asking
<1>2. \A s \in RunSteps : run' = [run EXCEPT !.step = s] =>
        run'.step = s /\ run'.user = run.user /\ run'.chat = run.chat
  BY <1>0 DEF Run
<1>3. RunIdle.step = "idle" /\ RunIdle.user = 0
  BY DEF RunIdle
<1>4. CASE LoadPrevious
  <2>1. run'.step = "scan" /\ run'.user = 0
    BY <1>4 DEF LoadPrevious, RunIdle
  <2> QED BY <1>1, <2>1 DEF Asking
<1>5. ASSUME NEW s \in Scans, Generate(s) PROVE GateInv'
  <2>1. run'.step = "load" /\ run'.user = run.user /\ run.user = 0
    BY <1>0, <1>5 DEF Generate, Goto, At, GateInv, Asking, Run
  <2> QED BY <1>1, <2>1 DEF Asking
<1>6. ASSUME NEW s \in Scans, ManualSnapshot(s) PROVE GateInv'
  BY <1>0, <1>6, GateKept DEF ManualSnapshot
<1>7. CASE Compare
  <2>1. run'.step = "digest" /\ run'.user = run.user /\ run.user = 0
    BY <1>0, <1>7 DEF Compare, At, GateInv, Asking, Run
  <2> QED BY <1>1, <2>1 DEF Asking
<1>8. CASE SendDigest
  <2>1. run'.step = "fan" /\ run'.user = run.user /\ run.user = 0
    BY <1>0, <1>8 DEF SendDigest, At, GateInv, Asking, Run
  <2> QED BY <1>1, <2>1 DEF Asking
<1>9. CASE StartFanOut
  <2>1. run'.step \in {"list", "record"} /\ run'.user = run.user /\ run.user = 0
    BY <1>0, <1>9 DEF StartFanOut, Goto, At, GateInv, Asking, Run
  <2> QED BY <1>1, <2>1 DEF Asking
<1>10. CASE ListPage
  <2>1. run'.step \in {"list", "turn"} /\ run'.user = run.user /\ run.user = 0
    BY <1>0, <1>10 DEF ListPage, At, GateInv, Asking, Run
  <2> QED BY <1>1, <2>1 DEF Asking
<1>11. CASE FanOutFails \/ EndFanOut
  <2>1. run'.step = "record" /\ run'.user = run.user /\ run.user = 0
    BY <1>0, <1>11 DEF FanOutFails, EndFanOut, Goto, At, GateInv, Asking, Run
  <2> QED BY <1>1, <2>1 DEF Asking
<1>12. ASSUME NEW u \in Users, TakeTurn(u) PROVE GateInv'
  <2>1. run.user = 0
    BY <1>12 DEF TakeTurn, At, GateInv, Asking
  <2>2. CASE run' = [run EXCEPT !.listed = @ \ {u}]
    <3>1. run'.step = "turn" /\ run'.user = 0
      BY <1>0, <1>12, <2>1, <2>2 DEF TakeTurn, At, Run
    <3> QED BY <1>1, <3>1 DEF Asking
  <2>3. CASE /\ u \in enabled
             /\ run' = [run EXCEPT !.listed = @ \ {u}, !.user = u, !.step = "link"]
    <3>1. run'.step = "link" /\ run'.user = u /\ u # 0
      BY <1>0, <2>3 DEF Run
    <3>2. "enabled" \in Facts(run.user)'
      BY <1>12, <2>3, <3>1 DEF TakeTurn, linkVars, Facts
    <3>3. "enabled" \in held'
      BY <3>1, <3>2, FactsHeld
    <3> QED BY <3>1, <3>3 DEF GateInv, Asking
  <2> QED BY <1>12, <2>2, <2>3 DEF TakeTurn
<1>13. ASSUME NEW u \in Users, ChangeSubscription(u) PROVE GateInv'
  BY <1>0, <1>13, GateKept DEF ChangeSubscription
<1>14. CASE ReadLink
  <2>1. run.user \in Users /\ "enabled" \in held
    BY <1>14 DEF ReadLink, At, GateInv, Asking
  <2>2. run'.step = "tier" /\ run'.user = run.user /\ run'.chat = link[run.user]
    BY <1>0, <1>14 DEF ReadLink, Run
  <2>3. link[run.user] \in Chats
    BY <1>14, <2>1 DEF ReadLink, LinkTypeOK
  <2>4. run'.chat \in Facts(run.user)'
    BY <1>14, <2>2, <2>3 DEF ReadLink, linkVars, Facts
  <2>5. "enabled" \in held' /\ run'.chat \in held'
    BY <1>0, <2>1, <2>2, <2>4, FactsHeld
  <2> QED BY <2>1, <2>2, <2>3, <2>5 DEF GateInv, Asking
<1>15. CASE ReadTier
  <2>1. /\ run.user \in Users /\ "enabled" \in held /\ run.chat \in Chats
        /\ run.chat \in held /\ run.user \in pro
    BY <1>15 DEF ReadTier, At, GateInv, Asking
  <2>2. run'.step = "post" /\ run'.user = run.user /\ run'.chat = run.chat
    BY <1>0, <1>15 DEF ReadTier, Goto, Run
  <2>3. "pro" \in Facts(run.user)'
    BY <1>15, <2>1, <2>2 DEF ReadTier, Facts
  <2>4. {"enabled", "pro", run'.chat} \subseteq held'
    BY <1>0, <2>1, <2>2, <2>3, FactsHeld
  <2> QED BY <2>1, <2>2, <2>4 DEF GateInv, Asking
<1>16. CASE Deny \/ PostAlert
  <2>1. run'.step = "turn" /\ run'.user = 0
    BY <1>0, <1>16 DEF Deny, PostAlert, EndTurn, Run
  <2> QED BY <1>1, <2>1 DEF Asking
<1>17. CASE Record \/ RunFails
  BY <1>1, <1>3, <1>17 DEF Record, RunFails, Asking
<1>18. CASE LinkStep
  BY <1>0, <1>18, GateKept DEF LinkStep, autoVars
<1> QED BY <1>4, <1>5, <1>6, <1>7, <1>8, <1>9, <1>10, <1>11, <1>12, <1>13,
           <1>14, <1>15, <1>16, <1>17, <1>18 DEF Step

-----------------------------------------------------------------------------
(* The listing and the turns.                                              *)

\* A user's turn has come once the run has taken him off the list.
LEMMA TriedStep ==
  ASSUME Remember
  PROVE  /\ run'.step = "idle" => tried' = {}
         /\ run'.step # "idle" => tried' = tried \cup (run.listed \ run'.listed)
BY DEF Remember

LEMMA ListKept ==
  ASSUME ListInv, Remember, run'.step = run.step, run'.listed = run.listed,
         run'.complete = run.complete, run'.after = run.after,
         due' \subseteq due, \A u \in due' : link'[u] # None
  PROVE  ListInv'
<1>1. tried' = tried
  BY TriedStep DEF ListInv
<1> QED BY <1>1 DEF ListInv, Asking

LEMMA ListStep ==
  ASSUME LinkAssumption, RunTypeOK, ListInv, Step, Remember
  PROVE  ListInv'
<1>0. run \in Run /\ Users \subseteq Nat \ {0} /\ due \subseteq Users
  BY DEF RunTypeOK, LinkAssumption
<1>1. ASSUME run'.step \in {"idle", "scan", "load", "digest", "fan"},
             run'.listed = {}, ~ run'.complete, run'.after = 0,
             (run.listed = {} /\ tried = {}) \/ run'.step = "idle"
      PROVE  ListInv'
  <2>1. tried' = {}
    BY <1>1, TriedStep
  <2> QED BY <1>1, <2>1 DEF ListInv, Asking
<1>2. ASSUME due' = due, run'.step \in {"turn"} \cup Asking, run'.listed = run.listed,
             run.step \in {"turn"} \cup Asking
      PROVE  ListInv'
  <2>1. tried' = tried
    BY <1>2, TriedStep DEF Asking
  <2> QED BY <1>2, <2>1 DEF ListInv, Asking
<1>3. ASSUME run' = RunIdle PROVE ListInv'
  BY <1>1, <1>3 DEF RunIdle
<1>4. CASE LoadPrevious
  BY <1>1, <1>4 DEF LoadPrevious, RunIdle, At, ListInv
<1>5. ASSUME NEW s \in Scans, Generate(s) PROVE ListInv'
  BY <1>0, <1>1, <1>5 DEF Generate, Goto, At, ListInv, Run
<1>6. ASSUME NEW s \in Scans, ManualSnapshot(s) PROVE ListInv'
  <2>1. UNCHANGED <<run, due, link>>
    BY <1>6 DEF ManualSnapshot, linkVars
  <2>2. run.step = "list" => \A u \in due : link[u] # None
    BY DEF ListInv
  <2>3. tried' = tried
    BY <2>1, TriedStep DEF ListInv
  <2> QED BY <2>1, <2>3 DEF ListInv, Asking
<1>7. CASE Compare
  BY <1>0, <1>1, <1>7 DEF Compare, At, ListInv, Run
<1>8. CASE SendDigest
  BY <1>0, <1>1, <1>8 DEF SendDigest, At, ListInv, Run
<1>9. CASE StartFanOut
  <2>1. /\ run.listed = {} /\ tried = {} /\ ~ run.complete /\ run.after = 0
        /\ run'.listed = {} /\ ~ run'.complete /\ run'.after = 0
    BY <1>0, <1>9 DEF StartFanOut, Goto, At, ListInv, Run
  <2>2. tried' = {}
    BY <2>1, TriedStep
  <2>3. CASE Goto("list") /\ due' = {u \in Users : link[u] # None}
    <3>1. run'.step = "list" /\ \A u \in Users : ~ (u <= run'.after)
      BY <1>0, <2>1, <2>3 DEF Goto, Run
    <3>2. \A u \in due' : link'[u] # None /\ ~ (u <= run'.after)
      BY <1>9, <2>3, <3>1 DEF StartFanOut, linkVars
    <3> QED BY <2>1, <2>2, <3>1, <3>2 DEF ListInv, Asking
  <2>4. CASE Goto("record")
    <3>1. run'.step = "record"
      BY <1>0, <2>4 DEF Goto, Run
    <3> QED BY <2>1, <2>2, <3>1 DEF ListInv, Asking
  <2> QED BY <1>9, <2>3, <2>4 DEF StartFanOut
<1>10. CASE ListPage
  <2>1. /\ run.step = "list" /\ tried = {} /\ ~ run.complete
        /\ \A u \in run.listed : u <= run.after
        /\ \A u \in due : link[u] # None /\ (u <= run.after => u \in run.listed)
        /\ due' = due /\ link' = link
        /\ run.after \in Nat /\ run.listed \subseteq Users
    <3>1. run.step = "list" /\ due' = due /\ link' = link
      BY <1>10 DEF ListPage, At, linkVars
    <3>2. run.listed \subseteq Users
      BY <1>0 DEF Run
    <3>3. run.after \in Users \cup {0}
      BY <1>0 DEF Run
    <3>4. run.after \in Nat
      <4>1. \A u \in Users \cup {0} : u \in Nat
        BY <1>0
      <4> QED BY <3>3, <4>1
    <3> QED BY <3>1, <3>2, <3>4 DEF ListInv
  <2>2. ASSUME run' = [run EXCEPT !.step = "turn", !.complete = TRUE, !.after = 0,
                                  !.listed = @ \cup LinkedAfter(run.after)]
        PROVE  ListInv'
    <3>1. run'.step = "turn" /\ run'.listed = run.listed \cup LinkedAfter(run.after)
      BY <1>0, <2>2 DEF Run
    <3>2. tried' = {}
      BY <2>1, <3>1, TriedStep
    <3>3. due \subseteq run'.listed
      BY <1>0, <2>1, <3>1 DEF LinkedAfter
    <3> QED BY <2>1, <3>1, <3>2, <3>3 DEF ListInv, Asking
  <2>3. ASSUME NEW page \in SUBSET LinkedAfter(run.after), NEW last \in Users,
               last \in page, page = {u \in LinkedAfter(run.after) : u <= last},
               run' = [run EXCEPT !.listed = @ \cup page, !.after = last]
        PROVE  ListInv'
    <3>1. /\ run'.step = "list" /\ run'.listed = run.listed \cup page
          /\ run'.after = last /\ ~ run'.complete
      BY <1>0, <2>1, <2>3 DEF Run
    <3>2. tried' = {}
      BY <2>1, <3>1, TriedStep
    <3>3. last > run.after /\ last \in Nat
      BY <1>0, <2>3 DEF LinkedAfter
    <3>4. \A u \in run'.listed : u <= last
      <4> TAKE u \in run'.listed
      <4>1. CASE u \in page
        BY <2>3, <4>1
      <4>2. CASE u \in run.listed
        <5>1. u <= run.after /\ u \in Nat
          BY <1>0, <2>1, <4>2
        <5> QED BY <2>1, <3>3, <5>1
      <4> QED BY <3>1, <4>1, <4>2
    <3>5. \A u \in due : u <= last => u \in run'.listed
      BY <1>0, <2>1, <2>3, <3>1 DEF LinkedAfter
    <3> QED BY <2>1, <3>1, <3>2, <3>4, <3>5 DEF ListInv, Asking
  <2> QED BY <1>10, <2>2, <2>3 DEF ListPage
<1>11. CASE FanOutFails
  <2>1. /\ run'.step = "record" /\ run'.listed = run.listed
        /\ ~ run'.complete /\ tried = {}
    BY <1>0, <1>11 DEF FanOutFails, Goto, At, ListInv, Run
  <2>2. tried' = {}
    BY <2>1, TriedStep
  <2> QED BY <2>1, <2>2 DEF ListInv, Asking
<1>12. ASSUME NEW u \in Users, TakeTurn(u) PROVE ListInv'
  <2>1. /\ run.step = "turn" /\ due' = due /\ u \in run.listed
        /\ run'.listed = run.listed \ {u} /\ run'.step \in {"turn", "link"}
    BY <1>0, <1>12 DEF TakeTurn, At, Run
  <2>2. tried' = tried \cup {u}
    BY <2>1, TriedStep
  <2> QED BY <2>1, <2>2 DEF ListInv, Asking
<1>13. ASSUME NEW u \in Users, ChangeSubscription(u) PROVE ListInv'
  <2>1. UNCHANGED <<run, due, link>>
    BY <1>13 DEF ChangeSubscription, linkVars
  <2>2. tried' = tried
    BY <2>1, TriedStep DEF ListInv
  <2> QED BY <2>1, <2>2 DEF ListInv, Asking
<1>14. CASE ReadLink \/ ReadTier \/ Deny \/ PostAlert
  <2>1. /\ run.step \in {"turn"} \cup Asking /\ run'.step \in {"turn"} \cup Asking
        /\ run'.listed = run.listed /\ due' = due
    BY <1>0, <1>14 DEF ReadLink, ReadTier, Deny, PostAlert, EndTurn, Goto, At, Asking, Run
  <2> QED BY <1>2, <2>1
<1>15. CASE EndFanOut
  <2>1. /\ run.step = "turn" /\ run.listed = {} /\ run'.step = "record"
        /\ run'.listed = {} /\ due' = due
    BY <1>0, <1>15 DEF EndFanOut, Goto, At, Run
  <2>2. tried' = tried
    BY <2>1, TriedStep
  <2> QED BY <2>1, <2>2 DEF ListInv, Asking
<1>16. CASE Record \/ RunFails
  BY <1>3, <1>16 DEF Record, RunFails
<1>17. CASE LinkStep
  <2>1. run' = run /\ due' \subseteq due /\ \A u \in due' : link'[u] # None
    BY <1>17 DEF LinkStep, autoVars
  <2> QED BY <2>1, ListKept
<1> QED BY <1>4, <1>5, <1>6, <1>7, <1>8, <1>9, <1>10, <1>11, <1>12, <1>13,
           <1>14, <1>15, <1>16, <1>17 DEF Step

-----------------------------------------------------------------------------
(* The theorems.                                                           *)

IInv == TypeOK /\ LinkInv /\ LoadInv /\ GateInv /\ ListInv

LEMMA Start ==
  ASSUME LinkAssumption, Init
  PROVE  IInv
<1>1. LinkTypeOK /\ LinkInv
  BY LinkStart DEF Init
<1>2. TypeOK
  BY <1>1, RunIdleType DEF Init, TypeOK
<1> QED BY <1>1, <1>2 DEF Init, IInv, LoadInv, GateInv, ListInv, RunIdle, Asking

\* The tables of the links are changed by the steps of TelegramLink alone.
LEMMA LinkFrame ==
  ASSUME Step
  PROVE  LinkNext \/ UNCHANGED linkVars
<1>1. CASE LinkStep
  BY <1>1 DEF LinkStep
<1>2. ASSUME NEW s \in Scans, Generate(s) \/ ManualSnapshot(s)
      PROVE  UNCHANGED linkVars
  BY <1>2 DEF Generate, ManualSnapshot
<1>3. ASSUME NEW u \in Users, TakeTurn(u) \/ ChangeSubscription(u)
      PROVE  UNCHANGED linkVars
  BY <1>3 DEF TakeTurn, ChangeSubscription
<1>4. CASE LoadPrevious \/ Compare \/ SendDigest \/ StartFanOut \/ ListPage \/ FanOutFails
  BY <1>4 DEF LoadPrevious, Compare, SendDigest, StartFanOut, ListPage, FanOutFails
<1>5. CASE ReadLink \/ ReadTier \/ Deny \/ PostAlert \/ EndFanOut \/ Record \/ RunFails
  BY <1>5 DEF ReadLink, ReadTier, Deny, PostAlert, EndFanOut, Record, RunFails
<1> QED BY <1>1, <1>2, <1>3, <1>4, <1>5 DEF Step

LEMMA Preserved ==
  ASSUME LinkAssumption, NoRow, AutomationAssumption, IInv, [Next]_vars
  PROVE  IInv'
<1>0. LinkTypeOK /\ RunTypeOK
  BY DEF IInv, TypeOK, RunTypeOK
<1>1. CASE Next
  <2>1. Step /\ Remember
    BY <1>1 DEF Next
  <2>3. LinkTypeOK' /\ LinkInv'
    <3>1. CASE LinkNext
      BY <1>0, <3>1, LinkStepInv DEF IInv
    <3>2. CASE UNCHANGED linkVars
      <4>1. UNCHANGED <<now, enabled, request, link, tx, used>>
        BY <3>2 DEF linkVars
      <4> QED BY <1>0, <4>1 DEF IInv, LinkTypeOK, LinkInv, OneToOne
    <3> QED BY <2>1, <3>1, <3>2, LinkFrame
  <2>4. /\ snapshot' \in Snapshots \cup {None} /\ run' \in Run
        /\ latestRun' \in {"NONE", "HEALTHY", "DEGRADED"}
        /\ pro' \subseteq Users /\ due' \subseteq Users
        /\ LoadInv'
    BY <1>0, <2>1, RunTypeStep DEF IInv
  <2>5. tried' \subseteq Users /\ held' \subseteq {"enabled", "pro"} \cup Chats
    BY <1>0, <2>1, <2>3, <2>4, HistoryType DEF RunTypeOK
  <2>6. TypeOK'
    BY <2>3, <2>4, <2>5 DEF TypeOK
  <2>7. GateInv' /\ ListInv'
    BY <1>0, <2>1, GateStep, ListStep DEF IInv
  <2> QED BY <2>3, <2>4, <2>6, <2>7 DEF IInv
<1>2. CASE UNCHANGED vars
  <2>1. UNCHANGED <<linkVars, autoVars, history>>
    BY <1>2 DEF vars
  <2>2. UNCHANGED <<now, enabled, request, link, tx, used>>
    BY <2>1 DEF linkVars
  <2>3. UNCHANGED <<snapshot, run, latestRun, pro, due, tried, held>>
    BY <2>1 DEF autoVars, history
  <2>4. TypeOK'
    BY <2>2, <2>3 DEF IInv, TypeOK, LinkTypeOK
  <2>5. LinkInv'
    BY <2>2 DEF IInv, LinkInv, OneToOne
  <2>6. LoadInv' /\ GateInv' /\ ListInv'
    BY <2>2, <2>3 DEF IInv, LoadInv, GateInv, ListInv
  <2> QED BY <2>4, <2>5, <2>6 DEF IInv
<1> QED BY <1>1, <1>2

LEMMA Invariant == Spec => []IInv
<1>1. Init => IInv
  BY LinkAssumption, Start
<1>2. IInv /\ [Next]_vars => IInv'
  BY LinkAssumption, NoRow, AutomationAssumption, Preserved
<1> QED BY <1>1, <1>2, PTL DEF Spec

\* The tables, the snapshot and the run keep their types: the user and chat
\* a message is posted to are always those of a gate that was asked.
THEOREM TypeCorrect == Spec => []TypeOK
<1>1. IInv => TypeOK
  BY DEF IInv
<1> QED BY <1>1, Invariant, PTL

\* TelegramProAlertGate.deliver posts to nobody of whom a fact it asks for
\* has never held since it was asked, whatever changes between its reads.
THEOREM SentEligible == Spec => []SentWhileEligible
<1>1. IInv => SentWhileEligible
  BY DEF IInv, GateInv, Asking, SentWhileEligible, At
<1> QED BY <1>1, Invariant, PTL

\* TelegramCustomerDispatch reads every page of the linked users and gives
\* each one turn, for every page size and however links come and go.
THEOREM LinkedOnce == Spec => []EachLinkedUserOnce
<1>1. IInv => EachLinkedUserOnce
  BY DEF IInv, ListInv, EachLinkedUserOnce, At
<1> QED BY <1>1, Invariant, PTL

\* A step binds an account only by a code issued to it that has linked
\* nothing, and to a chat nobody else has.
LEMMA LinkStepBinds ==
  ASSUME LinkAssumption, NoRow, LinkTypeOK, LinkInv, LinkNext
  PROVE  /\ \A u \in Users : link'[u] # None /\ link'[u] # link[u] =>
              \E c \in used' \ used : request[c] # None /\ request[c].user = u
         /\ OneToOne'
<1>1. OneToOne'
  BY LinkStepInv DEF LinkInv
<1>2. ASSUME NEW h \in Webhooks, CommitLink(h), NEW u \in Users,
             link'[u] # None, link'[u] # link[u]
      PROVE  \E c \in used' \ used : request[c] # None /\ request[c].user = u
  <2> DEFINE c == tx[h].code
  <2>1. /\ c \in Codes /\ request[c] # None /\ ~ request[c].consumed
        /\ used' = used \cup {c}
        /\ link' = [link EXCEPT ![request[c].user] = tx[h].chat]
    BY <1>2 DEF CommitLink, LinkInv, LinkTypeOK, Redemption
  <2> HIDE DEF c
  <2>2. c \notin used
    BY <2>1 DEF LinkInv
  <2>3. u = request[c].user
    BY <1>2, <2>1 DEF LinkTypeOK
  <2> QED BY <2>1, <2>2, <2>3
<1>3. ASSUME NEW u \in Users, link'[u] # None, link'[u] # link[u]
      PROVE  \E h \in Webhooks : CommitLink(h)
  <2>1. link' # link
    BY <1>3
  <2>2. ASSUME NEW v \in Users, DropLink(v) PROVE FALSE
    BY <1>3, <2>2 DEF DropLink, LinkTypeOK
  <2> QED BY <2>1, <2>2 DEF LinkNext, Issue, SelectRequest, EndUnlinked, SetEnabled, Tick
<1> QED BY <1>1, <1>2, <1>3

\* A guessed or replayed code binds no account (dexsato_redeem_telegram_link),
\* for any number of redemptions that overlap, fail and are repeated.
THEOREM ReplayHarmless == Spec => ReplayBindsNothing
<1> DEFINE Binds == /\ \A u \in Users : link'[u] # None /\ link'[u] # link[u] =>
                         \E c \in used' \ used : request[c] # None /\ request[c].user = u
                    /\ \A u, v \in Users : link'[u] # None /\ link'[u] = link'[v] => u = v
<1>1. ASSUME IInv, [Next]_vars PROVE [Binds]_linkVars
  <2>1. LinkNext \/ UNCHANGED linkVars
    <3>1. CASE Next
      BY <3>1, LinkFrame DEF Next
    <3>2. CASE UNCHANGED vars
      BY <3>2 DEF vars
    <3> QED BY <1>1, <3>1, <3>2
  <2>2. CASE LinkNext
    <3>1. LinkTypeOK /\ LinkInv
      BY <1>1 DEF IInv, TypeOK
    <3> QED BY <2>2, <3>1, LinkAssumption, NoRow, LinkStepBinds DEF OneToOne
  <2> QED BY <2>1, <2>2
<1>2. Spec => [][Binds]_linkVars
  BY <1>1, Invariant, PTL DEF Spec
<1> QED BY <1>2 DEF ReplayBindsNothing
=============================================================================
