---------------------------- MODULE PoolRotation ----------------------------
(***************************************************************************)
(* DiscoveryCollector with the history of its scans: how often in a row    *)
(* each pool was passed over while the list of pools did not change and no *)
(* cycle was lost after it had moved the cursor.                           *)
(***************************************************************************)
EXTENDS DiscoveryCollector

VARIABLES
  list,    \* the ranking the last scan rotated over
  passed   \* consecutive scans of it that did not look at the pool

rotationVars == <<vars, list, passed>>

NoPass == [t \in Tokens |-> 0]
RotationInit == Init /\ list = << >> /\ passed = NoPass

\* A new ranking starts the count again; so does a scan that never came.
RotationNext ==
  /\ Next
  /\ IF pc = "scan" /\ pc' = "idle" /\ lost' = lost
     THEN /\ list' = Rank(mem)
          /\ passed' = [t \in Tokens |->
               IF t \notin Pools(mem) \/ t \in Window THEN 0
               ELSE IF list = Rank(mem) THEN passed[t] + 1 ELSE 1]
     ELSE IF pc \in {"status", "scan"} /\ lost' # lost
     THEN list' = << >> /\ passed' = NoPass
     ELSE UNCHANGED <<list, passed>>

RotationSpec == RotationInit /\ [][RotationNext]_rotationVars

\* The rotation, whose cursor the processes hand on in state.json, starves
\* no pool while the ranking stays what it is: a pool is passed over by
\* fewer scans in a row than a round of the pools has windows
\* (qualify_discovery_candidates, main: rotation_start).
EveryPoolInTurn ==
  \A t \in Tokens : passed[t] * Take < Cardinality(DOMAIN list) \/ passed[t] = 0
===============================================================================
