--------------------------- MODULE PriceFeed_proofs ---------------------------
(***************************************************************************)
(* For any thresholds that are further apart than the cooldown, any         *)
(* watchdog and any number of sockets and overlapping reconnects: the       *)
(* ladder is where the age of the last price says, no stage's action is     *)
(* skipped, and the primary feed is never left stopped.                    *)
(***************************************************************************)
EXTENDS PriceFeed, TLAPS

LEMMA Ladder ==
  /\ Thresholds \in [Stages -> Nat \ {0}]
  /\ Cooldown \in Nat /\ StaleAfter \in Nat /\ MaxOrphans \in Nat
  /\ Thresholds[1] \in Nat /\ Thresholds[1] > Cooldown
  /\ Thresholds[2] \in Nat /\ Thresholds[2] > Thresholds[1] + Cooldown
  /\ Thresholds[3] \in Nat /\ Thresholds[3] > Thresholds[2] + Cooldown
  /\ Thresholds[4] \in Nat /\ Thresholds[4] > Thresholds[3] + Cooldown
<1>1. /\ Thresholds \in [1..4 -> Nat \ {0}]
      /\ \A k \in 1..3 : Thresholds[k + 1] > Thresholds[k] + Cooldown
      /\ Cooldown \in Nat /\ StaleAfter \in Nat /\ MaxOrphans \in Nat
      /\ Thresholds[1] > Cooldown
  BY FeedAssumption DEF Stages
<1>2. /\ Thresholds[1 + 1] > Thresholds[1] + Cooldown
      /\ Thresholds[2 + 1] > Thresholds[2] + Cooldown
      /\ Thresholds[3 + 1] > Thresholds[3] + Cooldown
  BY <1>1
<1>3. QED
  BY <1>1, <1>2 DEF Stages

LEMMA CappedNat ==
  ASSUME NEW n \in Nat, NEW cap \in Nat
  PROVE  Capped(n, cap) \in 0..cap /\ Capped(n, cap) <= n
BY DEF Capped

-----------------------------------------------------------------------------
\* The ladder is never ahead of the age; a check that is due lags behind by no
\* more than the unit it is due in; and the last action is at least as long ago
\* as the stage it belongs to.
Position ==
  /\ \A k \in Stages : stage >= k => age >= Thresholds[k]
  /\ up => \A k \in Stages : age > Thresholds[k] => stage >= k
  /\ up /\ checked => \A k \in Stages : age >= Thresholds[k] => stage >= k
  /\ stage = 0 => since >= age
  /\ \A k \in 1..3 : stage = k => since >= age - Thresholds[k]

IInv == TypeOK /\ Position /\ EveryStageActs /\ PrimaryNeverAbandoned

\* A check enters one stage at a time, and its action is not on cooldown.
LEMMA OneStage ==
  ASSUME IInv, HealthCheck
  PROVE  \/ Entered = {} /\ Action = 0 /\ NewStage = stage
         \/ \E k \in Stages : /\ stage = k - 1 /\ age = Thresholds[k]
                              /\ Entered = {k} /\ Action = IF since > Cooldown THEN k ELSE 0
                              /\ NewStage = k /\ (k # 4 => since > Cooldown)
<1>1. /\ up /\ age \in Nat /\ since \in Nat /\ stage \in 0..4
      /\ \A k \in Stages : stage >= k => age >= Thresholds[k]
      /\ \A k \in Stages : age > Thresholds[k] => stage >= k
      /\ stage = 0 => since >= age
      /\ \A k \in 1..3 : stage = k => since >= age - Thresholds[k]
  BY Ladder DEF IInv, TypeOK, Position, HealthCheck
<1>2. CASE Entered = {}
  <2>1. age < Thresholds[1] => stage = 0
    BY <1>1, Ladder DEF Stages
  <2>2. QED
    BY <1>2, <2>1 DEF Action, NewStage
<1>3. CASE Entered # {}
  <2>1. PICK k \in Stages : age >= Thresholds[k] /\ stage < k
    BY <1>3 DEF Entered
  <2>2. age = Thresholds[k]
    BY <1>1, <2>1, Ladder DEF Stages
  <2>3. \A j \in Stages : /\ j < k => age > Thresholds[j]
                          /\ j > k => age < Thresholds[j]
    BY <2>2, Ladder DEF Stages
  <2>4. stage = k - 1
    BY <1>1, <2>1, <2>3, Ladder DEF Stages
  <2>5. Entered = {k}
    BY <1>1, <2>1, <2>2, <2>3, <2>4, Ladder DEF Entered, Stages
  <2>6. Min({k}) = k /\ Max({k}) = k
    BY DEF Min, Max, Stages
  <2>7. since > Cooldown \/ k = 4
    BY <1>1, <2>2, <2>4, Ladder DEF Stages
  <2>8. ~(age < Thresholds[1])
    BY <2>2, Ladder DEF Stages
  <2>9. QED
    BY <2>2, <2>4, <2>5, <2>6, <2>7, <2>8 DEF Action, NewStage
<1>4. QED
  BY <1>2, <1>3

-----------------------------------------------------------------------------
LEMMA InitIInv == Init => IInv
<1> SUFFICES ASSUME Init PROVE IInv
  OBVIOUS
<1>1. TypeOK
  <2>1. /\ 0 \in 0..Thresholds[4] /\ Thresholds[4] \in 0..Thresholds[4]
        /\ 0 \in 0..MaxOrphans /\ 0 \in 0..(StaleAfter + 1) /\ 0 \in 0..4 /\ 0 \in Nat
    BY Ladder
  <2>2. QED
    BY <2>1 DEF Init, TypeOK, Live
<1>2. Position
  BY Ladder DEF Init, Position, Stages
<1>3. EveryStageActs /\ PrimaryNeverAbandoned
  BY DEF Init, EveryStageActs, PrimaryNeverAbandoned
<1>4. QED
  BY <1>1, <1>2, <1>3 DEF IInv

LEMMA OrphansBounded ==
  ASSUME TypeOK
  PROVE  Orphaned \in 0..MaxOrphans
<1>1. orphans \in Nat /\ orphans \in 0..MaxOrphans /\ orphans + 1 \in Nat /\ MaxOrphans \in Nat
  BY Ladder DEF TypeOK
<1>2. Capped(orphans + 1, MaxOrphans) \in 0..MaxOrphans
  BY <1>1, CappedNat
<1>3. QED
  BY <1>1, <1>2 DEF Orphaned

\* Steps of the feeds and the environment that leave the manager alone.
LEMMA FeedStep ==
  ASSUME IInv,
         Restart \/ Opens \/ GoesSilent \/ Closes \/ Retry \/ Watchdog
           \/ Reopen \/ Network \/ Reconnect
  PROVE  IInv'
<1>1. UNCHANGED managerVars
  BY DEF Restart, Opens, GoesSilent, Closes, Retry, Watchdog, Reopen, Network, Reconnect
<1>2. Position' /\ EveryStageActs'
  BY <1>1 DEF IInv, Position, EveryStageActs, managerVars
<1>3. Orphaned \in 0..MaxOrphans
  BY OrphansBounded DEF IInv
<1>4. TypeOK' /\ PrimaryNeverAbandoned'
  <2> USE DEF IInv, TypeOK, PrimaryNeverAbandoned, Connect, Live, managerVars, socketVars, geckoVars
  <2>1. CASE Restart
    <3>1. restarts' \in Nat /\ 0 \in 0..(StaleAfter + 1)
      BY <2>1, Ladder DEF Restart
    <3>2. QED
      BY <2>1, <3>1, <1>1, <1>3 DEF Restart
  <2>2. CASE Opens
    BY <2>2, <1>1 DEF Opens
  <2>3. CASE GoesSilent
    BY <2>3, <1>1 DEF GoesSilent
  <2>4. CASE Closes
    <3>1. orphans' \in 0..MaxOrphans
      BY <2>4, Ladder DEF Closes
    <3>2. ws' \in Live \cup {"none", "closed"}
      BY <2>4 DEF Closes
    <3>3. QED
      BY <2>4, <3>1, <3>2, <1>1 DEF Closes
  <2>5. CASE Retry
    BY <2>5, <1>1, <1>3 DEF Retry
  <2>6. CASE Watchdog
    BY <2>6, <1>1, <1>3 DEF Watchdog
  <2>7. CASE Reopen
    <3>1. /\ polling' = callback /\ reopen' = FALSE /\ callback' = callback
          /\ UNCHANGED <<running, ws, orphans, retry, watchdog, restarts, wsAge, reachable>>
      BY <2>7 DEF Reopen, binanceVars
    <3>2. PrimaryNeverAbandoned'
      BY <1>1, <3>1
    <3>3. polling' \in BOOLEAN /\ reopen' \in BOOLEAN /\ callback' \in BOOLEAN
      BY <3>1
    <3>4. QED
      BY <1>1, <3>1, <3>2, <3>3
  <2>8. CASE Network
    BY <2>8, <1>1 DEF Network, binanceVars
  <2>9. CASE Reconnect
    <3>1. restarts' \in Nat /\ restarts' > 0
      BY <2>9 DEF Reconnect, ReconnectBinance
    <3>2. QED
      BY <2>9, <3>1, <1>1, <1>3 DEF Reconnect, ReconnectBinance, StopBinance
  <2>10. QED
    BY <2>1, <2>2, <2>3, <2>4, <2>5, <2>6, <2>7, <2>8, <2>9
<1>5. QED
  BY <1>2, <1>4 DEF IInv

\* A price puts the ladder back to its foot.
LEMMA PriceStep ==
  ASSUME IInv, Message \/ FetchPrices
  PROVE  IInv'
<1>1. /\ age' = 0 /\ stage' = 0 /\ acted' = {} /\ active' \in {"binance", "coingecko"}
      /\ connected' \in BOOLEAN /\ UNCHANGED <<up, since, checked>>
      /\ wsAge' \in 0..(StaleAfter + 1)
      /\ UNCHANGED <<running, socketVars, watchdog, restarts, geckoVars, reachable>>
  BY Ladder DEF Message, FetchPrices, HandlePriceUpdate, binanceVars, IInv, TypeOK
<1>2. TypeOK'
  BY <1>1, Ladder DEF IInv, TypeOK, socketVars, geckoVars
<1>3. Position'
  BY <1>1, Ladder DEF IInv, TypeOK, Position, Stages
<1>4. EveryStageActs' /\ PrimaryNeverAbandoned'
  BY <1>1 DEF IInv, EveryStageActs, PrimaryNeverAbandoned, socketVars
<1>5. QED
  BY <1>2, <1>3, <1>4 DEF IInv

\* A check that enters no stage changes nothing; one that enters a stage takes
\* its action.
LEMMA CheckStep ==
  ASSUME IInv, HealthCheck
  PROVE  IInv'
<1> USE DEF IInv
<1>1. /\ checked' = TRUE /\ stage' = NewStage /\ UNCHANGED <<up, age, active, reachable>>
      /\ connected' = (connected /\ 4 \notin Entered)
      /\ IF Action \in {1, 3} THEN ReconnectBinance ELSE UNCHANGED binanceVars
      /\ IF Action \in {2, 3} THEN ReconnectGecko ELSE UNCHANGED geckoVars
      /\ IF Action \in 1..3 THEN since' = 0 /\ acted' = acted \cup {Action}
                             ELSE UNCHANGED <<since, acted>>
      /\ Action \in 0..4 /\ NewStage \in 0..4
  BY OneStage DEF HealthCheck, TypeOK, Stages
<1>2. TypeOK' /\ PrimaryNeverAbandoned'
  <2>1. /\ since' \in 0..Thresholds[4] /\ acted' \subseteq 1..3 /\ connected' \in BOOLEAN
    <3>1. /\ since \in 0..Thresholds[4] /\ 0 \in 0..Thresholds[4]
          /\ acted \subseteq 1..3 /\ connected \in BOOLEAN
      BY Ladder DEF TypeOK
    <3>2. since' \in 0..Thresholds[4] /\ acted' \subseteq 1..3
      BY <1>1, <3>1
    <3>3. QED
      BY <1>1, <3>1, <3>2
  <2>2. /\ polling' \in BOOLEAN /\ callback' \in BOOLEAN /\ reopen' \in BOOLEAN
    BY <1>1 DEF TypeOK, ReconnectGecko, geckoVars
  <2>3. CASE Action \in {1, 3}
    <3>1. Orphaned \in 0..MaxOrphans
      BY OrphansBounded
    <3>2. restarts' \in Nat /\ restarts' > 0
      BY <1>1, <2>3 DEF TypeOK, ReconnectBinance
    <3>3. QED
      BY <1>1, <2>1, <2>2, <2>3, <3>1, <3>2
         DEF TypeOK, PrimaryNeverAbandoned, ReconnectBinance, StopBinance
  <2>4. CASE Action \notin {1, 3}
    BY <1>1, <2>1, <2>2, <2>4 DEF TypeOK, PrimaryNeverAbandoned, binanceVars, socketVars
  <2>5. QED
    BY <2>3, <2>4
<1>3. CASE Entered = {} /\ Action = 0 /\ NewStage = stage
  <2>1. \A k \in Stages : age >= Thresholds[k] => stage >= k
    BY <1>3, Ladder DEF Entered, TypeOK, Stages
  <2>2. Position' /\ EveryStageActs'
    BY <1>1, <1>3, <2>1 DEF Position, EveryStageActs
  <2>3. QED
    BY <1>2, <2>2
<1>4. ASSUME NEW k \in Stages, stage = k - 1, age = Thresholds[k], NewStage = k,
             Action = IF since > Cooldown THEN k ELSE 0, k # 4 => since > Cooldown
      PROVE  IInv'
  <2>1. stage' = k /\ age' = Thresholds[k]
    BY <1>1, <1>4
  <2>2. /\ k # 4 => since' = 0 /\ acted' = acted \cup {k}
        /\ k = 4 => UNCHANGED acted
    BY <1>1, <1>4 DEF Stages
  <2>3. Position'
    BY <2>1, <2>2, Ladder DEF Position, Stages
  <2>4. EveryStageActs'
    BY <1>4, <2>1, <2>2 DEF EveryStageActs, Stages
  <2>5. QED
    BY <1>2, <2>3, <2>4
<1>5. QED
  BY <1>3, <1>4, OneStage

LEMMA TickStep ==
  ASSUME IInv, Tick
  PROVE  IInv'
<1>1. /\ age \in 0..Thresholds[4] /\ since \in 0..Thresholds[4] /\ wsAge \in 0..(StaleAfter + 1)
      /\ Thresholds[4] \in Nat /\ StaleAfter \in Nat
  BY Ladder DEF IInv, TypeOK
<1>2. /\ age' \in 0..Thresholds[4] /\ since' \in 0..Thresholds[4] /\ wsAge' \in 0..(StaleAfter + 1)
      /\ age' >= age /\ age' <= age + 1
      /\ since' >= since /\ (since >= age => since' >= age')
      /\ \A n \in Nat : since >= age - n => since' >= age' - n
  BY <1>1 DEF Tick, Capped
<1>3. /\ (up => checked) /\ checked' = FALSE
      /\ UNCHANGED <<up, stage, active, connected, acted, reachable>>
      /\ UNCHANGED <<running, socketVars, watchdog, restarts, geckoVars>>
  BY DEF Tick
<1>4. TypeOK'
  BY <1>2, <1>3 DEF IInv, TypeOK, socketVars, geckoVars
<1>5. Position'
  <2>1. \A k \in Stages : stage' >= k => age' >= Thresholds[k]
    BY <1>1, <1>2, <1>3, Ladder DEF IInv, Position, Stages
  <2>2. up' => \A k \in Stages : age' > Thresholds[k] => stage' >= k
    BY <1>1, <1>2, <1>3, Ladder DEF IInv, Position, Stages
  <2>3. stage' = 0 => since' >= age'
    BY <1>2, <1>3 DEF IInv, Position
  <2>4. \A k \in 1..3 : stage' = k => since' >= age' - Thresholds[k]
    <3>1. SUFFICES ASSUME NEW k \in 1..3, stage = k PROVE since' >= age' - Thresholds[k]
      BY <1>3
    <3>2. Thresholds[k] \in Nat
      BY Ladder DEF Stages
    <3>3. since >= age - Thresholds[k]
      BY <3>1 DEF IInv, Position
    <3>4. QED
      BY <1>2, <3>2, <3>3
  <2>5. QED
    BY <1>3, <2>1, <2>2, <2>3, <2>4 DEF Position
<1>6. EveryStageActs' /\ PrimaryNeverAbandoned'
  BY <1>3 DEF IInv, EveryStageActs, PrimaryNeverAbandoned, socketVars
<1>7. QED
  BY <1>4, <1>5, <1>6 DEF IInv

LEMMA StepIInv == IInv /\ [Next]_vars => IInv'
<1> SUFFICES ASSUME IInv, [Next]_vars PROVE IInv'
  OBVIOUS
<1>1. CASE Stop
  <2>1. TypeOK' /\ PrimaryNeverAbandoned'
    BY <1>1, OrphansBounded DEF Stop, StopBinance, IInv, TypeOK, PrimaryNeverAbandoned
  <2>2. Position' /\ EveryStageActs'
    BY <1>1 DEF Stop, IInv, Position, EveryStageActs
  <2>3. QED
    BY <2>1, <2>2 DEF IInv
<1>2. CASE PodRestart
  <2>1. TypeOK'
    <3>1. /\ 0 \in 0..Thresholds[4] /\ Thresholds[4] \in 0..Thresholds[4]
          /\ 0 \in 0..MaxOrphans /\ 0 \in 0..(StaleAfter + 1) /\ 0 \in 0..4 /\ 0 \in Nat
      BY Ladder
    <3>2. QED
      BY <1>2, <3>1 DEF PodRestart, IInv, TypeOK, Live
  <2>2. Position' /\ EveryStageActs' /\ PrimaryNeverAbandoned'
    BY <1>2, Ladder DEF PodRestart, Position, EveryStageActs, PrimaryNeverAbandoned, Stages
  <2>3. QED
    BY <2>1, <2>2 DEF IInv
<1>3. CASE UNCHANGED vars
  BY <1>3 DEF vars, managerVars, binanceVars, socketVars, geckoVars, IInv, TypeOK, Position,
              EveryStageActs, PrimaryNeverAbandoned
<1>4. QED
  BY <1>1, <1>2, <1>3, FeedStep, PriceStep, CheckStep, TickStep DEF Next, Binance, Manager

-----------------------------------------------------------------------------
\* Every variable of the manager and of the feeds stays in its range.
THEOREM TypeCorrect == Spec => []TypeOK
<1>1. IInv => TypeOK
  BY DEF IInv
<1>2. QED
  BY InitIInv, StepIInv, <1>1, PTL DEF Spec

\* After a health check the escalation stage is the one the age of the last
\* price calls for.
THEOREM StageCorrect == Spec => []StageFollowsAge
<1>1. IInv => StageFollowsAge
  BY DEF IInv, Position, StageFollowsAge
<1>2. QED
  BY InitIInv, StepIInv, <1>1, PTL DEF Spec

\* No cooldown swallows the action of a stage of the ladder.
THEOREM LadderActs == Spec => []EveryStageActs
<1>1. IInv => EveryStageActs
  BY DEF IInv
<1>2. QED
  BY InitIInv, StepIInv, <1>1, PTL DEF Spec

\* The primary feed runs under its watchdog or is about to be started again.
THEOREM PrimaryIsKept == Spec => []PrimaryNeverAbandoned
<1>1. IInv => PrimaryNeverAbandoned
  BY DEF IInv
<1>2. QED
  BY InitIInv, StepIInv, <1>1, PTL DEF Spec
=============================================================================
