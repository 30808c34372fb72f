------------------------------- MODULE PriceFeed -------------------------------
(***************************************************************************)
(* The price feed: PriceFeedManager with its escalation ladder and the two  *)
(* providers it runs, BinanceFeed (a WebSocket with a watchdog) and         *)
(* CoinGeckoFeed (a poll) (server/services/price-feed-manager.ts,           *)
(* binance-feed.ts, coingecko-feed.ts), and the connection status it keeps  *)
(* in price-service.ts.                                                    *)
(*                                                                         *)
(* Time runs in units of the health check's interval (5 s): the check runs  *)
(* once in every unit, and a reconnect's one second delay ends in the unit  *)
(* it began in.  The other timers fire at any time.                        *)
(***************************************************************************)
EXTENDS Naturals, FiniteSetsExt

CONSTANTS
  Thresholds,   \* tick age at which each of the stages 1 to 4 begins
  Cooldown,     \* an action needs more than this since the last one
  StaleAfter,   \* watchdog: a socket silent for longer is replaced
  MaxOrphans,   \* bound: sockets nobody refers to any more that still live
  MaxRestarts   \* bound: reconnects asked for within one unit

Stages == 1..4

ASSUME FeedAssumption ==
  /\ Thresholds \in [Stages -> Nat \ {0}]
  /\ Cooldown \in Nat /\ StaleAfter \in Nat
  /\ MaxOrphans \in Nat /\ MaxRestarts \in Nat
  /\ Thresholds[1] > Cooldown
  /\ \A k \in 1..3 : Thresholds[k + 1] > Thresholds[k] + Cooldown

VARIABLES
  up,          \* manager: running
  age,         \* manager: time since lastGlobalTickTime, up to the last threshold
  stage,       \* manager: escalationStage
  since,       \* manager: time since lastEscalationAction, up to the last threshold
  active,      \* manager: activeProvider
  connected,   \* priceService's status: connected
  checked,     \* the health check of this unit has run
  running,     \* Binance: running
  ws,          \* Binance: the socket it refers to
  orphans,     \* Binance: sockets it dropped whose 'close' is still to come
  retry,       \* Binance: reconnectTimer is armed
  watchdog,    \* Binance: watchdogTimer is armed
  restarts,    \* Binance: timers armed by reconnect()
  wsAge,       \* Binance: time since lastMessageTime, just past StaleAfter at most
  polling,     \* CoinGecko: running, with its poll timer
  callback,    \* CoinGecko: onPrice is set
  reopen,      \* CoinGecko: a timer armed by reconnect() is pending
  reachable,   \* environment: the exchange can be reached
  acted        \* history: the stages whose action ran since the last price

managerVars == <<up, age, stage, since, active, connected, checked, acted>>
socketVars == <<ws, orphans, retry>>
binanceVars == <<running, socketVars, watchdog, restarts, wsAge>>
geckoVars == <<polling, callback, reopen>>
vars == <<managerVars, binanceVars, geckoVars, reachable>>

\* index.ts registers both providers and starts the manager, which starts them.
Init ==
  /\ up = TRUE /\ age = 0 /\ stage = 0 /\ since = Thresholds[4]
  /\ active = "binance" /\ connected = TRUE /\ checked = FALSE /\ acted = {}
  /\ running = TRUE /\ ws = "connecting" /\ orphans = 0 /\ retry = FALSE
  /\ watchdog = TRUE /\ restarts = 0 /\ wsAge = 0
  /\ polling = TRUE /\ callback = TRUE /\ reopen = FALSE
  /\ reachable \in BOOLEAN

Capped(n, cap) == IF n < cap THEN n ELSE cap

-----------------------------------------------------------------------------
(* Binance: sockets and timers *)

Live == {"connecting", "open", "silent"}

\* The socket the feed refers to is dropped; its 'close' comes later.
Orphaned == IF ws \in Live THEN Capped(orphans + 1, MaxOrphans) ELSE orphans

\* connect() puts a new socket in the place of the old one, whatever that does.
Connect == ws' = "connecting" /\ orphans' = Orphaned

StopBinance ==
  /\ running' = FALSE /\ watchdog' = FALSE /\ retry' = FALSE
  /\ ws' = "none" /\ orphans' = Orphaned

\* Mutant: the delayed start asks a field that stop() cleared.
ReconnectBinance_cleared ==
  /\ StopBinance
  /\ UNCHANGED <<restarts, wsAge>>

ReconnectBinance ==
  /\ StopBinance
  /\ restarts' = restarts + 1
  /\ UNCHANGED wsAge

\* The second timer of reconnect(): it does not ask whether the feed was
\* stopped, or started by another reconnect, in the meantime.
Restart ==
  /\ restarts > 0
  /\ restarts' = restarts - 1
  /\ running' = TRUE /\ watchdog' = TRUE /\ wsAge' = 0
  /\ Connect
  /\ UNCHANGED <<retry, managerVars, geckoVars, reachable>>

Opens ==
  /\ ws = "connecting" /\ reachable
  /\ ws' = "open"
  /\ UNCHANGED <<running, orphans, retry, watchdog, restarts, wsAge>>
  /\ UNCHANGED <<managerVars, geckoVars, reachable>>

\* A connection that is cut without a word.
GoesSilent ==
  /\ ws = "open"
  /\ ws' = "silent"
  /\ UNCHANGED <<running, orphans, retry, watchdog, restarts, wsAge>>
  /\ UNCHANGED <<managerVars, geckoVars, reachable>>

\* 'close' of the feed's own socket, or of one it dropped: scheduleReconnect
\* does not ask which.
Closes ==
  /\ \/ ws \in Live /\ ws' = "closed" /\ UNCHANGED orphans
     \/ orphans > 0 /\ orphans' = orphans - 1 /\ UNCHANGED ws
  /\ retry' = (retry \/ running)
  /\ UNCHANGED <<running, watchdog, restarts, wsAge, managerVars, geckoVars, reachable>>

Retry ==
  /\ retry
  /\ retry' = FALSE
  /\ Connect
  /\ UNCHANGED <<running, watchdog, restarts, wsAge, managerVars, geckoVars, reachable>>

\* Mutant: an open socket is taken for a working one.
Watchdog_trusting ==
  /\ watchdog /\ running
  /\ ws \notin {"open", "silent"}
  /\ Connect
  /\ UNCHANGED <<running, retry, watchdog, restarts, wsAge, managerVars, geckoVars, reachable>>

Watchdog ==
  /\ watchdog /\ running
  /\ ws \notin {"open", "silent"} \/ wsAge > StaleAfter
  /\ Connect
  /\ UNCHANGED <<running, retry, watchdog, restarts, wsAge, managerVars, geckoVars, reachable>>

-----------------------------------------------------------------------------
(* Prices *)

\* Mutant: only a change of the provider resets the ladder.
HandlePriceUpdate_other(source) ==
  /\ age' = 0 /\ acted' = {}
  /\ stage' = IF source = active THEN stage ELSE 0
  /\ active' = source
  /\ connected' = (connected \/ source # active)
  /\ UNCHANGED <<up, since, checked>>

\* The status is only set again when the provider changes.
HandlePriceUpdate(source) ==
  /\ age' = 0 /\ acted' = {}
  /\ stage' = 0
  /\ active' = source
  /\ connected' = (connected \/ source # active)
  /\ UNCHANGED <<up, since, checked>>

\* A message of any socket that lives, dropped or not.
Message ==
  /\ reachable /\ (ws = "open" \/ orphans > 0)
  /\ wsAge' = 0
  /\ HandlePriceUpdate("binance")
  /\ UNCHANGED <<running, socketVars, watchdog, restarts, geckoVars, reachable>>

\* fetchPrices, when it succeeds (a failed one only counts errors).
FetchPrices ==
  /\ polling /\ callback
  /\ HandlePriceUpdate("coingecko")
  /\ UNCHANGED <<binanceVars, geckoVars, reachable>>

ReconnectGecko == polling' = FALSE /\ callback' = FALSE /\ reopen' = TRUE

\* The second timer of reconnect(): stop() cleared onPrice.
Reopen ==
  /\ reopen
  /\ reopen' = FALSE
  /\ polling' = callback
  /\ UNCHANGED <<callback, managerVars, binanceVars, reachable>>

-----------------------------------------------------------------------------
(* The manager *)

\* The stages a check enters, and the one whose action it takes: the action of
\* one stage puts the others on cooldown.
Entered == {k \in Stages : age >= Thresholds[k] /\ stage < k}

\* Mutant: the cooldown is as long as two stages are apart.
Action_slow == IF since > Thresholds[1] /\ Entered # {} THEN Min(Entered) ELSE 0

Action == IF since > Cooldown /\ Entered # {} THEN Min(Entered) ELSE 0

NewStage ==
  IF age < Thresholds[1] THEN 0
  ELSE IF Entered = {} THEN stage ELSE Max(Entered)

HealthCheck ==
  /\ up /\ ~checked
  /\ checked' = TRUE
  /\ stage' = NewStage
  /\ IF Action \in {1, 3} THEN ReconnectBinance ELSE UNCHANGED binanceVars
  /\ IF Action \in {2, 3} THEN ReconnectGecko ELSE UNCHANGED geckoVars
  /\ IF Action \in 1..3 THEN since' = 0 /\ acted' = acted \cup {Action}
                         ELSE UNCHANGED <<since, acted>>
  /\ connected' = (connected /\ 4 \notin Entered)
  /\ UNCHANGED <<up, age, active, reachable>>

\* reconnect(), asked for by an administrator or by auto-remediation.
Reconnect ==
  /\ restarts < MaxRestarts
  /\ ReconnectBinance
  /\ UNCHANGED <<managerVars, geckoVars, reachable>>

Stop ==
  /\ up
  /\ up' = FALSE
  /\ StopBinance
  /\ polling' = FALSE /\ callback' = FALSE
  /\ UNCHANGED <<age, stage, since, active, connected, checked, acted>>
  /\ UNCHANGED <<restarts, wsAge, reopen, reachable>>

\* isFeedAlive, which /health answers the liveness probe with.
FeedAlive == age < Thresholds[4]

-----------------------------------------------------------------------------
(* The environment *)

Tick ==
  /\ up => checked
  /\ restarts = 0 /\ ~reopen
  /\ age' = Capped(age + 1, Thresholds[4])
  /\ since' = Capped(since + 1, Thresholds[4])
  /\ wsAge' = Capped(wsAge + 1, StaleAfter + 1)
  /\ checked' = FALSE
  /\ UNCHANGED <<up, stage, active, connected, acted>>
  /\ UNCHANGED <<running, socketVars, watchdog, restarts, geckoVars, reachable>>

Network ==
  /\ reachable' = ~reachable
  /\ UNCHANGED <<managerVars, binanceVars, geckoVars>>

\* Kubernetes restarts a pod whose liveness probe fails for long enough.
PodRestart ==
  /\ ~FeedAlive
  /\ up' = TRUE /\ age' = 0 /\ stage' = 0 /\ since' = Thresholds[4]
  /\ active' = "binance" /\ connected' = TRUE /\ checked' = FALSE /\ acted' = {}
  /\ running' = TRUE /\ ws' = "connecting" /\ orphans' = 0 /\ retry' = FALSE
  /\ watchdog' = TRUE /\ restarts' = 0 /\ wsAge' = 0
  /\ polling' = TRUE /\ callback' = TRUE /\ reopen' = FALSE
  /\ UNCHANGED reachable

Binance == Restart \/ Opens \/ GoesSilent \/ Closes \/ Retry \/ Watchdog \/ Message
Manager == HealthCheck \/ Reconnect \/ Stop

Next == Binance \/ FetchPrices \/ Reopen \/ Manager \/ Tick \/ Network \/ PodRestart

Spec == Init /\ [][Next]_vars

\* Timers fire.  A handshake with an exchange that can be reached succeeds and
\* an open socket delivers a ticker every second, so both happen however often
\* something else does.  Nothing is assumed of CoinGecko, of an administrator
\* or of Kubernetes.
Fairness ==
  /\ WF_vars(Tick) /\ WF_vars(HealthCheck)
  /\ WF_vars(Restart) /\ WF_vars(Retry) /\ WF_vars(Watchdog) /\ WF_vars(Reopen)
  /\ SF_vars(Opens) /\ SF_vars(Message)

FairSpec == Spec /\ Fairness

-----------------------------------------------------------------------------
(* Properties *)

TypeOK ==
  /\ up \in BOOLEAN /\ connected \in BOOLEAN /\ checked \in BOOLEAN
  /\ age \in 0..Thresholds[4] /\ stage \in 0..4 /\ since \in 0..Thresholds[4]
  /\ active \in {"binance", "coingecko"}
  /\ acted \subseteq 1..3
  /\ running \in BOOLEAN /\ retry \in BOOLEAN /\ watchdog \in BOOLEAN
  /\ ws \in Live \cup {"none", "closed"}
  /\ orphans \in 0..MaxOrphans /\ restarts \in Nat /\ wsAge \in 0..(StaleAfter + 1)
  /\ polling \in BOOLEAN /\ callback \in BOOLEAN /\ reopen \in BOOLEAN
  /\ reachable \in BOOLEAN

\* After every health check the stage is exactly the one the age of the last
\* price calls for, however prices of two providers and checks interleave.
StageFollowsAge ==
  up /\ checked => \A k \in Stages : stage >= k <=> age >= Thresholds[k]

\* The cooldown never swallows the action of a stage, which would not be tried
\* again: a ladder that has reached a stage took the action of every stage up
\* to it since the last price.
EveryStageActs == \A k \in 1..3 : stage >= k => k \in acted

\* The primary is never abandoned: a feed that was not stopped runs under its
\* watchdog or is about to be started again, with no timer left of the sockets
\* before, whichever reconnects overlap.
PrimaryNeverAbandoned ==
  /\ running <=> watchdog
  /\ retry => running
  /\ up /\ ~running => restarts > 0

\* Once the exchange can be reached for good, prices flow again, whatever
\* sockets were lost, silent or left over by then (watchdog, scheduleReconnect
\* and reconnect together), and without a restart of the pod.
PricesResume == <>[](up /\ reachable) => []<>(age = 0)

\* price-feed-manager.ts: "Stage 2 (30s stale): Failover to secondary provider".
\* The provider it fails over to keeps running.
SecondaryComesBack == ~polling ~> polling \/ ~up
=============================================================================
