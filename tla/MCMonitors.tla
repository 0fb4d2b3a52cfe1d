----------------------------- MODULE MCMonitors ------------------------------
(* One instance of each of the components that watch the chain and of what *)
(* they run on.  They meet only through values that the models take as     *)
(* inputs, so that a behaviour exercises one of them, the part, and leaves *)
(* the others where they start.                                            *)
EXTENDS MCWatchlist, WsTransport, Detection, OracleCache, Bootstrap, MCLifecycle,
        ArbScan, NearLiquidation, Shadow, MCProfitability, PegPrices

VARIABLE part

MCEndpoints == <<[name |-> "primary", url |-> "u1", host |-> "h1"],
                 [name |-> "secondary", url |-> "u2", host |-> "h2"]>>
MCBatches == {<<1>>, <<2, 1>>}
MCReservePairs == <<[reserves |-> {"r1"}, bonus |-> 1, repay |-> 1],
                    [reserves |-> {"r2"}, bonus |-> 1, repay |-> 2]>>
MCRequests == {{"t2", "t1"}}
MCEventNames == <<"Borrow", "Repay">>
MCHistory == <<[name |-> "Borrow", account |-> "d1"], [name |-> "Repay", account |-> "d2"]>>
MCRoutes == <<[buy |-> "x", sell |-> "y"]>>
MCRouterOf == [d \in {"x", "y"} |-> IF d = "x" THEN "poolx" ELSE "routery"]
MCWatched == <<"n1", "n2">>

Parts == {"watchlist", "transport", "detection", "oracle", "bootstrap", "lifecycle",
          "arbitrage", "near", "shadow", "profit", "pegs"}

allVars == <<watchVars, transportVars, detectionVars, oracleVars, bootstrapVars, lifeVars,
             arbVars, nearVars, shadowVars, profitVars, pegVars, part>>

MonitorsInit ==
    /\ WatchInit /\ TransportInit /\ DetectionInit /\ OracleInit /\ BootstrapInit
    /\ LifecycleInit /\ ArbInit /\ NearInit /\ ShadowInit /\ ProfitInit
    /\ PegInit
    /\ part \in Parts
    /\ part # "watchlist" => ~deferred
    /\ heavy = {}
    /\ part # "detection" => hfOf = [a \in Accounts |-> "near"]
    /\ part # "bootstrap" => owing = Debtors
    /\ part # "profit" => Len(lenders) = 1
    /\ part # "pegs" => reserves = {}

(* What a step of one part leaves alone.                                   *)
Others(name) ==
    /\ part = name /\ UNCHANGED part
    /\ name # "watchlist" => UNCHANGED watchVars
    /\ name # "transport" => UNCHANGED transportVars
    /\ name # "detection" => UNCHANGED detectionVars
    /\ name # "oracle" => UNCHANGED oracleVars
    /\ name # "bootstrap" => UNCHANGED bootstrapVars
    /\ name # "lifecycle" => UNCHANGED lifeVars
    /\ name # "arbitrage" => UNCHANGED arbVars
    /\ name # "near" => UNCHANGED nearVars
    /\ name # "shadow" => UNCHANGED shadowVars
    /\ name # "profit" => UNCHANGED profitVars
    /\ name # "pegs" => UNCHANGED pegVars

MonitorsNext ==
    \/ Others("watchlist") /\ WatchNext
    \/ Others("transport") /\ TransportNext
    \/ Others("detection") /\ DetectionNext
    \/ Others("oracle") /\ OracleNext
    \/ Others("bootstrap") /\ BootstrapNext
    \/ Others("lifecycle") /\ LifecycleNext
    \/ Others("arbitrage") /\ ArbNext
    \/ Others("near") /\ NearNext
    \/ Others("shadow") /\ ShadowNext
    \/ Others("profit") /\ ProfitNext
    \/ Others("pegs") /\ PegNext

(* TransportFairness and DetectionFairness, each for its own part.         *)
MonitorsFairness ==
    /\ \A p \in Providers :
        /\ WF_transportVars(part = "transport" /\ ReportLog(p))
        /\ WF_transportVars(part = "transport" /\ FallsSilent(p))
        /\ WF_transportVars(part = "transport" /\ HeartbeatMissed(p))
        /\ WF_transportVars(part = "transport" /\ Reconnect(p))
    /\ WF_detectionVars(part = "detection" /\ ListSnapshots)
    /\ WF_detectionVars(part = "detection" /\ CooldownEnds)
    /\ \A t \in Tasks : WF_detectionVars(part = "detection" /\ TaskMoves(t))
    /\ \A a \in Accounts : WF_detectionVars(part = "detection" /\ SnapshotAges(a))

MonitorsSpec == MonitorsInit /\ [][MonitorsNext]_allVars /\ MonitorsFairness

MonitorsTypeOK ==
    /\ WatchTypeOK /\ TransportTypeOK /\ DetectionTypeOK /\ OracleTypeOK /\ BootstrapTypeOK
    /\ LifecycleTypeOK /\ ArbTypeOK /\ NearTypeOK /\ ShadowTypeOK /\ ProfitTypeOK
    /\ PegTypeOK
=============================================================================
