------------------------------- MODULE ArbScan -------------------------------
(***************************************************************************)
(* src/src/monitors/arbitrageScanner.ts, the quotes of                     *)
(* src/src/mirror/quoteEngine.ts and the opportunity queue: from a poll of *)
(* the routes to what the pipeline drains.                                 *)
(*                                                                         *)
(* One chain.  What a quote, a simulation, a price or the profitability    *)
(* engine says is free; an opportunity is its route, its probe and the     *)
(* time.  Statistics and amounts are left out.                             *)
(* A definition D_Bug is a mutant of D.                                    *)
(***************************************************************************)
EXTENDS Integers, Sequences, SequencesExt, FiniteSets

CONSTANTS
    Routes,        \* <<pair, buy dex, sell dex>>, in the order of a poll
    RouterOf,      \* by dex, its router
    MirrorPools,   \* the pools of the log source
    UseMirror,     \* USE_LOCAL_MIRROR
    Probes,        \* how many amounts are probed
    QuoteWorkers,  \* quoteConcurrency
    QuoteWindow,   \* dedupeWindowMs of the scanner and of the queue, in ticks
    QueueLimit,    \* maxEntriesPerChain
    Times          \* bound: ticks

ASSUME ArbScanAssumption ==
    /\ Routes \in Seq(ToSet(Routes)) \ {<<>>} /\ UseMirror \in BOOLEAN
    /\ \A i \in DOMAIN Routes : {Routes[i].buy, Routes[i].sell} \subseteq DOMAIN RouterOf
    /\ {Probes, QueueLimit} \subseteq Nat \ {0} /\ {QuoteWindow, Times} \subseteq Nat

VARIABLES
    now,         \* the clock
    warm,        \* AmmMirror: the pools it has a state of
    poll,        \* the timer: armed, or a poll is on its way
    routesLeft,  \* the queue of runBounded
    worker,      \* its workers
    signed,      \* dedupe of the scanner: the time of each signature
    queue,       \* the opportunities that wait
    seenIds,     \* seen of the queue
    counts,      \* history: opportunities approved, drained, displaced
    stopped      \* history: stop() was called

arbVars == <<now, warm, poll, routesLeft, worker, signed, queue, seenIds, counts, stopped>>

Signatures == [route: ToSet(Routes), probe: 1 .. Probes]
Resting == [at |-> "idle", route |-> Routes[1], probe |-> 1, quotes |-> 0, best |-> 0,
            since |-> 0, revenue |-> 0]

ArbTypeOK ==
    /\ now \in 0 .. Times /\ warm \subseteq MirrorPools
    /\ poll \in {"armed", "gas", "running", "off"} /\ stopped \in BOOLEAN
    /\ ToSet(routesLeft) \subseteq ToSet(Routes)
    /\ worker \in [QuoteWorkers -> [at: {"idle", "quote", "simulate", "price", "evaluate"},
            route: ToSet(Routes), probe: 1 .. Probes, quotes: 0 .. 1, best: 0 .. Probes,
            since: 0 .. Times, revenue: 0 .. 2]]
    /\ signed \in [Signatures -> -1 .. Times]
    /\ Len(queue) <= QueueLimit /\ \A i \in DOMAIN queue : queue[i].sig \in Signatures
    /\ \A id \in seenIds : id.sig \in Signatures

ArbInit ==
    /\ now = 0 /\ warm = {} /\ poll = "armed" /\ routesLeft = <<>>
    /\ worker = [w \in QuoteWorkers |-> Resting]
    /\ signed = [s \in Signatures |-> -1] /\ queue = <<>> /\ seenIds = {}
    /\ counts = [approved |-> 0, drained |-> 0, displaced |-> 0] /\ stopped = FALSE

(* pruneDedupe, pruneSeen: what is older than the window goes.             *)
PrunedSigned == [s \in Signatures |-> IF signed[s] < now - QuoteWindow THEN -1 ELSE signed[s]]
PrunedSeen == {id \in seenIds : id.seen >= now - QuoteWindow}

-----------------------------------------------------------------------------
(* Timers, the mirror, the consumer *)

ClockTicks ==
    /\ now < Times /\ now' = now + 1
    /\ UNCHANGED <<warm, poll, routesLeft, worker, signed, queue, seenIds, counts, stopped>>

PruneTimers ==
    /\ signed' = PrunedSigned /\ seenIds' = PrunedSeen
    /\ UNCHANGED <<now, warm, poll, routesLeft, worker, queue, counts, stopped>>

(* AmmMirrorLogSource: a Swap log with a price.                            *)
MirrorLog(pool) ==
    /\ warm' = warm \cup {pool}
    /\ UNCHANGED <<now, poll, routesLeft, worker, signed, queue, seenIds, counts, stopped>>

Drain_Keeps ==
    /\ queue' = queue /\ counts' = [counts EXCEPT !.drained = @ + Len(queue)]
    /\ UNCHANGED <<now, warm, poll, routesLeft, worker, signed, seenIds, stopped>>

Drain ==
    /\ queue' = <<>> /\ counts' = [counts EXCEPT !.drained = @ + Len(queue)]
    /\ UNCHANGED <<now, warm, poll, routesLeft, worker, signed, seenIds, stopped>>

(* stop() clears the timer that is armed; a poll on its way goes on, and   *)
(* arms the next one.                                                      *)
StopScanner ==
    /\ poll' = (IF poll = "armed" THEN "off" ELSE poll)
    /\ signed' = [s \in Signatures |-> -1] /\ stopped' = TRUE
    /\ UNCHANGED <<now, warm, routesLeft, worker, queue, seenIds, counts>>

-----------------------------------------------------------------------------
(* pollChain: the gas price, then the routes among the workers *)

PollStarts ==
    /\ poll = "armed" /\ poll' = "gas"
    /\ UNCHANGED <<now, warm, routesLeft, worker, signed, queue, seenIds, counts, stopped>>

GasPriceRead ==
    /\ poll = "gas" /\ poll' = "running" /\ routesLeft' = routesLeft \o Routes
    /\ UNCHANGED <<now, warm, worker, signed, queue, seenIds, counts, stopped>>

AllRest == routesLeft = <<>> /\ \A w \in QuoteWorkers : worker[w].at = "idle"

(* setTimeout comes later than whatever this poll did.                     *)
PollEnds ==
    /\ poll = "running" /\ AllRest /\ now < Times
    /\ poll' = "armed" /\ now' = now + 1
    /\ UNCHANGED <<warm, routesLeft, worker, signed, queue, seenIds, counts, stopped>>

Works(w, at) == worker[w].at = at
Becomes(w, next) == worker' = [worker EXCEPT ![w] = next]

TakeRoute(w) ==
    /\ Works(w, "idle") /\ routesLeft # <<>>
    /\ routesLeft' = Tail(routesLeft)
    /\ Becomes(w, [Resting EXCEPT !.at = "quote", !.route = Head(routesLeft)])
    /\ UNCHANGED <<now, warm, poll, signed, queue, seenIds, counts, stopped>>

-----------------------------------------------------------------------------
(* checkSingleDirection *)

(* The next probe, or with the last of them the best candidate, if any.    *)
NextProbe(r) ==
    IF r.probe < Probes THEN [r EXCEPT !.at = "quote", !.probe = @ + 1, !.quotes = 0]
    ELSE IF r.best # 0 THEN [r EXCEPT !.at = "evaluate", !.quotes = 0]
    ELSE Resting

(* quoteAmountOut asks the mirror for a pool at the address of the router, *)
(* and otherwise the node.                                                 *)
FromMirror(w) ==
    LET dex == IF worker[w].quotes = 0 THEN worker[w].route.buy ELSE worker[w].route.sell
    IN  UseMirror /\ RouterOf[dex] \in warm

(* The second quote also tells whether anything would be left.             *)
QuoteAnswers(w) ==
    /\ Works(w, "quote")
    /\ LET r == worker[w]
       IN  IF r.quotes = 0 THEN Becomes(w, [r EXCEPT !.quotes = 1])
           ELSE \E gains \in BOOLEAN :
                    Becomes(w, IF gains THEN [r EXCEPT !.at = "simulate"] ELSE NextProbe(r))
    /\ UNCHANGED <<now, warm, poll, routesLeft, signed, queue, seenIds, counts, stopped>>

(* The mirror does not fail.                                               *)
QuoteFails(w) ==
    /\ Works(w, "quote") /\ ~FromMirror(w)
    /\ Becomes(w, NextProbe(worker[w]))
    /\ UNCHANGED <<now, warm, poll, routesLeft, signed, queue, seenIds, counts, stopped>>

(* simulateCandidatePath, then the expected value                          *)
Simulated(w) ==
    /\ Works(w, "simulate")
    /\ \E passes \in BOOLEAN :
        Becomes(w, IF passes THEN [worker[w] EXCEPT !.at = "price"] ELSE NextProbe(worker[w]))
    /\ UNCHANGED <<now, warm, poll, routesLeft, signed, queue, seenIds, counts, stopped>>

Sig(w) == [route |-> worker[w].route, probe |-> worker[w].probe]

(* calculateExactUsdEV answers with too little, or the signature is due:   *)
(* it is taken here, before anything is approved, also by a candidate that *)
(* is not the best of its route.                                           *)
PriceAnswers(w) ==
    /\ Works(w, "price")
    /\ LET r == worker[w]
           taken == PrunedSigned[Sig(w)] # -1
       IN  \/ Becomes(w, NextProbe(r)) /\ UNCHANGED signed
           \/ /\ taken /\ signed' = PrunedSigned /\ Becomes(w, NextProbe(r))
           \/ /\ ~taken /\ signed' = [PrunedSigned EXCEPT ![Sig(w)] = now]
              /\ \E revenue \in 1 .. 2 :
                  Becomes(w, NextProbe(IF r.best = 0 \/ revenue > r.revenue
                                       THEN [r EXCEPT !.best = r.probe, !.since = now, !.revenue = revenue]
                                       ELSE r))
    /\ UNCHANGED <<now, warm, poll, routesLeft, queue, seenIds, counts, stopped>>

(* The price cache throws: the route is given up, also its best.           *)
PriceThrows(w) ==
    /\ Works(w, "price")
    /\ Becomes(w, Resting)
    /\ UNCHANGED <<now, warm, poll, routesLeft, signed, queue, seenIds, counts, stopped>>

-----------------------------------------------------------------------------
(* evaluateOpportunity and the queue's push *)

(* opportunityId: the signature and the time it was taken.                 *)
Identity(r) == [sig |-> [route |-> r.route, probe |-> r.best], at |-> r.since]

Push(id) ==
    /\ IF \E s \in PrunedSeen : s.sig = id.sig /\ s.at = id.at
       THEN queue' = queue /\ seenIds' = PrunedSeen
       ELSE /\ queue' = IF Len(queue) < QueueLimit THEN Append(queue, id) ELSE Append(Tail(queue), id)
            /\ seenIds' = PrunedSeen \cup {[sig |-> id.sig, at |-> id.at, seen |-> now]}
    /\ counts' = [counts EXCEPT !.approved = @ + 1,
                                !.displaced = IF Len(queue) = QueueLimit /\ queue' # queue THEN @ + 1 ELSE @]

Evaluated(w) ==
    /\ Works(w, "evaluate")
    /\ Becomes(w, Resting)
    /\ Push(Identity(worker[w])) \/ UNCHANGED <<queue, seenIds, counts>>
    /\ UNCHANGED <<now, warm, poll, routesLeft, signed, stopped>>

(* The simulator of the engine throws, and with it the poll; what the other*)
(* workers have left they do besides the next poll.                        *)
EvaluationThrows(w) ==
    /\ Works(w, "evaluate") /\ now < Times
    /\ Becomes(w, Resting)
    /\ routesLeft' = IF \A v \in QuoteWorkers \ {w} : Works(v, "idle") THEN <<>> ELSE routesLeft
    /\ IF poll = "running" THEN poll' = "armed" /\ now' = now + 1 ELSE UNCHANGED <<poll, now>>
    /\ UNCHANGED <<warm, signed, queue, seenIds, counts, stopped>>

ArbNext ==
    \/ ClockTicks \/ PruneTimers \/ Drain \/ StopScanner
    \/ \E pool \in MirrorPools : MirrorLog(pool)
    \/ PollStarts \/ GasPriceRead \/ PollEnds
    \/ \E w \in QuoteWorkers :
        \/ TakeRoute(w) \/ QuoteAnswers(w) \/ QuoteFails(w) \/ Simulated(w)
        \/ PriceAnswers(w) \/ PriceThrows(w) \/ Evaluated(w)
        \/ EvaluationThrows(w)

ArbSpec == ArbInit /\ [][ArbNext]_arbVars

-----------------------------------------------------------------------------
(* Properties *)

(* Every opportunity that was approved is drained once, waits, or was the  *)
(* oldest in a full queue: the queue's window of seen ids, which starts    *)
(* later than the scanner's window of signatures and goes on after it, does*)
(* not swallow the next opportunity of a signature                         *)
(* (arbitrageScanner.ts:449-462, arbitrageOpportunityQueue.ts:24-37).      *)
(* After stop(), which forgets the signatures while workers go on, two of  *)
(* them can approve one signature at one time, and the queue keeps one.    *)
ApprovedIsAccounted == ~stopped => counts.approved = Len(queue) + counts.drained + counts.displaced
=============================================================================
