---------------------------- MODULE PositionModel ----------------------------
(***************************************************************************)
(* src/src/monitors/localPositionModel.ts with what eventPurityStack.ts    *)
(* does around it: accounts whose health factor is kept up to date from    *)
(* pool events and prices, reconciled with the chain at the first touch    *)
(* (positionOnChainReconcile.ts), confirmed with a multicall when they     *)
(* look risky (tieredConfirmQueue.ts), and tiered by a policy that weighs  *)
(* the local value against the last one of the chain                       *)
(* (localPositionHfPolicy.ts).                                             *)
(*                                                                         *)
(* One collateral reserve "C", whose price moves, and one debt reserve     *)
(* "D", of price 1; both are in the allowlist.  Liquidation thresholds are *)
(* folded into the price.  Health factors are in units of 1/Wad.  An index *)
(* is 1 (the WAD a reserve is registered with) or Ray (the unit the chain  *)
(* uses).  eMode is recorded and never read, and left out; so is           *)
(* lastConfirmedBlock.  Events arrive once and in order: what a websocket  *)
(* loses or repeats is in EventIngestion.  An index does not move further  *)
(* once it has the unit of the chain.                                      *)
(* A definition D_Bug is a mutant of D.                                    *)
(***************************************************************************)
EXTENDS Integers, FiniteSets, Sequences, Functions

CONSTANTS
    Accounts,
    Prices,        \* what the price of C can be
    StartPrice,
    MaxBalance,    \* bound: balances on chain
    Ray,           \* what the chain's indices are, in units of WAD
    Dust,          \* DUST_DEBT_BASE_THRESHOLD
    HardCap,       \* positionCacheHardCap
    Inactive,      \* positionEvictionInactiveBlocks
    MaxBlock,      \* bound: blocks
    MaxEvents,     \* bound: pool events and price moves
    Refreshed,     \* the reserves whose index is ever read
    MayFail,       \* whether a request may fail
    Tasks,         \* bound: slots for requests in flight
    Retries        \* BOOTSTRAP_MAX_RETRIES

ASSUME PositionModelAssumption ==
    /\ IsFiniteSet(Accounts)
    /\ Prices \subseteq Nat \ {0} /\ StartPrice \in Prices
    /\ MaxBalance \in Nat \ {0}
    /\ Ray \in Nat \ {0}
    /\ Dust \in Nat
    /\ HardCap \in Nat \ {0}
    /\ Inactive \in Nat \ {0}
    /\ MaxBlock \in Nat \ {0} /\ MaxEvents \in Nat
    /\ Refreshed \subseteq {"C", "D"} /\ MayFail \in BOOLEAN
    /\ Retries \in Nat \ {0}

VARIABLES
    chain,        \* the chain: the balances of each account
    chainPrice,   \* the chain: the price of C
    head,         \* the chain: its last block
    wire,         \* events of the chain that are not handled yet
    events,       \* how many there were
    phase,        \* "boot" (runOraclePriceBootstrap), "live", "failed"
    attempt,      \* the attempts of the sequencer check
    bootstrapped, \* _pricesBootstrapped
    price,        \* prices, for C
    fresh,        \* whether the feed state of C is within its heartbeat
    index,        \* reserveConfig: the index of each reserve
    positions,    \* positions: a function on the known accounts
    tasks,        \* requests of handlers in flight
    candidates    \* accounts given to onLiquidatableCandidate

chainVars == <<chain, chainPrice, head, wire, events>>
bootVars == <<phase, attempt, bootstrapped>>
feedVars == <<price, fresh>>
positionVars == <<chainVars, bootVars, feedVars, index, positions, tasks, candidates>>

Wad == 20
MaxHf == 100 * Wad        \* stands for MAX_UINT256
HfCap == 50 * Wad         \* stands for HF_POLICY_CAP_WAD, 1000 WAD
DangerHf == (3 * Wad) \div 2
EvictHf == (3 * Wad) \div 2
UrgentHf == Wad + Wad \div 20
WatchHf == Wad + Wad \div 10
NoTotals == [collateral |-> -1, debt |-> -1, hf |-> -1]
NoBalance == [C |-> -1, D |-> -1]
Unread == <<>>
Reserves == {"C", "D"}

CalculateHf(collateral, debt) == IF debt = 0 THEN MaxHf ELSE (collateral * Wad) \div debt
ChainHf(a) == CalculateHf(chain[a].C * chainPrice, chain[a].D * Wad)

Balances == [Reserves -> 0 .. MaxBalance]

(* What is worth that much on the chain fits a uint256.                    *)
ASSUME HfFits == \A p \in Prices : MaxBalance * p <= MaxHf

Totals == [collateral: Nat, debt: Nat, hf: Nat]
PositionRecords ==
    [balance: [Reserves -> Nat], indexAt: [Reserves -> {1, Ray}], hf: 0 .. MaxHf,
     seeded: BOOLEAN, totals: Totals \cup {NoTotals}, activity: 0 .. MaxBlock]
IdleTask == [kind |-> "idle", accounts |-> {}, block |-> 0, answer |-> Unread,
             balance |-> NoBalance, price |-> 0]

PositionTypeOK ==
    /\ chain \in [Accounts -> Balances] /\ chainPrice \in Prices
    /\ head \in 1 .. MaxBlock
    /\ Len(wire) <= 1 /\ events \in 0 .. MaxEvents
    /\ phase \in {"boot", "live", "failed"} /\ attempt \in 1 .. Retries
    /\ bootstrapped \in BOOLEAN
    /\ price \in Prices \cup {1} /\ fresh \in BOOLEAN
    /\ index \in [Reserves -> {1, Ray}]
    /\ DOMAIN positions \subseteq Accounts
    /\ \A a \in DOMAIN positions : positions[a] \in PositionRecords
    /\ \A t \in Tasks :
        /\ tasks[t].kind \in {"idle", "seed", "confirm", "aggregate", "poll"}
        /\ tasks[t].accounts \subseteq Accounts
        /\ tasks[t].block \in 0 .. MaxBlock
    /\ candidates \subseteq Accounts

PositionInit ==
    /\ chain \in [Accounts -> {[C |-> 1, D |-> 0], [C |-> MaxBalance, D |-> MaxBalance]}]
    /\ chainPrice = StartPrice /\ head = 1 /\ wire = <<>> /\ events = 0
    /\ phase = "boot" /\ attempt = 1 /\ bootstrapped = FALSE
    /\ price = 1 /\ fresh = TRUE
    /\ index = [r \in Reserves |-> 1]
    /\ positions = <<>>
    /\ tasks = [t \in Tasks |-> IdleTask]
    /\ candidates = {}

-----------------------------------------------------------------------------
(* The policy: localPositionHfPolicy.ts.  p is a position.                 *)

AggregateHf(p) == CalculateHf(p.totals.collateral, p.totals.debt)

IsDangerZone(hf) == hf < MaxHf /\ (hf < DangerHf \/ (hf > Wad /\ hf - Wad < Wad \div 2))

Distance(m, n) == IF m > n THEN m - n ELSE n - m

(* relativeDivergenceBps(baseline, proposed) > HF_DIVERGENCE_RATIO_BPS     *)
Diverges(baseline, proposed) ==
    /\ baseline \in 1 .. MaxHf - 1
    /\ (Distance(baseline, proposed) * 10000) \div baseline > 5000

CapPerReserve(p, hf) ==
    IF \/ hf > HfCap
       \/ p.totals # NoTotals /\ p.totals.debt \in 1 .. Dust - 1 /\ hf > DangerHf
    THEN HfCap
    ELSE hf

ResolveEffective_NoGuard(p, hf) ==
    IF p.totals # NoTotals /\ IsDangerZone(AggregateHf(p)) THEN AggregateHf(p) ELSE CapPerReserve(p, hf)

(* resolveEffectiveHfWad.  A position has totals, and confidence "high",   *)
(* exactly if it is seeded.                                                *)
ResolveEffective(p, hf) ==
    LET capped == CapPerReserve(p, hf)
    IN  CASE p.totals = NoTotals -> capped
          [] IsDangerZone(AggregateHf(p)) \/ Diverges(AggregateHf(p), capped) -> AggregateHf(p)
          [] Diverges(p.hf, capped) -> p.hf
          [] OTHER -> capped

Scale(amount, from, to) == IF from = to THEN amount ELSE (amount * to) \div from

(* recomputeHf and resolveHfFromResult: the value to commit, if any.       *)
Touches(p) == p.balance.C > 0

Recomputable(p, pr, isFresh) == bootstrapped /\ (Touches(p) => pr > 1 /\ isFresh)

RecomputedHf(p, pr) ==
    LET collateral == Scale(p.balance.C, p.indexAt.C, index.C) * pr
        debt == Scale(p.balance.D, p.indexAt.D, index.D) * Wad
    IN  CASE debt > 0 -> ResolveEffective(p, CalculateHf(collateral, debt))
          [] debt = 0 /\ p.totals # NoTotals /\ p.totals.debt > 0 ->
                ResolveEffective(p, AggregateHf(p))
          [] OTHER -> MaxHf

Commit(p, pr, isFresh) ==
    IF Recomputable(p, pr, isFresh) THEN [p EXCEPT !.hf = RecomputedHf(p, pr)] ELSE p

Tier(hf) ==
    CASE hf < Wad -> "liquidatable"
      [] Wad <= hf /\ hf <= UrgentHf -> "urgent"
      [] UrgentHf < hf /\ hf <= WatchHf -> "watch"
      [] OTHER -> "healthy"

Change(a, p, isNew) == [account |-> a, tier |-> Tier(p.hf), isNew |-> isNew, seeded |-> p.seeded]

-----------------------------------------------------------------------------
(* Positions *)

Created(block) ==
    [balance |-> [r \in Reserves |-> 0], indexAt |-> [r \in Reserves |-> 1], hf |-> MaxHf,
     seeded |-> FALSE, totals |-> NoTotals, activity |-> block]

GetOrCreate(ps, a, block) == IF a \in DOMAIN ps THEN ps[a] ELSE Created(block)

Put(ps, a, p) == [b \in DOMAIN ps \cup {a} |-> IF b = a THEN p ELSE ps[b]]
Without(ps, S) == Restrict(ps, DOMAIN ps \ S)

Add(p, r) ==
    [p EXCEPT !.balance[r] = @ + 1, !.indexAt[r] = index[r]]

Sub_Unfloored(p, r) ==
    [p EXCEPT !.balance[r] = @ - 1, !.indexAt[r] = IF p.balance[r] > 1 THEN @ ELSE 1]

Sub(p, r) ==
    [p EXCEPT !.balance[r] = IF @ > 1 THEN @ - 1 ELSE 0,
              !.indexAt[r] = IF p.balance[r] > 1 THEN @ ELSE 1]

Applied(p, kind) ==
    CASE kind = "Supply" -> Add(p, "C")
      [] kind = "Withdraw" -> Sub(p, "C")
      [] kind = "Borrow" -> Add(p, "D")
      [] kind = "Repay" -> Sub(p, "D")
      [] kind = "LiquidationCall" -> Sub(Sub(p, "D"), "C")

EvictInactive_Any(ps, block) ==
    Without(ps, {a \in DOMAIN ps : block - ps[a].activity >= Inactive})

EvictInactive(ps, block) ==
    Without(ps, {a \in DOMAIN ps : ps[a].hf >= EvictHf /\ block - ps[a].activity >= Inactive})

(* The n least active positions of S; which of several equal ones the Map  *)
(* of the code yields first is left open.                                  *)
LeastActive(ps, S, n) ==
    {V \in SUBSET S : /\ Cardinality(V) = n
                      /\ \A v \in V, k \in S \ V : ps[v].activity <= ps[k].activity}

Excess(ps, cap) == IF Cardinality(DOMAIN ps) > cap THEN Cardinality(DOMAIN ps) - cap ELSE 0

EnforceHardCap(ps, block) ==
    {EvictInactive(Without(ps, V), block) : V \in LeastActive(ps, DOMAIN ps, Excess(ps, HardCap))}

(* evictUnderMemoryPressure *)
RelieveMemory(ps, block) ==
    LET healthy == {a \in DOMAIN ps : ps[a].hf >= EvictHf}
        excess == Excess(ps, (HardCap * 3) \div 4)
        n == IF excess > Cardinality(healthy) THEN Cardinality(healthy) ELSE excess
    IN  {EvictInactive(Without(ps, V), block) : V \in LeastActive(ps, healthy, n)}

TotalsOf(a) ==
    [collateral |-> chain[a].C * chainPrice, debt |-> chain[a].D * Wad, hf |-> ChainHf(a)]

Judged(totals) ==
    IF totals.hf > 0 THEN totals.hf ELSE CalculateHf(totals.collateral, totals.debt)

(* confirmOnChain *)
Confirmed(ps, a, totals, block) ==
    Put(ps, a, [GetOrCreate(ps, a, block) EXCEPT
                    !.seeded = TRUE, !.totals = totals, !.hf = Judged(totals)])

(* seedFromOnChainSnapshot, before enforceHardCap                          *)
Seeded(ps, a, totals, balance, block) ==
    Put(ps, a, [balance |-> balance,
                indexAt |-> [r \in Reserves |-> IF balance[r] > 0 THEN index[r] ELSE 1],
                hf |-> Judged(totals), seeded |-> TRUE, totals |-> totals, activity |-> block])

-----------------------------------------------------------------------------
(* The chain *)

Happens(event) ==
    /\ phase = "live" /\ events < MaxEvents /\ wire = <<>>
    /\ events' = events + 1
    /\ wire' = Append(wire, event)
    /\ UNCHANGED <<head, bootVars, feedVars, index, positions, tasks, candidates>>

(* What the pool allows: no debt is left without collateral.               *)
PoolEvent(a, kind) ==
    LET after == Applied([Created(0) EXCEPT !.balance = chain[a]], kind).balance
    IN  /\ kind \in {"Repay", "LiquidationCall"} => chain[a].D > 0
        /\ kind \in {"Withdraw", "LiquidationCall"} => chain[a].C > 0
        /\ kind = "LiquidationCall" => ChainHf(a) < Wad
        /\ kind \in {"Borrow", "Withdraw"} =>
            CalculateHf(after.C * chainPrice, after.D * Wad) >= Wad
        /\ after \in Balances
        /\ chain' = [chain EXCEPT ![a] = after]
        /\ UNCHANGED chainPrice
        /\ \E block \in {0, head} : Happens([kind |-> kind, account |-> a, block |-> block])

PriceMoves ==
    \E p \in Prices \ {chainPrice} :
        /\ chainPrice' = p
        /\ UNCHANGED chain
        /\ Happens([kind |-> "Price", price |-> p, block |-> head])

NewBlock ==
    /\ phase = "live" /\ head < MaxBlock
    /\ head' = head + 1
    /\ UNCHANGED <<chain, chainPrice, wire, events, bootVars, feedVars, index, positions, tasks,
                   candidates>>

(* The round of the feed gets older than 1.5 heartbeats.                   *)
FeedAges ==
    /\ phase = "live" /\ fresh /\ price > 1
    /\ fresh' = FALSE
    /\ UNCHANGED <<chainVars, bootVars, price, index, positions, tasks, candidates>>

-----------------------------------------------------------------------------
(* runOraclePriceBootstrap.  The websocket is started after it.            *)

SequencerUnhealthy ==
    /\ phase = "boot"
    /\ IF attempt = Retries
       THEN phase' = "failed" /\ UNCHANGED attempt
       ELSE attempt' = attempt + 1 /\ UNCHANGED phase
    /\ UNCHANGED <<chainVars, bootstrapped, feedVars, index, positions, tasks,
                   candidates>>

(* registerFeedIfWarm, for the feed of C                                   *)
FeedPrice(warm) == IF warm THEN chainPrice ELSE price

(* The feed of C is warm or not; without every critical feed the flag      *)
(* stays FALSE, and nothing sets it later.                                 *)
PricesRead ==
    /\ phase = "boot"
    /\ phase' = "live" /\ attempt' = 1
    /\ \E critical, warm \in BOOLEAN :
        /\ bootstrapped' = critical
        /\ price' = FeedPrice(warm)
    /\ UNCHANGED <<chainVars, fresh, index, positions, tasks, candidates>>

-----------------------------------------------------------------------------
(* handleEvent and handleTierChanges *)

ToConfirm(changes) ==
    IF bootstrapped
    THEN {c.account : c \in {d \in changes : d.seeded /\ \/ d.isNew /\ d.tier # "healthy"
                                                         \/ d.tier = "urgent"}}
    ELSE {}

(* enqueueUrgent and flushUrgent; the watch queue has no reader.           *)
Flush(t, changes, block) ==
    tasks' = [tasks EXCEPT ![t] =
        IF ToConfirm(changes) = {} THEN IdleTask
        ELSE [IdleTask EXCEPT !.kind = "confirm", !.accounts = ToConfirm(changes), !.block = block]]

Receive(t) ==
    /\ phase = "live" /\ wire # <<>> /\ tasks[t].kind = "idle"
    /\ wire' = Tail(wire)
    /\ UNCHANGED <<chain, chainPrice, head, events, bootVars, candidates>>

Repriced_Unseeded(pr, isFresh) ==
    [a \in DOMAIN positions |-> IF Touches(positions[a]) THEN Commit(positions[a], pr, isFresh)
                                ELSE positions[a]]

(* recomputeTierChangesForAsset *)
Repriced(pr, isFresh) ==
    [a \in DOMAIN positions |->
        IF positions[a].seeded /\ Touches(positions[a])
        THEN Commit(positions[a], pr, isFresh) ELSE positions[a]]

RepricedChanges(pr) ==
    {Change(a, Repriced(pr, TRUE)[a], FALSE) :
        a \in {b \in DOMAIN positions :
                /\ positions[b].seeded /\ Touches(positions[b])
                /\ Recomputable(positions[b], pr, TRUE)}}

ApplyFeedPrice(pr) ==
    /\ price' = pr /\ fresh' = TRUE
    /\ positions' = Repriced(pr, TRUE)
    /\ UNCHANGED index

HandlePrice(t) ==
    /\ Receive(t) /\ Head(wire).kind = "Price"
    /\ ApplyFeedPrice(Head(wire).price)
    /\ Flush(t, RepricedChanges(Head(wire).price), Head(wire).block)

(* The index of a reserve gets the unit of the chain with the first event  *)
(* ReserveDataUpdated, or with one read of refreshReserveIndices.          *)
IndexIsRay(r) ==
    /\ phase = "live" /\ index[r] # Ray
    /\ index' = [index EXCEPT ![r] = Ray]
    /\ UNCHANGED <<chainVars, bootVars, feedVars, positions, tasks, candidates>>

HandleIndex(r) == IndexIsRay(r)
RefreshIndex(r) == IndexIsRay(r)

(* applyAaveEvent for an event of an account                               *)
Touched(e) ==
    Applied([GetOrCreate(positions, e.account, e.block) EXCEPT !.activity = e.block], e.kind)

Closes(e) == e.kind = "LiquidationCall" /\ Touched(e).balance.D = 0

PoolEventAt(t) ==
    /\ Receive(t) /\ Head(wire).kind # "Price"
    /\ UNCHANGED <<feedVars, index>>

HandleLiquidation(t) ==
    /\ PoolEventAt(t) /\ Closes(Head(wire))
    /\ positions' = Without(positions, {Head(wire).account})
    /\ UNCHANGED tasks

HandleFirstTouch(t) ==
    LET e == Head(wire)
        p == Touched(e)
    IN  /\ PoolEventAt(t) /\ ~Closes(e) /\ ~p.seeded
        /\ positions' \in EnforceHardCap(Put(positions, e.account, p), e.block)
        /\ tasks' = [tasks EXCEPT ![t] = [IdleTask EXCEPT
                !.kind = "seed", !.accounts = {e.account}, !.block = e.block]]

HandlePoolEvent(t) ==
    LET e == Head(wire)
        p == Touched(e)
        q == Commit(p, price, fresh)
    IN  /\ PoolEventAt(t) /\ ~Closes(e) /\ p.seeded
        /\ positions' \in EnforceHardCap(Put(positions, e.account, q), e.block)
        /\ Flush(t, IF Recomputable(p, price, fresh)
                    THEN {Change(e.account, q, FALSE)} ELSE {}, e.block)

-----------------------------------------------------------------------------
(* Requests in flight *)

RequestUnchanged == UNCHANGED <<chainVars, bootVars>>

ReadTotals(t) ==
    /\ tasks[t].kind \in {"seed", "confirm", "aggregate"} /\ tasks[t].answer = Unread
    /\ tasks' = [tasks EXCEPT ![t].answer = [a \in tasks[t].accounts |-> TotalsOf(a)]]
    /\ UNCHANGED <<feedVars, index, positions, candidates>>
    /\ RequestUnchanged

(* getUserReservesData, in parallel with getUserAccountData                *)
ReadBalances(t) ==
    /\ tasks[t].kind = "seed" /\ tasks[t].balance = NoBalance
    /\ \E a \in tasks[t].accounts : tasks' = [tasks EXCEPT ![t].balance = chain[a]]
    /\ UNCHANGED <<feedVars, index, positions, candidates>>
    /\ RequestUnchanged

(* reconcileAndSeedPosition and the rest of reconcileFirstTouch            *)
FinishSeed(t) ==
    /\ tasks[t].kind = "seed" /\ tasks[t].answer # Unread /\ tasks[t].balance # NoBalance
    /\ \E a \in tasks[t].accounts :
        LET totals == tasks[t].answer[a]
            block == tasks[t].block
        IN  IF totals.debt = 0
            THEN /\ positions' = Without(positions, {a})
                 /\ Flush(t, {}, block)
            ELSE /\ positions' \in
                        EnforceHardCap(Seeded(positions, a, totals, tasks[t].balance, block), block)
                 /\ Flush(t, IF a \in DOMAIN positions' THEN {Change(a, positions'[a], TRUE)}
                             ELSE {}, block)
    /\ UNCHANGED <<feedVars, index, candidates>>
    /\ RequestUnchanged

(* One row of flushUrgent's answer; the callback is awaited after a row    *)
(* that is liquidatable.                                                   *)
ConfirmRow(t, a) ==
    /\ tasks[t].kind = "confirm" /\ tasks[t].answer # Unread /\ a \in DOMAIN tasks[t].answer
    /\ LET totals == tasks[t].answer[a]
           rest == Without(tasks[t].answer, {a})
       IN  /\ positions' = Confirmed(positions, a, totals, tasks[t].block)
           /\ candidates' = IF totals.hf < Wad THEN candidates \cup {a} ELSE candidates
           /\ tasks' = [tasks EXCEPT ![t] =
                            IF DOMAIN rest = {} THEN IdleTask ELSE [@ EXCEPT !.answer = rest]]
    /\ UNCHANGED <<feedVars, index>>
    /\ RequestUnchanged

AtRisk_BandsOnly ==
    {a \in DOMAIN positions : positions[a].seeded /\ Tier(positions[a].hf) \in {"urgent", "watch"}}

(* refreshUrgentWatchAggregates, started by every 1800th tick              *)
AtRisk == {a \in DOMAIN positions : positions[a].seeded /\ Tier(positions[a].hf) # "healthy"}

StartAggregates(t) ==
    /\ phase = "live" /\ tasks[t].kind = "idle"
    /\ \A u \in Tasks : tasks[u].kind # "aggregate"
    /\ AtRisk # {}
    /\ tasks' = [tasks EXCEPT ![t] =
            [IdleTask EXCEPT !.kind = "aggregate", !.accounts = AtRisk, !.block = head]]
    /\ UNCHANGED <<feedVars, index, positions, candidates>>
    /\ RequestUnchanged

FinishAggregates(t) ==
    /\ tasks[t].kind = "aggregate" /\ tasks[t].answer # Unread
    /\ positions' = [a \in DOMAIN positions \cup DOMAIN tasks[t].answer |->
            IF a \in DOMAIN tasks[t].answer
            THEN Confirmed(positions, a, tasks[t].answer[a], tasks[t].block)[a]
            ELSE positions[a]]
    /\ tasks' = [tasks EXCEPT ![t] = IdleTask]
    /\ UNCHANGED <<feedVars, index, candidates>>
    /\ RequestUnchanged

(* pollLocalFeedFreshness: the round is read, and applied when the answer  *)
(* arrives, unless it is itself stale.                                     *)
StartPoll(t) ==
    /\ phase = "live" /\ bootstrapped /\ tasks[t].kind = "idle"
    /\ \A u \in Tasks : tasks[u].kind # "poll"
    /\ tasks' = [tasks EXCEPT ![t] =
            [IdleTask EXCEPT !.kind = "poll", !.block = head, !.price = chainPrice]]
    /\ UNCHANGED <<feedVars, index, positions, candidates>>
    /\ RequestUnchanged

FinishPoll(t) ==
    /\ tasks[t].kind = "poll"
    /\ ApplyFeedPrice(tasks[t].price)
    /\ Flush(t, RepricedChanges(tasks[t].price), tasks[t].block)
    /\ UNCHANGED <<candidates>>
    /\ RequestUnchanged

(* A request throws: a seed is logged, the accounts of a confirmation are  *)
(* not queued again.                                                       *)
FailTask(t) ==
    /\ MayFail
    /\ tasks[t].kind # "idle"
    /\ tasks' = [tasks EXCEPT ![t] = IdleTask]
    /\ UNCHANGED <<feedVars, index, positions, candidates>>
    /\ RequestUnchanged

-----------------------------------------------------------------------------
(* handleFlashblockTick and memory pressure *)

MemoryPressure ==
    /\ phase = "live"
    /\ positions' \in RelieveMemory(positions, head)
    /\ UNCHANGED <<chainVars, bootVars, feedVars, index, tasks, candidates>>

PositionNext ==
    \/ \E a \in Accounts :
        \E kind \in {"Supply", "Withdraw", "Borrow", "Repay", "LiquidationCall"} :
            PoolEvent(a, kind)
    \/ PriceMoves \/ \E r \in Refreshed : HandleIndex(r) \/ RefreshIndex(r)
    \/ NewBlock \/ FeedAges
    \/ SequencerUnhealthy \/ PricesRead
    \/ \E t \in Tasks :
        \/ HandlePrice(t) \/ HandleLiquidation(t) \/ HandleFirstTouch(t)
        \/ HandlePoolEvent(t)
        \/ ReadTotals(t) \/ ReadBalances(t) \/ FinishSeed(t) \/ StartAggregates(t)
        \/ FinishAggregates(t) \/ StartPoll(t) \/ FinishPoll(t) \/ FailTask(t)
    \/ \E t \in Tasks : \E a \in Accounts : ConfirmRow(t, a)
    \/ MemoryPressure

PositionSpec == PositionInit /\ [][PositionNext]_positionVars

(* An answer arrives and an event is handled.  Ticks keep coming, and each *)
(* 1800th finds a free slot in the end: the slots are a bound of the       *)
(* model, polls must not use them up for ever.                             *)
HandlerStep(t) ==
    \/ HandlePrice(t) \/ HandleLiquidation(t) \/ HandleFirstTouch(t) \/ HandlePoolEvent(t)
    \/ ReadTotals(t) \/ ReadBalances(t) \/ FinishSeed(t) \/ FinishAggregates(t)
    \/ FinishPoll(t) \/ \E a \in Accounts : ConfirmRow(t, a)

PositionFairness ==
    /\ \A t \in Tasks : WF_positionVars(HandlerStep(t))
    /\ SF_positionVars(\E t \in Tasks : StartAggregates(t))

-----------------------------------------------------------------------------
(* Until the chain was asked, a position holds only what happened since    *)
(* its account was first seen; no health factor is ever computed from such *)
(* partial balances (localPositionModel.ts:263, :604).                     *)
PartialNotJudged ==
    \A a \in DOMAIN positions :
        ~positions[a].seeded => positions[a].hf = MaxHf /\ positions[a].totals = NoTotals

(* The cached health factor of a seeded position stays within half of the  *)
(* last one the chain gave, whatever events, prices, late answers and      *)
(* indices in two units do to the local value                              *)
(* (localPositionHfPolicy.ts:96-117).                                      *)
HfNearAggregate ==
    \A a \in DOMAIN positions :
        positions[a].seeded => ~Diverges(AggregateHf(positions[a]), positions[a].hf)

(* A position that is not healthy leaves the model only when there are     *)
(* more than the hard cap, or when a liquidation or an answer of the chain *)
(* left it without debt; not for being quiet, and not under memory         *)
(* pressure (localPositionModel.ts:487-493, :813-834).                     *)
KnownToBeClosed(a) ==
    \/ wire # <<>> /\ Head(wire).kind = "LiquidationCall" /\ Head(wire).account = a
    \/ \E t \in Tasks : /\ tasks[t].kind = "seed" /\ a \in DOMAIN tasks[t].answer
                        /\ tasks[t].answer[a].debt = 0

AtRiskKept ==
    [][\A a \in DOMAIN positions \ DOMAIN positions' :
        \/ positions[a].hf >= EvictHf
        \/ Cardinality(DOMAIN positions \cup DOMAIN positions') > HardCap
        \/ KnownToBeClosed(a)]_positionVars

(* A known position whose local health factor falls straight below one has *)
(* the tier "liquidatable", which handleTierChanges does not queue         *)
(* (eventPurityStack.ts:524-530): only the refresh of the ticks asks the   *)
(* chain about it (:574, :699).  It does ask, whatever else goes on, so    *)
(* that in the end the position is gone, or judged at one or more, or the  *)
(* chain itself has put it below one.                                      *)
BelowOne(a) == a \in DOMAIN positions /\ positions[a].seeded /\ positions[a].hf < Wad

BelowOneIsConfirmed ==
    \A a \in Accounts : BelowOne(a) ~> (BelowOne(a) => positions[a].totals.hf < Wad)
=============================================================================
