---------------------------- MODULE Profitability ----------------------------
(***************************************************************************)
(* Whether an opportunity is worth executing: filterCandidates() of        *)
(* src/src/orchestrator/liquidationCandidateGate.ts, the request builders  *)
(* of src/src/executors, and the router and the engine of                  *)
(* src/src/profitability, wired as in src/src/index.ts.                    *)
(*                                                                         *)
(* Amounts of a request are in parts of a dollar, Bps to the dollar, so    *)
(* that rates in basis points are exact; the code has 8 decimals and       *)
(* rounds.  Cooldowns are in Pipeline, prices and gas are free.            *)
(* A definition D_Bug is a mutant of D.                                    *)
(***************************************************************************)
EXTENDS Integers, Sequences

CONSTANTS
    Executions,    \* concurrent cycles of the pipeline
    Liquidations,  \* [id, units: debtToCover, bonus: liquidationBonusBps]
    ArbOffers,     \* [id, gain, stake, gas, fee, slippage, safety]
    LenderLists,   \* what flashLoanProviders of the chain can be, in order
    FeeOf,         \* setProviderFee: by quoted lender
    Bps,           \* 10_000
    MarginBps,     \* MIN_PROFIT_MARGIN_BPS
    SlipBps,       \* the larger of SLIPPAGE_BPS and its floor
    PremiumBps,    \* the flash-loan premium that the gate counts
    MinProfit,     \* MIN_PROFIT_USD / 4
    DebtFloor,     \* MIN_LIQUIDATION_DEBT_USD
    ConfigGas,     \* GAS_COST_USD
    GasUnits,      \* gas price times gas units
    UsdPrices,     \* what a price can be, 0 for one that is not trusted
    HasReceiver,   \* LIQUIDATION_RECEIVER_ADDRESS is configured
    RouteTtl,      \* routeCacheTtlMs, in ticks
    RouteTicks     \* bound: ticks

ASSUME ProfitabilityAssumption ==
    /\ Bps \in Nat /\ Bps >= 20
    /\ MarginBps \in Nat \ {0}                  \* it has a floor of 40
    /\ {SlipBps, PremiumBps, MinProfit, DebtFloor, ConfigGas, GasUnits, RouteTtl, RouteTicks}
           \subseteq Nat
    /\ UsdPrices \subseteq Nat /\ HasReceiver \in BOOLEAN
    /\ LenderLists # {} /\ FeeOf \in [DOMAIN FeeOf -> Nat]
    /\ \A list \in LenderLists : list \in Seq(STRING)
    /\ \A o \in Liquidations : o.units \in Nat \ {0} /\ o.bonus \in 0 .. Bps
    /\ \A o \in ArbOffers : {o.gain, o.stake, o.gas, o.fee, o.slippage, o.safety} \subseteq Nat

VARIABLES
    minute,      \* the clock
    lenders,     \* flashLoanProviders
    routeCache,  \* the router's: a set of [key, at, answer]
    exec         \* by execution: where it is

profitVars == <<minute, lenders, routeCache, exec>>

-----------------------------------------------------------------------------
(* The gate *)

(* resolveDynamicGasCostUsd: the configured cost when there is no price.   *)
GasCostUsd(native) == IF native = 0 THEN ConfigGas ELSE GasUnits * native

(* A candidate without a bonus is judged with one of 500.                  *)
GateBonus(o) == IF o.bonus > 0 THEN o.bonus ELSE Bps \div 20

(* What the bonus has to pay for, and what it brings, both times Bps.      *)
GateCosts(gas, debt) == Bps * gas + debt * PremiumBps
GateBonusUsd(o, debt) == debt * GateBonus(o)

(* evaluateLiquidationProfitability: the debt reaches the dynamic floor,   *)
(* five quarters of the costs by the rate of the bonus, and the hard one.  *)
PassesFloors(o, gas, debt) ==
    4 * GateBonusUsd(o, debt) >= 5 * GateCosts(gas, debt) /\ debt >= DebtFloor

(* evaluateDustFilter.                                                     *)
IsDust(gas, debt) == debt = 0 \/ debt < 2 * gas

(* evaluateOracleSanity: two per cent; both prices come from one source.   *)
Sane(chainlink, twap) ==
    /\ chainlink > 0 /\ twap > 0
    /\ LET gap == IF chainlink > twap THEN chainlink - twap ELSE twap - chainlink
       IN  (gap * Bps) \div chainlink <= Bps \div 50

-----------------------------------------------------------------------------
(* Requests *)

(* buildLiquidationExecutionRequest, behind a flash-loan receiver.         *)
LiquidationRequest(o, debt, gas) ==
    [id |-> o.id, revenue |-> debt * o.bonus, debt |-> debt * Bps, gas |-> gas * Bps,
     slippage |-> debt * SlipBps, safety |-> MinProfit * Bps, capital |-> gas * Bps]

(* calculateFlashWrappedLiquidationEv of the same amounts, which nothing   *)
(* reads.                                                                  *)
ExpectedProfit(r) == r.revenue - r.gas - (r.debt * PremiumBps) \div Bps - r.slippage
IsProfitable(r) == ExpectedProfit(r) >= 4 * r.safety

(* buildArbitrageExecutionRequest; evaluateOpportunity counts the same.    *)
ArbRequest(o) ==
    [id |-> o.id, revenue |-> o.gain, debt |-> o.stake, gas |-> o.gas,
     slippage |-> o.slippage, safety |-> o.safety, capital |-> o.stake]

(* calculateDeterministicProfit: a loss counts as nothing.                 *)
Costs(r, fee) == r.debt + r.gas + fee + r.slippage + r.safety
NetProfit(r, fee) == IF Costs(r, fee) > r.revenue THEN 0 ELSE r.revenue - Costs(r, fee)

(* meetsMinimumProfitMargin.                                               *)
MeetsMargin(net, r) == r.capital # 0 /\ net * Bps >= r.capital * MarginBps

(* The simulator of index.ts answers with what it was given.               *)
SimulatorSays(r) == r

(* evaluate(): the margin is checked before and after the simulation.      *)
Approves(r, fee) ==
    /\ MeetsMargin(NetProfit(r, fee), r)
    /\ MeetsMargin(NetProfit(SimulatorSays(r), fee), r)

-----------------------------------------------------------------------------
(* The course of an execution *)

NoRoute == [status |-> "none", lender |-> 0]
Rejected == [NoRoute EXCEPT !.status = "no_profitable_provider"]
Selected(i) == [status |-> "selected", lender |-> i]

NoRequest == [id |-> "", revenue |-> 0, debt |-> 0, gas |-> 0, slippage |-> 0, safety |-> 0, capital |-> 0]
NoOffer == [id |-> "", units |-> 0, bonus |-> 0]
Unstarted == [at |-> "idle", offer |-> NoOffer, gas |-> 0, price |-> 0, debt |-> 0,
              request |-> NoRequest, tried |-> 0, answer |-> NoRoute]

Reaches(x, at) == exec[x].at = at
Continues(x, next) == exec' = [exec EXCEPT ![x] = next]

ProfitInit ==
    /\ minute = 0 /\ lenders \in LenderLists /\ routeCache = {}
    /\ exec = [x \in Executions |-> Unstarted]

MinutePasses ==
    /\ minute < RouteTicks /\ minute' = minute + 1
    /\ UNCHANGED <<lenders, routeCache, exec>>

(* filterCandidates reads the gas cost first.                              *)
GateStarts(x, o) ==
    /\ Reaches(x, "idle")
    /\ \E native \in UsdPrices :
          Continues(x, [Unstarted EXCEPT !.at = "gate", !.offer = o, !.gas = GasCostUsd(native)])
    /\ UNCHANGED <<minute, lenders, routeCache>>

(* resolveFreshDebtUsd, and the floors.  Without a price nothing is known  *)
(* of the debt; the oracle is asked again even so.                         *)
FreshDebt_TrustsClaim(o, price) == o.units * (IF price = 0 THEN 1 ELSE price)
FreshDebt(o, price) == o.units * price

DebtPriced(x) ==
    /\ Reaches(x, "gate")
    /\ \E price \in UsdPrices :
          Continues(x, [exec[x] EXCEPT !.at = "sanity", !.price = price,
                            !.debt = FreshDebt(exec[x].offer, price)])
    /\ UNCHANGED <<minute, lenders, routeCache>>

KeepsCandidate(x, chainlink, twap) ==
    /\ ~IsDust(exec[x].gas, exec[x].debt)
    /\ PassesFloors(exec[x].offer, exec[x].gas, exec[x].debt)
    /\ Sane(chainlink, twap)

GateEnds(x) ==
    /\ Reaches(x, "sanity")
    /\ \E chainlink, twap \in UsdPrices :
          Continues(x, IF KeepsCandidate(x, chainlink, twap) THEN [exec[x] EXCEPT !.at = "kept"]
                       ELSE Unstarted)
    /\ UNCHANGED <<minute, lenders, routeCache>>

(* buildExecutionRequest reads the gas cost again; without a receiver it   *)
(* throws.                                                                 *)
BuildRequest(x) ==
    /\ Reaches(x, "kept")
    /\ \E native \in UsdPrices :
          Continues(x, IF HasReceiver
                       THEN [Unstarted EXCEPT !.at = "route", !.offer = exec[x].offer,
                                !.request = LiquidationRequest(exec[x].offer, exec[x].debt, GasCostUsd(native))]
                       ELSE Unstarted)
    /\ UNCHANGED <<minute, lenders, routeCache>>

(* The scanner queues what the engine approves with its own fee.           *)
ArbitrageDrained(x, o) ==
    /\ Reaches(x, "idle")
    /\ Approves(ArbRequest(o), o.fee)
    /\ Continues(x, [Unstarted EXCEPT !.at = "route", !.request = ArbRequest(o)])
    /\ UNCHANGED <<minute, lenders, routeCache>>

KeyOf_LoanOnly(r) == [debt |-> r.debt, capital |-> r.capital]

(* The key of the router's cache holds the whole request.                  *)
KeyOf(r) == r
CachedFor(r) == {e \in routeCache : e.key = KeyOf(r) /\ minute - e.at < RouteTtl}

(* The circuit that the router looks at is the one that execute() has      *)
(* looked at just before, with no await between.                           *)
RouteCached(x) ==
    /\ Reaches(x, "route")
    /\ \E e \in CachedFor(exec[x].request) :
          Continues(x, [exec[x] EXCEPT !.at = "done", !.answer = e.answer])
    /\ UNCHANGED <<minute, lenders, routeCache>>

RouteStarts(x) ==
    /\ Reaches(x, "route")
    /\ CachedFor(exec[x].request) = {}
    /\ Continues(x, [exec[x] EXCEPT !.at = "lenders", !.tried = 1])
    /\ UNCHANGED <<minute, lenders, routeCache>>

Quoted(i) == lenders[i] \in DOMAIN FeeOf
NetWith(r, i) == NetProfit(r, FeeOf[lenders[i]])

(* The best of the lenders so far is kept; of equal ones the first.        *)
Better(r, i, best) == best = NoRoute \/ NetWith(r, i) > NetWith(r, best.lender)

EvaluateLender(x) ==
    /\ Reaches(x, "lenders") /\ exec[x].tried <= Len(lenders)
    /\ Quoted(exec[x].tried)
    /\ LET r == exec[x].request
           i == exec[x].tried
       IN  Continues(x, [exec[x] EXCEPT !.tried = i + 1,
               !.answer = IF Approves(r, FeeOf[lenders[i]]) /\ Better(r, i, @) THEN Selected(i) ELSE @])
    /\ UNCHANGED <<minute, lenders, routeCache>>

(* A lender without a fee quote ends the execution with an exception.      *)
LenderUnquoted(x) ==
    /\ Reaches(x, "lenders") /\ exec[x].tried <= Len(lenders)
    /\ ~Quoted(exec[x].tried)
    /\ Continues(x, Unstarted)
    /\ UNCHANGED <<minute, lenders, routeCache>>

RouteEnds(x) ==
    /\ Reaches(x, "lenders") /\ exec[x].tried > Len(lenders)
    /\ LET key == KeyOf(exec[x].request)
           answer == IF exec[x].answer = NoRoute THEN Rejected ELSE exec[x].answer
       IN  /\ routeCache' = {e \in routeCache : e.key # key}
                                \cup {[key |-> key, at |-> minute, answer |-> answer]}
           /\ Continues(x, [exec[x] EXCEPT !.at = "done", !.answer = answer])
    /\ UNCHANGED <<minute, lenders>>

Settled(x) ==
    /\ Reaches(x, "done")
    /\ Continues(x, Unstarted)
    /\ UNCHANGED <<minute, lenders, routeCache>>

ProfitNext ==
    \/ MinutePasses
    \/ \E x \in Executions :
          \/ \E o \in Liquidations : GateStarts(x, o)
          \/ \E o \in ArbOffers : ArbitrageDrained(x, o)
          \/ DebtPriced(x) \/ GateEnds(x) \/ BuildRequest(x)
          \/ RouteCached(x) \/ RouteStarts(x)
          \/ EvaluateLender(x) \/ LenderUnquoted(x) \/ RouteEnds(x) \/ Settled(x)

ProfitSpec == ProfitInit /\ [][ProfitNext]_profitVars

ProfitTypeOK ==
    /\ minute \in 0 .. RouteTicks /\ lenders \in LenderLists
    /\ \A e \in routeCache : e.at \in 0 .. RouteTicks /\ e.answer.lender \in 0 .. Len(lenders)
    /\ \A x \in Executions :
          /\ exec[x].at \in {"idle", "gate", "sanity", "kept", "route", "lenders", "done"}
          /\ exec[x].tried \in 0 .. Len(lenders) + 1 /\ exec[x].answer.lender \in 0 .. Len(lenders)

-----------------------------------------------------------------------------
(* Properties *)

(* A candidate the gate keeps was priced by the oracle, however often it   *)
(* failed, and its bonus is worth more than the gas and the premium that   *)
(* the gate counts (liquidationCandidateGate.ts:261-272,                   *)
(* liquidationProfitabilityGate.ts:40-55).                                 *)
KeptPaysOff ==
    \A x \in Executions :
        exec[x].at = "kept" =>
            LET worth == exec[x].offer.units * exec[x].price
            IN  GateBonusUsd(exec[x].offer, worth) > GateCosts(exec[x].gas, worth)

(* Whether it is evaluated or comes from the cache, filled by another      *)
(* execution, an answer is what the lenders of the moment say of this      *)
(* request: the one that leaves most, if any leaves the margin             *)
(* (flashLoanProviderRouter.ts:60-63, 76-106).                             *)
AnswerIsBest ==
    \A x \in Executions :
        exec[x].at = "done" =>
            LET r == exec[x].request
                answer == exec[x].answer
                approving == {i \in DOMAIN lenders : Approves(r, FeeOf[lenders[i]])}
            IN  IF approving = {} THEN answer = Rejected
                ELSE /\ answer.lender \in approving
                     /\ \A i \in approving : NetWith(r, i) <= NetWith(r, answer.lender)

(* Violated: by the expected profit that the builder itself computes, with *)
(* the loan repaid from the seized collateral (liquidationExecutionAdapter *)
(* .ts:52-59), the liquidation pays and leaves the margin, and yet no      *)
(* lender is selected.                                                     *)
ProfitableIsSelected ==
    \A x \in Executions :
        LET r == exec[x].request
        IN  (/\ exec[x].at = "done" /\ exec[x].offer # NoOffer
             /\ IsProfitable(r) /\ MeetsMargin(ExpectedProfit(r) - r.safety, r))
            => exec[x].answer.status = "selected"
=============================================================================
