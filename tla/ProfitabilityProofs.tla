------------------------ MODULE ProfitabilityProofs ------------------------
(***************************************************************************)
(* What the gate keeps pays for itself, and what the router answers is the *)
(* best lender, for any number of executions, any prices, offers, lenders  *)
(* and fees.  GateInv says of an execution on its way through the gate     *)
(* that its debt is the one priced last; the floors and the dust filter    *)
(* then give the first result by arithmetic.  RouteInv says that the       *)
(* answer so far is the best of the lenders asked so far, and that what    *)
(* the cache holds is the best of all for the request it is kept under.    *)
(* From both follows that no liquidation is ever selected.                 *)
(***************************************************************************)
EXTENDS Profitability, TLAPS

(* What is known of an execution e by the point it has reached.            *)
Priced(e) ==
    e.at \in {"gate", "sanity", "kept"} =>
        /\ e.offer \in Liquidations
        /\ e.gas \in Nat
        /\ e.at # "gate" => e.price \in Nat /\ e.debt = e.offer.units * e.price

Worthwhile(e) ==
    e.at = "kept" =>
        /\ e.debt # 0
        /\ 4 * GateBonusUsd(e.offer, e.debt) >= 5 * GateCosts(e.gas, e.debt)

ExecFields == {"at", "offer", "gas", "price", "debt", "request", "tried", "answer"}
ExecShape(e) == e = [f \in ExecFields |-> e[f]]

GateInv ==
    /\ exec = [x \in Executions |-> exec[x]]
    /\ \A x \in Executions : ExecShape(exec[x]) /\ Priced(exec[x]) /\ Worthwhile(exec[x])

-----------------------------------------------------------------------------

(* The gas cost of liquidationCandidateGate.ts is a natural number.        *)
LEMMA GasIsNat == ASSUME NEW native \in UsdPrices PROVE GasCostUsd(native) \in Nat
  <1>1. native \in Nat /\ ConfigGas \in Nat /\ GasUnits \in Nat
    BY ProfitabilityAssumption
  <1>2. GasUnits * native \in Nat
    BY <1>1
  <1> QED
    BY <1>1, <1>2 DEF GasCostUsd

(* An offer has a positive rate, that of its bonus or the default one.     *)
LEMMA BonusIsPositive ==
    ASSUME NEW o \in Liquidations PROVE GateBonus(o) \in Nat /\ GateBonus(o) > 0
  <1>1. Bps \in Nat /\ Bps >= 20 /\ o.bonus \in 0 .. Bps
    BY ProfitabilityAssumption
  <1> QED
    BY <1>1 DEF GateBonus

(* The product of two naturals is one, and positive if both are.           *)
LEMMA Products ==
    ASSUME NEW a \in Nat, NEW b \in Nat
    PROVE  a * b \in Nat /\ (a # 0 /\ b # 0 => a * b > 0)
  OBVIOUS

(* The floors of liquidationProfitabilityGate.ts:40-55 make the bonus      *)
(* worth more than what it has to pay for, even where nothing has to be    *)
(* paid.                                                                   *)
LEMMA FloorsPay ==
    ASSUME NEW o \in Liquidations, NEW gas \in Nat, NEW debt \in Nat, debt # 0,
           4 * GateBonusUsd(o, debt) >= 5 * GateCosts(gas, debt)
    PROVE  GateBonusUsd(o, debt) > GateCosts(gas, debt)
  <1>1. Bps \in Nat /\ PremiumBps \in Nat
    BY ProfitabilityAssumption
  <1>2. GateBonusUsd(o, debt) \in Nat /\ GateBonusUsd(o, debt) > 0
    BY BonusIsPositive, Products DEF GateBonusUsd
  <1>3. Bps * gas \in Nat /\ debt * PremiumBps \in Nat
    BY <1>1, Products
  <1>4. GateCosts(gas, debt) \in Nat
    BY <1>3 DEF GateCosts
  <1> DEFINE bonus == GateBonusUsd(o, debt)
             costs == GateCosts(gas, debt)
  <1>5. bonus \in Nat /\ bonus > 0 /\ costs \in Nat /\ 4 * bonus >= 5 * costs
    BY <1>2, <1>4
  <1> HIDE DEF bonus, costs
  <1>6. bonus > costs
    BY <1>5
  <1> QED
    BY <1>6 DEF bonus, costs

LEMMA UnstartedShape == ExecShape(Unstarted) /\ Unstarted.at = "idle"
  BY DEF ExecShape, ExecFields, Unstarted

-----------------------------------------------------------------------------

LEMMA GateInit == ProfitInit => GateInv
  BY UnstartedShape DEF ProfitInit, GateInv, Priced, Worthwhile

(* A step that changes one execution keeps the invariant if the new value  *)
(* of that execution has it.                                               *)
LEMMA OneChanges ==
    ASSUME GateInv, NEW x \in Executions, NEW next, Continues(x, next),
           ExecShape(next), Priced(next), Worthwhile(next)
    PROVE  GateInv'
  <1>1. exec' = [y \in Executions |-> IF y = x THEN next ELSE exec[y]]
    BY DEF GateInv, Continues
  <1>2. \A y \in Executions : ExecShape(exec'[y]) /\ Priced(exec'[y]) /\ Worthwhile(exec'[y])
    BY <1>1 DEF GateInv
  <1>3. exec' = [y \in Executions |-> exec'[y]]
    BY <1>1
  <1> QED
    BY <1>2, <1>3 DEF GateInv, ExecShape, Priced, Worthwhile

(* Past the gate nothing is claimed.                                       *)
LEMMA PastTheGate ==
    ASSUME NEW e, e.at \notin {"gate", "sanity", "kept"}
    PROVE  Priced(e) /\ Worthwhile(e)
  BY DEF Priced, Worthwhile

LEMMA GateStep == GateInv /\ [ProfitNext]_profitVars => GateInv'
  <1> SUFFICES ASSUME GateInv, [ProfitNext]_profitVars PROVE GateInv'
    OBVIOUS
  <1>1. CASE UNCHANGED exec
    BY <1>1 DEF GateInv
  <1>2. ASSUME NEW x \in Executions, NEW o \in Liquidations, GateStarts(x, o) PROVE GateInv'
    <2>1. PICK native \in UsdPrices :
             Continues(x, [Unstarted EXCEPT !.at = "gate", !.offer = o, !.gas = GasCostUsd(native)])
      BY <1>2 DEF GateStarts
    <2> DEFINE next == [Unstarted EXCEPT !.at = "gate", !.offer = o, !.gas = GasCostUsd(native)]
    <2>2. ExecShape(next) /\ next.at = "gate" /\ next.offer = o /\ next.gas = GasCostUsd(native)
      BY DEF ExecShape, ExecFields, Unstarted
    <2>3. Priced(next) /\ Worthwhile(next)
      BY <2>2, GasIsNat DEF Priced, Worthwhile
    <2> HIDE DEF next
    <2> QED
      BY <2>1, <2>2, <2>3, OneChanges DEF next
  <1>3. ASSUME NEW x \in Executions, DebtPriced(x) PROVE GateInv'
    <2>1. PICK price \in UsdPrices :
             Continues(x, [exec[x] EXCEPT !.at = "sanity", !.price = price,
                               !.debt = FreshDebt(exec[x].offer, price)])
      BY <1>3 DEF DebtPriced
    <2> DEFINE next == [exec[x] EXCEPT !.at = "sanity", !.price = price,
                            !.debt = FreshDebt(exec[x].offer, price)]
    <2>2. ExecShape(exec[x]) /\ Priced(exec[x]) /\ exec[x].at = "gate"
      BY <1>3 DEF GateInv, DebtPriced, Reaches
    <2>3. /\ ExecShape(next) /\ next.at = "sanity" /\ next.price = price
          /\ next.debt = FreshDebt(exec[x].offer, price)
          /\ next.offer = exec[x].offer /\ next.gas = exec[x].gas
      BY <2>2 DEF ExecShape, ExecFields
    <2>4. price \in Nat
      BY ProfitabilityAssumption
    <2>5. Priced(next) /\ Worthwhile(next)
      BY <2>2, <2>3, <2>4 DEF Priced, Worthwhile, FreshDebt
    <2> HIDE DEF next
    <2> QED
      BY <2>1, <2>3, <2>5, OneChanges DEF next
  <1>4. ASSUME NEW x \in Executions, GateEnds(x) PROVE GateInv'
    <2>1. PICK chainlink \in UsdPrices, twap \in UsdPrices :
             Continues(x, IF KeepsCandidate(x, chainlink, twap) THEN [exec[x] EXCEPT !.at = "kept"]
                          ELSE Unstarted)
      BY <1>4 DEF GateEnds
    <2>2. ExecShape(exec[x]) /\ Priced(exec[x]) /\ exec[x].at = "sanity"
      BY <1>4 DEF GateInv, GateEnds, Reaches
    <2>3. CASE KeepsCandidate(x, chainlink, twap)
      <3> DEFINE next == [exec[x] EXCEPT !.at = "kept"]
      <3>1. /\ ExecShape(next) /\ next.at = "kept" /\ next.price = exec[x].price
            /\ next.debt = exec[x].debt /\ next.offer = exec[x].offer /\ next.gas = exec[x].gas
        BY <2>2 DEF ExecShape, ExecFields
      <3>2. Priced(next)
        BY <2>2, <3>1 DEF Priced
      <3>3. Worthwhile(next)
        BY <2>3, <3>1 DEF Worthwhile, KeepsCandidate, IsDust, PassesFloors
      <3>4. Continues(x, next)
        BY <2>1, <2>3
      <3> HIDE DEF next
      <3> QED
        BY <3>1, <3>2, <3>3, <3>4, OneChanges
    <2>4. CASE ~KeepsCandidate(x, chainlink, twap)
      BY <2>1, <2>4, UnstartedShape, PastTheGate, OneChanges
    <2> QED
      BY <2>3, <2>4
  <1>5. ASSUME NEW x \in Executions, BuildRequest(x) PROVE GateInv'
    <2>1. PICK native \in UsdPrices :
             Continues(x, IF HasReceiver
                          THEN [Unstarted EXCEPT !.at = "route", !.offer = exec[x].offer,
                                   !.request = LiquidationRequest(exec[x].offer, exec[x].debt,
                                                                  GasCostUsd(native))]
                          ELSE Unstarted)
      BY <1>5 DEF BuildRequest
    <2> DEFINE r == LiquidationRequest(exec[x].offer, exec[x].debt, GasCostUsd(native))
    <2> HIDE DEF r
    <2> DEFINE next == [Unstarted EXCEPT !.at = "route", !.offer = exec[x].offer, !.request = r]
    <2>2. ExecShape(next) /\ next.at = "route"
      BY DEF ExecShape, ExecFields, Unstarted
    <2>3. Continues(x, next) \/ Continues(x, Unstarted)
      BY <2>1 DEF r
    <2> HIDE DEF next
    <2> QED
      BY <2>2, <2>3, UnstartedShape, PastTheGate, OneChanges
  <1>6. ASSUME NEW x \in Executions, NEW o \in ArbOffers, ArbitrageDrained(x, o) PROVE GateInv'
    <2> DEFINE next == [Unstarted EXCEPT !.at = "route", !.request = ArbRequest(o)]
    <2>1. Continues(x, next)
      BY <1>6 DEF ArbitrageDrained
    <2>2. ExecShape(next) /\ next.at = "route"
      BY DEF ExecShape, ExecFields, Unstarted
    <2> HIDE DEF next
    <2> QED
      BY <2>1, <2>2, PastTheGate, OneChanges
  <1>7. ASSUME NEW x \in Executions, RouteCached(x) PROVE GateInv'
    <2>1. PICK e \in CachedFor(exec[x].request) :
             Continues(x, [exec[x] EXCEPT !.at = "done", !.answer = e.answer])
      BY <1>7 DEF RouteCached
    <2> DEFINE next == [exec[x] EXCEPT !.at = "done", !.answer = e.answer]
    <2>2. ExecShape(next) /\ next.at = "done"
      BY DEF GateInv, ExecShape, ExecFields
    <2> HIDE DEF next
    <2> QED
      BY <2>1, <2>2, PastTheGate, OneChanges DEF next
  <1>8. ASSUME NEW x \in Executions, RouteStarts(x) PROVE GateInv'
    <2> DEFINE next == [exec[x] EXCEPT !.at = "lenders", !.tried = 1]
    <2>1. Continues(x, next)
      BY <1>8 DEF RouteStarts
    <2>2. ExecShape(next) /\ next.at = "lenders"
      BY DEF GateInv, ExecShape, ExecFields
    <2> HIDE DEF next
    <2> QED
      BY <2>1, <2>2, PastTheGate, OneChanges
  <1>9. ASSUME NEW x \in Executions, EvaluateLender(x) PROVE GateInv'
    <2> DEFINE r == exec[x].request
               i == exec[x].tried
               chosen == IF Approves(r, FeeOf[lenders[i]]) /\ Better(r, i, exec[x].answer)
                         THEN Selected(i) ELSE exec[x].answer
    <2>1. Continues(x, [exec[x] EXCEPT !.tried = i + 1, !.answer = chosen]) /\ exec[x].at = "lenders"
      BY <1>9 DEF EvaluateLender, Reaches
    <2> HIDE DEF r, chosen
    <2> DEFINE next == [exec[x] EXCEPT !.tried = i + 1, !.answer = chosen]
    <2>2. ExecShape(next) /\ next.at = "lenders"
      BY <2>1 DEF GateInv, ExecShape, ExecFields
    <2>3. Continues(x, next)
      BY <2>1
    <2> HIDE DEF next
    <2> QED
      BY <2>2, <2>3, PastTheGate, OneChanges
  <1>10. ASSUME NEW x \in Executions, LenderUnquoted(x) \/ Settled(x) PROVE GateInv'
    BY <1>10, UnstartedShape, PastTheGate, OneChanges DEF LenderUnquoted, Settled
  <1>11. ASSUME NEW x \in Executions, RouteEnds(x) PROVE GateInv'
    <2> DEFINE answer == IF exec[x].answer = NoRoute THEN Rejected ELSE exec[x].answer
    <2>1. Continues(x, [exec[x] EXCEPT !.at = "done", !.answer = answer])
      BY <1>11 DEF RouteEnds
    <2> HIDE DEF answer
    <2> DEFINE next == [exec[x] EXCEPT !.at = "done", !.answer = answer]
    <2>2. ExecShape(next) /\ next.at = "done"
      BY DEF GateInv, ExecShape, ExecFields
    <2>3. Continues(x, next)
      BY <2>1
    <2> HIDE DEF next
    <2> QED
      BY <2>2, <2>3, PastTheGate, OneChanges
  <1> QED
    BY <1>1, <1>2, <1>3, <1>4, <1>5, <1>6, <1>7, <1>8, <1>9, <1>10, <1>11
       DEF ProfitNext, profitVars, MinutePasses

(* What is known of an execution at each point of the gate.                *)
THEOREM GateInvariant == ProfitSpec => []GateInv
  BY GateInit, GateStep, PTL DEF ProfitSpec

(* A candidate the gate keeps (liquidationCandidateGate.ts:261-272) has a  *)
(* bonus worth more than its gas and its premium at the oracle's price.    *)
THEOREM KeptCandidatesPayOff == ProfitSpec => []KeptPaysOff
  <1>1. GateInv => KeptPaysOff
    <2> SUFFICES ASSUME GateInv, NEW x \in Executions, exec[x].at = "kept"
                 PROVE  LET worth == exec[x].offer.units * exec[x].price
                        IN  GateBonusUsd(exec[x].offer, worth) > GateCosts(exec[x].gas, worth)
      BY DEF KeptPaysOff
    <2>1. Priced(exec[x]) /\ Worthwhile(exec[x])
      BY DEF GateInv
    <2>2. /\ exec[x].offer \in Liquidations /\ exec[x].gas \in Nat /\ exec[x].price \in Nat
          /\ exec[x].debt = exec[x].offer.units * exec[x].price
      BY <2>1 DEF Priced
    <2>3. exec[x].offer.units \in Nat
      BY <2>2, ProfitabilityAssumption
    <2>4. exec[x].debt \in Nat
      BY <2>2, <2>3, Products
    <2>5. /\ exec[x].debt # 0
          /\ 4 * GateBonusUsd(exec[x].offer, exec[x].debt) >= 5 * GateCosts(exec[x].gas, exec[x].debt)
      BY <2>1 DEF Worthwhile
    <2>6. GateBonusUsd(exec[x].offer, exec[x].debt) > GateCosts(exec[x].gas, exec[x].debt)
      BY <2>2, <2>4, <2>5, FloorsPay
    <2> QED
      BY <2>2, <2>6
  <1> QED
    BY <1>1, GateInvariant, PTL

-----------------------------------------------------------------------------
(* The router *)

ApprovingUpTo(r, n) == {i \in 1 .. n : Approves(r, FeeOf[lenders[i]])}

(* An answer is the best of the first n lenders, or says that none will do. *)
Best(r, n, answer, none) ==
    IF ApprovingUpTo(r, n) = {} THEN answer = none
    ELSE /\ answer = Selected(answer.lender)
         /\ answer.lender \in ApprovingUpTo(r, n)
         /\ \A i \in ApprovingUpTo(r, n) : NetWith(r, i) <= NetWith(r, answer.lender)

Numeric(r) == r.revenue \in Int /\ r.debt \in Int /\ r.gas \in Int /\ r.slippage \in Int /\ r.safety \in Int

Routed(e) ==
    /\ e.at \in {"route", "lenders"} => Numeric(e.request)
    /\ e.at = "route" => e.answer = NoRoute
    /\ e.at = "lenders" =>
          /\ e.tried \in 1 .. Len(lenders) + 1
          /\ \A i \in 1 .. e.tried - 1 : Quoted(i)
          /\ Best(e.request, e.tried - 1, e.answer, NoRoute)
    /\ e.at = "done" => Best(e.request, Len(lenders), e.answer, Rejected)

CacheSound == \A e \in routeCache : Best(e.key, Len(lenders), e.answer, Rejected)

RouteInv ==
    /\ lenders \in LenderLists
    /\ CacheSound
    /\ \A x \in Executions : Routed(exec[x])

-----------------------------------------------------------------------------

LEMMA LendersAreList == RouteInv => lenders \in Seq(STRING) /\ Len(lenders) \in Nat
  BY ProfitabilityAssumption DEF RouteInv

(* The profit left with a quoted lender is an integer.                     *)
LEMMA NetIsInt ==
    ASSUME NEW r, Numeric(r), NEW i, Quoted(i) PROVE NetWith(r, i) \in Int
  <1>1. FeeOf[lenders[i]] \in Int
    BY ProfitabilityAssumption DEF Quoted
  <1> QED
    BY <1>1 DEF NetWith, NetProfit, Costs, Numeric

(* One more lender: the loop keeps the better of the two                   *)
(* (flashLoanProviderRouter.ts:76-106).                                    *)
LEMMA OneMoreLender ==
    ASSUME RouteInv, NEW r, Numeric(r), NEW i \in 1 .. Len(lenders), NEW answer,
           \A j \in 1 .. i : Quoted(j), Best(r, i - 1, answer, NoRoute)
    PROVE  Best(r, i, IF Approves(r, FeeOf[lenders[i]]) /\ Better(r, i, answer)
                      THEN Selected(i) ELSE answer, NoRoute)
  <1>1. i \in Nat /\ i >= 1
    BY LendersAreList
  <1>2. \A j \in 1 .. i : NetWith(r, j) \in Int
    BY NetIsInt
  <1>3. Selected(i).lender = i /\ Selected(i) # NoRoute
    BY DEF Selected, NoRoute
  <1>4. \A j : j \in ApprovingUpTo(r, i) <=>
                 j \in ApprovingUpTo(r, i - 1) \/ (j = i /\ Approves(r, FeeOf[lenders[i]]))
    BY <1>1 DEF ApprovingUpTo
  <1>5. \A j \in ApprovingUpTo(r, i) : NetWith(r, j) \in Int
    BY <1>2 DEF ApprovingUpTo
  <1>6. CASE ~Approves(r, FeeOf[lenders[i]])
    <2>1. ApprovingUpTo(r, i) = ApprovingUpTo(r, i - 1)
      BY <1>4, <1>6
    <2> QED
      BY <1>6, <2>1 DEF Best
  <1>7. CASE Approves(r, FeeOf[lenders[i]]) /\ answer = NoRoute
    <2>1. ApprovingUpTo(r, i - 1) = {}
      <3>1. \A j : Selected(j) # NoRoute
        BY DEF Selected, NoRoute
      <3> QED
        BY <1>7, <3>1 DEF Best
    <2>2. ApprovingUpTo(r, i) = {i}
      BY <1>4, <1>7, <2>1
    <2> QED
      BY <1>2, <1>1, <1>3, <1>7, <2>2 DEF Best, Better
  <1>8. CASE Approves(r, FeeOf[lenders[i]]) /\ answer # NoRoute
    <2>1. /\ answer = Selected(answer.lender) /\ answer.lender \in ApprovingUpTo(r, i - 1)
          /\ \A j \in ApprovingUpTo(r, i - 1) : NetWith(r, j) <= NetWith(r, answer.lender)
      BY <1>8 DEF Best
    <2>2. i \in ApprovingUpTo(r, i) /\ answer.lender \in ApprovingUpTo(r, i)
      BY <1>4, <1>8, <2>1
    <2>3. CASE NetWith(r, i) > NetWith(r, answer.lender)
      <3>1. \A j \in ApprovingUpTo(r, i) : NetWith(r, j) <= NetWith(r, i)
        BY <1>4, <1>5, <2>1, <2>2, <2>3
      <3> QED
        BY <1>3, <1>8, <2>2, <2>3, <3>1 DEF Best, Better
    <2>4. CASE ~(NetWith(r, i) > NetWith(r, answer.lender))
      <3>1. \A j \in ApprovingUpTo(r, i) : NetWith(r, j) <= NetWith(r, answer.lender)
        BY <1>4, <1>5, <2>1, <2>2, <2>4
      <3> QED
        BY <1>8, <2>1, <2>2, <2>4, <3>1 DEF Best, Better
    <2> QED
      BY <2>3, <2>4
  <1> QED
    BY <1>6, <1>7, <1>8

(* The best of all lenders, or the rejection (:95-106).                    *)
LEMMA LoopEnds ==
    ASSUME NEW r, NEW answer, Best(r, Len(lenders), answer, NoRoute)
    PROVE  Best(r, Len(lenders), IF answer = NoRoute THEN Rejected ELSE answer, Rejected)
  <1>1. \A j : Selected(j) # NoRoute
    BY DEF Selected, NoRoute
  <1> QED
    BY <1>1 DEF Best

-----------------------------------------------------------------------------

LEMMA RouteInit == ProfitInit => RouteInv
  BY UnstartedShape DEF ProfitInit, RouteInv, CacheSound, Routed

LEMMA OneRoutes ==
    ASSUME GateInv, RouteInv, NEW x \in Executions, NEW next, Continues(x, next), Routed(next),
           lenders' = lenders, CacheSound'
    PROVE  RouteInv'
  <1>1. exec' = [y \in Executions |-> IF y = x THEN next ELSE exec[y]]
    BY DEF GateInv, Continues
  <1>2. \A y \in Executions : Routed(exec'[y])
    BY <1>1 DEF RouteInv
  <1>3. \A y \in Executions : Routed(exec[y])'
    BY <1>2 DEF Routed, Best, ApprovingUpTo, Quoted, NetWith
  <1> QED
    BY <1>3 DEF RouteInv

LEMMA CacheKept ==
    ASSUME RouteInv, lenders' = lenders, routeCache' = routeCache PROVE CacheSound'
  BY DEF RouteInv, CacheSound, Best, ApprovingUpTo, NetWith

(* Before the router nothing is claimed.                                   *)
LEMMA NotRouted == ASSUME NEW e, e.at \in {"idle", "gate", "sanity", "kept"} PROVE Routed(e)
  BY DEF Routed

(* The amounts of both kinds of request are integers.                      *)
LEMMA LiquidationNumeric ==
    ASSUME NEW o \in Liquidations, NEW debt \in Nat, NEW gas \in Nat
    PROVE  Numeric(LiquidationRequest(o, debt, gas))
  <1>1. {o.bonus, Bps, SlipBps, MinProfit} \subseteq Nat
    BY ProfitabilityAssumption
  <1>2. {debt * o.bonus, debt * Bps, gas * Bps, debt * SlipBps, MinProfit * Bps} \subseteq Nat
    BY <1>1, Products
  <1> QED
    BY <1>2 DEF LiquidationRequest, Numeric

LEMMA ArbNumeric == ASSUME NEW o \in ArbOffers PROVE Numeric(ArbRequest(o))
  BY ProfitabilityAssumption DEF ArbRequest, Numeric

LEMMA RouteStep == GateInv /\ RouteInv /\ [ProfitNext]_profitVars => RouteInv'
  <1> SUFFICES ASSUME GateInv, RouteInv, [ProfitNext]_profitVars PROVE RouteInv'
    OBVIOUS
  <1>1. ASSUME UNCHANGED <<lenders, routeCache, exec>> PROVE RouteInv'
    BY <1>1 DEF RouteInv, CacheSound, Routed, Best, ApprovingUpTo, NetWith, Quoted
  <1>2. ASSUME NEW x \in Executions, NEW o \in Liquidations, GateStarts(x, o) PROVE RouteInv'
    <2>1. PICK native \in UsdPrices :
             Continues(x, [Unstarted EXCEPT !.at = "gate", !.offer = o, !.gas = GasCostUsd(native)])
      BY <1>2 DEF GateStarts
    <2> DEFINE next == [Unstarted EXCEPT !.at = "gate", !.offer = o, !.gas = GasCostUsd(native)]
    <2>2. next.at = "gate" /\ Continues(x, next)
      BY <2>1 DEF Unstarted
    <2> HIDE DEF next
    <2> QED
      BY <1>2, <2>2, NotRouted, OneRoutes, CacheKept DEF GateStarts
  <1>3. ASSUME NEW x \in Executions, DebtPriced(x) PROVE RouteInv'
    <2>1. PICK price \in UsdPrices :
             Continues(x, [exec[x] EXCEPT !.at = "sanity", !.price = price,
                               !.debt = FreshDebt(exec[x].offer, price)])
      BY <1>3 DEF DebtPriced
    <2> DEFINE next == [exec[x] EXCEPT !.at = "sanity", !.price = price,
                            !.debt = FreshDebt(exec[x].offer, price)]
    <2>2. next.at = "sanity"
      BY DEF GateInv, ExecShape, ExecFields
    <2>3. Continues(x, next)
      BY <2>1
    <2> HIDE DEF next
    <2> QED
      BY <1>3, <2>2, <2>3, NotRouted, OneRoutes, CacheKept DEF DebtPriced
  <1>4. ASSUME NEW x \in Executions, GateEnds(x) PROVE RouteInv'
    <2> DEFINE next == [exec[x] EXCEPT !.at = "kept"]
    <2>1. Continues(x, next) \/ Continues(x, Unstarted)
      BY <1>4 DEF GateEnds
    <2>2. next.at = "kept"
      BY DEF GateInv, ExecShape, ExecFields
    <2> HIDE DEF next
    <2> QED
      BY <1>4, <2>1, <2>2, UnstartedShape, NotRouted, OneRoutes, CacheKept DEF GateEnds
  <1>5. ASSUME NEW x \in Executions, BuildRequest(x) PROVE RouteInv'
    <2>1. PICK native \in UsdPrices :
             Continues(x, IF HasReceiver
                          THEN [Unstarted EXCEPT !.at = "route", !.offer = exec[x].offer,
                                   !.request = LiquidationRequest(exec[x].offer, exec[x].debt,
                                                                  GasCostUsd(native))]
                          ELSE Unstarted)
      BY <1>5 DEF BuildRequest
    <2> DEFINE r == LiquidationRequest(exec[x].offer, exec[x].debt, GasCostUsd(native))
    <2>2. Numeric(r)
      <3>1. /\ exec[x].offer \in Liquidations /\ exec[x].price \in Nat
            /\ exec[x].debt = exec[x].offer.units * exec[x].price
        BY <1>5 DEF GateInv, Priced, BuildRequest, Reaches
      <3>2. exec[x].offer.units \in Nat
        BY <3>1, ProfitabilityAssumption
      <3>3. exec[x].debt \in Nat
        BY <3>1, <3>2, Products
      <3> QED
        BY <3>1, <3>3, GasIsNat, LiquidationNumeric
    <2> HIDE DEF r
    <2> DEFINE next == [Unstarted EXCEPT !.at = "route", !.offer = exec[x].offer, !.request = r]
    <2>3. next.at = "route" /\ next.request = r /\ next.answer = NoRoute
      BY DEF Unstarted
    <2>4. Continues(x, next) \/ Continues(x, Unstarted)
      BY <2>1 DEF r
    <2> HIDE DEF next
    <2>5. Routed(next) /\ Routed(Unstarted)
      BY <2>2, <2>3, UnstartedShape DEF Routed
    <2> QED
      BY <1>5, <2>4, <2>5, OneRoutes, CacheKept DEF BuildRequest
  <1>6. ASSUME NEW x \in Executions, NEW o \in ArbOffers, ArbitrageDrained(x, o) PROVE RouteInv'
    <2> DEFINE r == ArbRequest(o)
    <2>1. Continues(x, [Unstarted EXCEPT !.at = "route", !.request = r])
      BY <1>6 DEF ArbitrageDrained
    <2>2. Numeric(r)
      BY ArbNumeric
    <2> HIDE DEF r
    <2> DEFINE next == [Unstarted EXCEPT !.at = "route", !.request = r]
    <2>3. next.at = "route" /\ next.request = r /\ next.answer = NoRoute /\ Continues(x, next)
      BY <2>1 DEF Unstarted
    <2> HIDE DEF next
    <2>4. Routed(next)
      BY <2>2, <2>3 DEF Routed
    <2> QED
      BY <1>6, <2>3, <2>4, OneRoutes, CacheKept DEF ArbitrageDrained
  <1>7. ASSUME NEW x \in Executions, RouteCached(x) PROVE RouteInv'
    <2>1. PICK e \in CachedFor(exec[x].request) :
             Continues(x, [exec[x] EXCEPT !.at = "done", !.answer = e.answer])
      BY <1>7 DEF RouteCached
    <2>2. Best(exec[x].request, Len(lenders), e.answer, Rejected)
      BY DEF CachedFor, KeyOf, RouteInv, CacheSound
    <2> DEFINE a == e.answer
    <2> HIDE DEF a
    <2> DEFINE next == [exec[x] EXCEPT !.at = "done", !.answer = a]
    <2>3. next.at = "done" /\ next.answer = a /\ next.request = exec[x].request
      BY DEF GateInv, ExecShape, ExecFields
    <2>4. Continues(x, next)
      BY <2>1 DEF a
    <2> HIDE DEF next
    <2>5. Routed(next)
      BY <2>2, <2>3 DEF Routed, a
    <2> QED
      BY <1>7, <2>4, <2>5, OneRoutes, CacheKept DEF RouteCached
  <1>8. ASSUME NEW x \in Executions, RouteStarts(x) PROVE RouteInv'
    <2> DEFINE next == [exec[x] EXCEPT !.at = "lenders", !.tried = 1]
    <2>1. Continues(x, next)
      BY <1>8 DEF RouteStarts
    <2>2. next.at = "lenders" /\ next.tried = 1 /\ next.answer = exec[x].answer
          /\ next.request = exec[x].request
      BY DEF GateInv, ExecShape, ExecFields
    <2> HIDE DEF next
    <2>3. exec[x].answer = NoRoute /\ Numeric(exec[x].request)
      BY <1>8 DEF RouteInv, Routed, RouteStarts, Reaches
    <2>4. ApprovingUpTo(exec[x].request, 0) = {}
      BY DEF ApprovingUpTo
    <2>5. Routed(next)
      BY <2>2, <2>3, <2>4, LendersAreList DEF Routed, Best
    <2> QED
      BY <1>8, <2>1, <2>5, OneRoutes, CacheKept DEF RouteStarts
  <1>9. ASSUME NEW x \in Executions, EvaluateLender(x) PROVE RouteInv'
    <2> DEFINE r == exec[x].request
               i == exec[x].tried
               chosen == IF Approves(r, FeeOf[lenders[i]]) /\ Better(r, i, exec[x].answer)
                         THEN Selected(i) ELSE exec[x].answer
    <2>1. Continues(x, [exec[x] EXCEPT !.tried = i + 1, !.answer = chosen])
      BY <1>9 DEF EvaluateLender
    <2>2. /\ Numeric(r) /\ i \in 1 .. Len(lenders)
          /\ \A j \in 1 .. i : Quoted(j)
          /\ Best(r, i - 1, exec[x].answer, NoRoute)
      BY <1>9, LendersAreList DEF EvaluateLender, Reaches, RouteInv, Routed
    <2>3. Best(r, i, chosen, NoRoute)
      BY <2>2, OneMoreLender
    <2> HIDE DEF chosen
    <2> DEFINE next == [exec[x] EXCEPT !.tried = i + 1, !.answer = chosen]
    <2>4. /\ next.at = "lenders" /\ next.tried = i + 1 /\ next.answer = chosen
          /\ next.request = r
      BY <1>9 DEF GateInv, ExecShape, ExecFields, EvaluateLender, Reaches
    <2>5. Continues(x, next)
      BY <2>1
    <2> HIDE DEF next, r
    <2>6. i + 1 \in 1 .. Len(lenders) + 1 /\ (i + 1) - 1 = i
      BY <2>2, LendersAreList
    <2> HIDE DEF i
    <2>7. Routed(next)
      BY <2>2, <2>3, <2>4, <2>6 DEF Routed
    <2> QED
      BY <1>9, <2>5, <2>7, OneRoutes, CacheKept DEF EvaluateLender
  <1>10. ASSUME NEW x \in Executions, LenderUnquoted(x) \/ Settled(x) PROVE RouteInv'
    BY <1>10, UnstartedShape, NotRouted, OneRoutes, CacheKept DEF LenderUnquoted, Settled
  <1>11. ASSUME NEW x \in Executions, RouteEnds(x) PROVE RouteInv'
    <2> DEFINE r == exec[x].request
               answer == IF exec[x].answer = NoRoute THEN Rejected ELSE exec[x].answer
    <2>1. /\ Continues(x, [exec[x] EXCEPT !.at = "done", !.answer = answer])
          /\ routeCache' = {e \in routeCache : e.key # r}
                               \cup {[key |-> r, at |-> minute, answer |-> answer]}
          /\ lenders' = lenders
      BY <1>11 DEF RouteEnds, KeyOf
    <2>2. Best(r, Len(lenders), exec[x].answer, NoRoute)
      <3>1. exec[x].tried - 1 = Len(lenders)
        BY <1>11, LendersAreList DEF RouteEnds, Reaches, RouteInv, Routed
      <3> QED
        BY <1>11, <3>1 DEF RouteEnds, Reaches, RouteInv, Routed
    <2>3. Best(r, Len(lenders), answer, Rejected)
      BY <2>2, LoopEnds
    <2> HIDE DEF answer
    <2> DEFINE next == [exec[x] EXCEPT !.at = "done", !.answer = answer]
    <2>4. next.at = "done" /\ next.answer = answer /\ next.request = r
      BY DEF GateInv, ExecShape, ExecFields
    <2>5. Continues(x, next)
      BY <2>1
    <2> HIDE DEF next, r
    <2>6. Routed(next)
      BY <2>3, <2>4 DEF Routed
    <2>7. \A e \in routeCache' : Best(e.key, Len(lenders), e.answer, Rejected)
      BY <2>1, <2>3 DEF RouteInv, CacheSound
    <2>8. CacheSound'
      BY <2>1, <2>7 DEF CacheSound, Best, ApprovingUpTo, NetWith
    <2> QED
      BY <2>1, <2>5, <2>6, <2>8, OneRoutes
  <1> QED
    BY <1>1, <1>2, <1>3, <1>4, <1>5, <1>6, <1>7, <1>8, <1>9, <1>10, <1>11
       DEF ProfitNext, profitVars, MinutePasses

(* An answer, evaluated or cached by any execution, is the best lender for *)
(* the request it answers (flashLoanProviderRouter.ts:60-63, 76-106).      *)
THEOREM AnswersAreBest == ProfitSpec => []AnswerIsBest
  <1>1. RouteInv => AnswerIsBest
    <2> SUFFICES ASSUME RouteInv, NEW x \in Executions, exec[x].at = "done"
                 PROVE  LET r == exec[x].request
                            answer == exec[x].answer
                            approving == {i \in DOMAIN lenders : Approves(r, FeeOf[lenders[i]])}
                        IN  IF approving = {} THEN answer = Rejected
                            ELSE /\ answer.lender \in approving
                                 /\ \A i \in approving : NetWith(r, i) <= NetWith(r, answer.lender)
      BY DEF AnswerIsBest
    <2>1. Best(exec[x].request, Len(lenders), exec[x].answer, Rejected)
      BY DEF RouteInv, Routed
    <2>2. DOMAIN lenders = 1 .. Len(lenders)
      BY LendersAreList
    <2> QED
      BY <2>1, <2>2 DEF Best, ApprovingUpTo
  <1> QED
    BY <1>1, GateInit, GateStep, RouteInit, RouteStep, PTL DEF ProfitSpec

-----------------------------------------------------------------------------
(* The types of Profitability: a lender that was tried or answered is one  *)
(* of the chain's.                                                         *)

ExecPlaces == {"idle", "gate", "sanity", "kept", "route", "lenders", "done"}
OfChain(e) ==
    /\ e.at \in ExecPlaces /\ e.tried \in 0 .. Len(lenders) + 1
    /\ e.answer.lender \in 0 .. Len(lenders)
EntriesOfChain == \A e \in routeCache : e.at \in 0 .. RouteTicks /\ e.answer.lender \in 0 .. Len(lenders)

ChainInv ==
    /\ minute \in 0 .. RouteTicks /\ lenders \in LenderLists /\ EntriesOfChain
    /\ \A x \in Executions : OfChain(exec[x])

LEMMA ChainCounted == ASSUME lenders \in LenderLists PROVE Len(lenders) \in Nat /\ RouteTicks \in Nat
BY ProfitabilityAssumption

LEMMA UnstartedOfChain == ASSUME lenders \in LenderLists PROVE OfChain(Unstarted)
BY ChainCounted DEF OfChain, Unstarted, NoRoute, ExecPlaces

LEMMA ChainInvInit == ProfitInit => ChainInv
<1> SUFFICES ASSUME ProfitInit PROVE ChainInv
  OBVIOUS
<1>1. lenders \in LenderLists /\ minute = 0 /\ routeCache = {} /\ exec = [x \in Executions |-> Unstarted]
  BY DEF ProfitInit
<1> QED BY <1>1, UnstartedOfChain, ChainCounted DEF ChainInv, EntriesOfChain

LEMMA ExecOfChain ==
    ASSUME GateInv, ChainInv, NEW x \in Executions, NEW next, Continues(x, next), OfChain(next),
           UNCHANGED <<minute, lenders>>, EntriesOfChain'
    PROVE  ChainInv'
<1>1. exec' = [y \in Executions |-> IF y = x THEN next ELSE exec[y]]
  BY DEF GateInv, Continues
<1>2. \A y \in Executions : OfChain(exec'[y])
  BY <1>1 DEF ChainInv
<1> QED BY <1>2 DEF ChainInv, OfChain

(* What an execution keeps of another place.                               *)
LEMMA ExecMoves ==
    ASSUME NEW e, ExecShape(e), OfChain(e), NEW at \in ExecPlaces
    PROVE  /\ OfChain([e EXCEPT !.at = at])
           /\ \A price, debt : OfChain([e EXCEPT !.at = at, !.price = price, !.debt = debt])
           /\ \A answer : answer.lender \in 0 .. Len(lenders) => OfChain([e EXCEPT !.at = at, !.answer = answer])
           /\ \A n \in 0 .. Len(lenders) + 1 : OfChain([e EXCEPT !.at = at, !.tried = n])
           /\ \A answer : \A n \in 0 .. Len(lenders) + 1 :
                 answer.lender \in 0 .. Len(lenders) => OfChain([e EXCEPT !.tried = n, !.answer = answer])
BY DEF ExecShape, ExecFields, OfChain

LEMMA UnstartedMoves ==
    ASSUME lenders \in LenderLists, NEW at \in ExecPlaces, NEW offer, NEW gas, NEW request
    PROVE  /\ OfChain([Unstarted EXCEPT !.at = at, !.offer = offer, !.gas = gas])
           /\ OfChain([Unstarted EXCEPT !.at = at, !.offer = offer, !.request = request])
           /\ OfChain([Unstarted EXCEPT !.at = at, !.request = request])
<1>1. OfChain(Unstarted)
  BY UnstartedOfChain
<1> QED BY <1>1 DEF Unstarted, OfChain

LEMMA ChainInvStep == GateInv /\ ChainInv /\ [ProfitNext]_profitVars => ChainInv'
<1> SUFFICES ASSUME GateInv, ChainInv, [ProfitNext]_profitVars PROVE ChainInv'
  OBVIOUS
<1>1. lenders \in LenderLists /\ Len(lenders) \in Nat /\ RouteTicks \in Nat /\ minute \in 0 .. RouteTicks
  BY ChainCounted DEF ChainInv
<1>2. \A x \in Executions : ExecShape(exec[x]) /\ OfChain(exec[x])
  BY DEF GateInv, ChainInv
<1>3. CASE UNCHANGED profitVars
  BY <1>3 DEF profitVars, ChainInv, EntriesOfChain, OfChain
<1>4. CASE MinutePasses
  <2>1. minute' \in 0 .. RouteTicks /\ UNCHANGED <<lenders, routeCache, exec>>
    BY <1>1, <1>4 DEF MinutePasses
  <2> QED BY <2>1 DEF ChainInv, EntriesOfChain, OfChain
<1> DEFINE Apart == UNCHANGED <<minute, lenders>> /\ EntriesOfChain'
<1>5. ASSUME UNCHANGED <<minute, lenders, routeCache>> PROVE Apart
  BY <1>5 DEF ChainInv, EntriesOfChain
<1>6. ASSUME NEW x \in Executions, NEW o \in Liquidations, GateStarts(x, o) PROVE ChainInv'
  <2>1. PICK native : Continues(x, [Unstarted EXCEPT !.at = "gate", !.offer = o, !.gas = GasCostUsd(native)])
    BY <1>6 DEF GateStarts
  <2>2. "gate" \in ExecPlaces
    BY DEF ExecPlaces
  <2>3. OfChain([Unstarted EXCEPT !.at = "gate", !.offer = o, !.gas = GasCostUsd(native)])
    BY <1>1, <2>2, UnstartedMoves
  <2> QED BY <1>5, <1>6, <2>1, <2>3, ExecOfChain DEF GateStarts
<1>7. ASSUME NEW x \in Executions, NEW o \in ArbOffers, ArbitrageDrained(x, o) PROVE ChainInv'
  <2>1. Continues(x, [Unstarted EXCEPT !.at = "route", !.request = ArbRequest(o)])
    BY <1>7 DEF ArbitrageDrained
  <2>2. "route" \in ExecPlaces
    BY DEF ExecPlaces
  <2>3. OfChain([Unstarted EXCEPT !.at = "route", !.request = ArbRequest(o)])
    BY <1>1, <2>2, UnstartedMoves
  <2> QED BY <1>5, <1>7, <2>1, <2>3, ExecOfChain DEF ArbitrageDrained
<1>8. ASSUME NEW x \in Executions, DebtPriced(x) PROVE ChainInv'
  <2>1. PICK price : Continues(x, [exec[x] EXCEPT !.at = "sanity", !.price = price,
                                       !.debt = FreshDebt(exec[x].offer, price)])
    BY <1>8 DEF DebtPriced
  <2>2. "sanity" \in ExecPlaces
    BY DEF ExecPlaces
  <2>3. OfChain([exec[x] EXCEPT !.at = "sanity", !.price = price, !.debt = FreshDebt(exec[x].offer, price)])
    BY <1>2, <2>2, ExecMoves
  <2> QED BY <1>5, <1>8, <2>1, <2>3, ExecOfChain DEF DebtPriced
<1>9. ASSUME NEW x \in Executions, GateEnds(x) PROVE ChainInv'
  <2>1. Continues(x, [exec[x] EXCEPT !.at = "kept"]) \/ Continues(x, Unstarted)
    BY <1>9 DEF GateEnds
  <2>2. "kept" \in ExecPlaces
    BY DEF ExecPlaces
  <2>3. OfChain([exec[x] EXCEPT !.at = "kept"]) /\ OfChain(Unstarted)
    BY <1>1, <1>2, <2>2, ExecMoves, UnstartedOfChain
  <2> QED BY <1>5, <1>9, <2>1, <2>3, ExecOfChain DEF GateEnds
<1>10. ASSUME NEW x \in Executions, BuildRequest(x) PROVE ChainInv'
  <2>1. PICK request : \/ Continues(x, [Unstarted EXCEPT !.at = "route", !.offer = exec[x].offer,
                                            !.request = request])
                       \/ Continues(x, Unstarted)
    BY <1>10 DEF BuildRequest
  <2>2. "route" \in ExecPlaces
    BY DEF ExecPlaces
  <2>3. /\ OfChain([Unstarted EXCEPT !.at = "route", !.offer = exec[x].offer, !.request = request])
        /\ OfChain(Unstarted)
    BY <1>1, <2>2, UnstartedMoves, UnstartedOfChain
  <2> QED BY <1>5, <1>10, <2>1, <2>3, ExecOfChain DEF BuildRequest
<1>11. ASSUME NEW x \in Executions, RouteCached(x) PROVE ChainInv'
  <2>1. PICK e \in routeCache : Continues(x, [exec[x] EXCEPT !.at = "done", !.answer = e.answer])
    BY <1>11 DEF RouteCached, CachedFor
  <2>2. "done" \in ExecPlaces /\ e.answer.lender \in 0 .. Len(lenders)
    BY DEF ExecPlaces, ChainInv, EntriesOfChain
  <2>3. OfChain([exec[x] EXCEPT !.at = "done", !.answer = e.answer])
    BY <1>2, <2>2, ExecMoves
  <2> QED BY <1>5, <1>11, <2>1, <2>3, ExecOfChain DEF RouteCached
<1>12. ASSUME NEW x \in Executions, RouteStarts(x) PROVE ChainInv'
  <2>1. Continues(x, [exec[x] EXCEPT !.at = "lenders", !.tried = 1])
    BY <1>12 DEF RouteStarts
  <2>2. "lenders" \in ExecPlaces /\ 1 \in 0 .. Len(lenders) + 1
    BY <1>1 DEF ExecPlaces
  <2>3. OfChain([exec[x] EXCEPT !.at = "lenders", !.tried = 1])
    BY <1>2, <2>2, ExecMoves
  <2> QED BY <1>5, <1>12, <2>1, <2>3, ExecOfChain DEF RouteStarts
<1>13. ASSUME NEW x \in Executions, EvaluateLender(x) PROVE ChainInv'
  <2> DEFINE i == exec[x].tried
  <2>1. PICK answer \in {exec[x].answer, Selected(i)} :
          Continues(x, [exec[x] EXCEPT !.tried = i + 1, !.answer = answer])
    BY <1>13 DEF EvaluateLender
  <2>2. i \in 0 .. Len(lenders) /\ i + 1 \in 0 .. Len(lenders) + 1 /\ exec[x].answer.lender \in 0 .. Len(lenders)
    BY <1>1, <1>2, <1>13 DEF EvaluateLender, OfChain
  <2>3. answer.lender \in 0 .. Len(lenders)
    BY <2>1, <2>2 DEF Selected
  <2>4. OfChain([exec[x] EXCEPT !.tried = i + 1, !.answer = answer])
    <3>1. exec[x].at \in ExecPlaces
      BY <1>2 DEF OfChain
    <3> QED BY <1>2, <2>2, <2>3, <3>1, ExecMoves
  <2> QED BY <1>5, <1>13, <2>1, <2>4, ExecOfChain DEF EvaluateLender
<1>14. ASSUME NEW x \in Executions, LenderUnquoted(x) \/ Settled(x) PROVE ChainInv'
  BY <1>1, <1>5, <1>14, UnstartedOfChain, ExecOfChain DEF LenderUnquoted, Settled
<1>15. ASSUME NEW x \in Executions, RouteEnds(x) PROVE ChainInv'
  <2> DEFINE answer == IF exec[x].answer = NoRoute THEN Rejected ELSE exec[x].answer
  <2>1. answer.lender \in 0 .. Len(lenders)
    BY <1>1, <1>2 DEF OfChain, Rejected, NoRoute
  <2>2. /\ routeCache' = {e \in routeCache : e.key # KeyOf(exec[x].request)}
                           \cup {[key |-> KeyOf(exec[x].request), at |-> minute, answer |-> answer]}
        /\ Continues(x, [exec[x] EXCEPT !.at = "done", !.answer = answer])
        /\ UNCHANGED <<minute, lenders>>
    BY <1>15 DEF RouteEnds
  <2> HIDE DEF answer
  <2>3. EntriesOfChain'
    BY <1>1, <2>1, <2>2 DEF ChainInv, EntriesOfChain
  <2>4. "done" \in ExecPlaces
    BY DEF ExecPlaces
  <2>5. OfChain([exec[x] EXCEPT !.at = "done", !.answer = answer])
    BY <1>2, <2>1, <2>4, ExecMoves
  <2> QED BY <2>2, <2>3, <2>5, ExecOfChain
<1> QED BY <1>3, <1>4, <1>6, <1>7, <1>8, <1>9, <1>10, <1>11, <1>12, <1>13, <1>14, <1>15 DEF ProfitNext

LEMMA ChainInvTyped == ChainInv => ProfitTypeOK
BY DEF ChainInv, EntriesOfChain, OfChain, ExecPlaces, ProfitTypeOK

(* The types of Profitability: a lender that an execution tries, or that an*)
(* answer or the cache names, is one of the chain's                        *)
(* (flashLoanProviderRouter.ts:76-106).                                    *)
THEOREM ProfitTypeCorrect == ProfitSpec => []ProfitTypeOK
<1>1. ProfitInit => GateInv /\ ChainInv
  BY GateInit, ChainInvInit
<1>2. GateInv /\ ChainInv /\ [ProfitNext]_profitVars => (GateInv /\ ChainInv)'
  BY GateStep, ChainInvStep
<1> QED BY <1>1, <1>2, ChainInvTyped, PTL DEF ProfitSpec

-----------------------------------------------------------------------------
(* No liquidation pays: its request has a bonus of at most the loan as     *)
(* revenue, and the whole loan among its costs.                            *)

IsLiquidation(r) == \E o \in Liquidations, debt, gas \in Nat : r = LiquidationRequest(o, debt, gas)

(* What came through the gate has an offer, and the request built of it.   *)
BuiltFromOffer(e) ==
    e.at \in {"route", "lenders", "done"} /\ e.offer # NoOffer => IsLiquidation(e.request)

(* Nobody is answered, now or from the cache, before all lenders quoted.   *)
AllQuoted == \A i \in 1 .. Len(lenders) : Quoted(i)
AnsweredIfQuoted(e) == e.at = "done" => AllQuoted

BuiltInv ==
    /\ \A x \in Executions : BuiltFromOffer(exec[x]) /\ AnsweredIfQuoted(exec[x])
    /\ routeCache # {} => AllQuoted

LiquidationsRejected ==
    \A x \in Executions : exec[x].at = "done" /\ exec[x].offer # NoOffer => exec[x].answer = Rejected

(* Of the bonus of a liquidation nothing is left, whatever the lender asks *)
(* (liquidationExecutionAdapter.ts:60-61).                                 *)
LEMMA NothingIsLeft ==
    ASSUME NEW o \in Liquidations, NEW debt \in Nat, NEW gas \in Nat, NEW fee \in Nat
    PROVE  NetProfit(LiquidationRequest(o, debt, gas), fee) = 0
  <1> DEFINE r == LiquidationRequest(o, debt, gas)
  <1>1. Bps \in Nat /\ SlipBps \in Nat /\ MinProfit \in Nat /\ o.bonus \in Nat /\ Bps - o.bonus \in Nat
    BY ProfitabilityAssumption
  <1>2. debt * (Bps - o.bonus) \in Nat /\ debt * o.bonus \in Nat /\ debt * Bps \in Nat
    BY <1>1, Products
  <1>3. debt * o.bonus <= debt * Bps
    BY <1>1, <1>2
  <1>4. gas * Bps \in Nat /\ debt * SlipBps \in Nat /\ MinProfit * Bps \in Nat
    BY <1>1, Products
  <1>5. /\ r.revenue = debt * o.bonus /\ r.debt = debt * Bps
        /\ r.gas \in Nat /\ r.slippage \in Nat /\ r.safety \in Nat
    BY <1>4 DEF LiquidationRequest
  <1>6. r.revenue \in Nat /\ r.debt \in Nat /\ r.revenue <= r.debt
    BY <1>2, <1>3, <1>5
  <1> HIDE DEF r
  <1>7. Costs(r, fee) \in Nat /\ Costs(r, fee) >= r.revenue
    BY <1>5, <1>6 DEF Costs
  <1>8. NetProfit(r, fee) = 0
    BY <1>6, <1>7 DEF NetProfit
  <1> QED
    BY <1>8 DEF r

(* Without a profit there is no margin: it is measured against a capital   *)
(* that is not zero, or refused (flashLoanProviderRouter.ts:76-106).       *)
LEMMA NoLenderApproves ==
    ASSUME NEW r, IsLiquidation(r), NEW fee \in Nat PROVE ~Approves(r, fee)
  <1>1. PICK o \in Liquidations, debt \in Nat, gas \in Nat : r = LiquidationRequest(o, debt, gas)
    BY DEF IsLiquidation
  <1>2. NetProfit(r, fee) = 0
    BY <1>1, NothingIsLeft
  <1>3. Bps \in Nat /\ MarginBps \in Nat /\ MarginBps # 0
    BY ProfitabilityAssumption
  <1>4. r.capital \in Nat
    BY <1>1, <1>3, Products DEF LiquidationRequest
  <1>5. r.capital # 0 => r.capital * MarginBps > 0
    BY <1>3, <1>4, Products
  <1>6. 0 * Bps = 0
    BY <1>3
  <1>7. r.capital * MarginBps \in Nat
    BY <1>3, <1>4, Products
  <1>8. ~MeetsMargin(0, r)
    BY <1>5, <1>6, <1>7 DEF MeetsMargin
  <1> QED
    BY <1>2, <1>8 DEF Approves

LEMMA BuiltInit == ProfitInit => BuiltInv
  BY UnstartedShape DEF ProfitInit, BuiltInv, BuiltFromOffer, AnsweredIfQuoted

LEMMA OneBuilds ==
    ASSUME GateInv, BuiltInv, NEW x \in Executions, NEW next, Continues(x, next), BuiltFromOffer(next),
           lenders' = lenders, next.at = "done" \/ routeCache' # routeCache => AllQuoted
    PROVE  BuiltInv'
  <1>1. exec' = [y \in Executions |-> IF y = x THEN next ELSE exec[y]]
    BY DEF GateInv, Continues
  <1>2. \A y \in Executions : BuiltFromOffer(exec'[y]) /\ AnsweredIfQuoted(exec'[y])
    BY <1>1 DEF BuiltInv, AnsweredIfQuoted
  <1>3. AllQuoted => AllQuoted'
    BY DEF AllQuoted, Quoted
  <1>4. routeCache' # {} => AllQuoted
    BY DEF BuiltInv
  <1> QED
    BY <1>2, <1>3, <1>4 DEF BuiltInv, BuiltFromOffer, AnsweredIfQuoted

(* The router changes neither offer nor request.                           *)
LEMMA RoutingKeeps ==
    ASSUME NEW e, ExecShape(e), BuiltFromOffer(e), e.at \in {"route", "lenders"},
           NEW at, NEW tried, NEW answer
    PROVE  /\ BuiltFromOffer([e EXCEPT !.at = at, !.answer = answer])
           /\ BuiltFromOffer([e EXCEPT !.at = at, !.tried = tried])
           /\ BuiltFromOffer([e EXCEPT !.tried = tried, !.answer = answer])
  BY DEF ExecShape, ExecFields, BuiltFromOffer

LEMMA BuiltStep == GateInv /\ RouteInv /\ BuiltInv /\ [ProfitNext]_profitVars => BuiltInv'
  <1> SUFFICES ASSUME GateInv, RouteInv, BuiltInv, [ProfitNext]_profitVars PROVE BuiltInv'
    OBVIOUS
  <1>1. CASE UNCHANGED <<lenders, routeCache, exec>>
    BY <1>1 DEF BuiltInv, BuiltFromOffer, AnsweredIfQuoted, AllQuoted, Quoted
  <1>2. BuiltFromOffer(Unstarted) /\ Unstarted.at # "done"
    BY UnstartedShape DEF BuiltFromOffer
  <1>3. \A x \in Executions : ExecShape(exec[x]) /\ BuiltFromOffer(exec[x])
    BY DEF GateInv, BuiltInv
  <1>4. ASSUME NEW x \in Executions, NEW o \in Liquidations, GateStarts(x, o) PROVE BuiltInv'
    <2>1. PICK native \in UsdPrices :
             Continues(x, [Unstarted EXCEPT !.at = "gate", !.offer = o, !.gas = GasCostUsd(native)])
      BY <1>4 DEF GateStarts
    <2> DEFINE next == [Unstarted EXCEPT !.at = "gate", !.offer = o, !.gas = GasCostUsd(native)]
    <2>2. next.at = "gate"
      BY DEF Unstarted
    <2>3. BuiltFromOffer(next)
      BY <2>2 DEF BuiltFromOffer
    <2> QED
      BY <1>4, <2>1, <2>2, <2>3, OneBuilds DEF GateStarts
  <1>5. ASSUME NEW x \in Executions, DebtPriced(x) PROVE BuiltInv'
    <2>1. PICK price \in UsdPrices :
             Continues(x, [exec[x] EXCEPT !.at = "sanity", !.price = price,
                               !.debt = FreshDebt(exec[x].offer, price)])
      BY <1>5 DEF DebtPriced
    <2> DEFINE next == [exec[x] EXCEPT !.at = "sanity", !.price = price,
                            !.debt = FreshDebt(exec[x].offer, price)]
    <2>2. next.at = "sanity"
      BY <1>3 DEF ExecShape, ExecFields
    <2>3. BuiltFromOffer(next)
      BY <2>2 DEF BuiltFromOffer
    <2> QED
      BY <1>5, <2>1, <2>2, <2>3, OneBuilds DEF DebtPriced
  <1>6. ASSUME NEW x \in Executions, GateEnds(x) PROVE BuiltInv'
    <2>1. Continues(x, [exec[x] EXCEPT !.at = "kept"]) \/ Continues(x, Unstarted)
      BY <1>6 DEF GateEnds
    <2>2. [exec[x] EXCEPT !.at = "kept"].at = "kept"
      BY <1>3 DEF ExecShape, ExecFields
    <2>3. BuiltFromOffer([exec[x] EXCEPT !.at = "kept"])
      BY <2>2 DEF BuiltFromOffer
    <2> QED
      BY <1>2, <1>6, <2>1, <2>2, <2>3, OneBuilds DEF GateEnds
  <1>7. ASSUME NEW x \in Executions, BuildRequest(x) PROVE BuiltInv'
    <2>1. PICK native \in UsdPrices :
             Continues(x, IF HasReceiver
                          THEN [Unstarted EXCEPT !.at = "route", !.offer = exec[x].offer,
                                   !.request = LiquidationRequest(exec[x].offer, exec[x].debt,
                                                                  GasCostUsd(native))]
                          ELSE Unstarted)
      BY <1>7 DEF BuildRequest
    <2>2. exec[x].offer \in Liquidations /\ exec[x].price \in Nat
          /\ exec[x].debt = exec[x].offer.units * exec[x].price
      BY <1>7 DEF BuildRequest, Reaches, GateInv, Priced
    <2>3. exec[x].offer.units \in Nat
      BY <2>2, ProfitabilityAssumption
    <2>4. exec[x].debt \in Nat
      BY <2>2, <2>3, Products
    <2> DEFINE r == LiquidationRequest(exec[x].offer, exec[x].debt, GasCostUsd(native))
    <2>5. IsLiquidation(r)
      BY <2>2, <2>4, GasIsNat DEF IsLiquidation
    <2>6. Continues(x, [Unstarted EXCEPT !.at = "route", !.offer = exec[x].offer, !.request = r])
          \/ Continues(x, Unstarted)
      BY <2>1
    <2> HIDE DEF r
    <2>7. /\ [Unstarted EXCEPT !.at = "route", !.offer = exec[x].offer, !.request = r].request = r
          /\ [Unstarted EXCEPT !.at = "route", !.offer = exec[x].offer, !.request = r].at = "route"
      BY DEF Unstarted
    <2>8. BuiltFromOffer([Unstarted EXCEPT !.at = "route", !.offer = exec[x].offer, !.request = r])
      BY <2>5, <2>7 DEF BuiltFromOffer
    <2> QED
      BY <1>2, <1>7, <2>6, <2>7, <2>8, OneBuilds DEF BuildRequest
  <1>8. ASSUME NEW x \in Executions, NEW o \in ArbOffers, ArbitrageDrained(x, o) PROVE BuiltInv'
    <2> DEFINE r == ArbRequest(o)
    <2>1. Continues(x, [Unstarted EXCEPT !.at = "route", !.request = r])
      BY <1>8 DEF ArbitrageDrained
    <2> HIDE DEF r
    <2>2. /\ [Unstarted EXCEPT !.at = "route", !.request = r].offer = NoOffer
          /\ [Unstarted EXCEPT !.at = "route", !.request = r].at = "route"
      BY DEF Unstarted
    <2>3. BuiltFromOffer([Unstarted EXCEPT !.at = "route", !.request = r])
      BY <2>2 DEF BuiltFromOffer
    <2> QED
      BY <1>8, <2>1, <2>2, <2>3, OneBuilds DEF ArbitrageDrained
  <1>9. ASSUME NEW x \in Executions, RouteCached(x) PROVE BuiltInv'
    <2>1. PICK answer : Continues(x, [exec[x] EXCEPT !.at = "done", !.answer = answer])
      BY <1>9 DEF RouteCached
    <2>2. exec[x].at = "route"
      BY <1>9 DEF RouteCached, Reaches
    <2>3. BuiltFromOffer([exec[x] EXCEPT !.at = "done", !.answer = answer])
      BY <1>3, <2>2, RoutingKeeps
    <2>4. AllQuoted
      BY <1>9 DEF RouteCached, CachedFor, BuiltInv
    <2> QED
      BY <1>9, <2>1, <2>3, <2>4, OneBuilds DEF RouteCached
  <1>10. ASSUME NEW x \in Executions, RouteStarts(x) PROVE BuiltInv'
    <2>1. Continues(x, [exec[x] EXCEPT !.at = "lenders", !.tried = 1]) /\ exec[x].at = "route"
      BY <1>10 DEF RouteStarts, Reaches
    <2>2. BuiltFromOffer([exec[x] EXCEPT !.at = "lenders", !.tried = 1])
      BY <1>3, <2>1, RoutingKeeps
    <2>3. [exec[x] EXCEPT !.at = "lenders", !.tried = 1].at = "lenders"
      BY <1>3 DEF ExecShape, ExecFields
    <2> QED
      BY <1>10, <2>1, <2>2, <2>3, OneBuilds DEF RouteStarts
  <1>11. ASSUME NEW x \in Executions, EvaluateLender(x) PROVE BuiltInv'
    <2>1. PICK tried, answer : Continues(x, [exec[x] EXCEPT !.tried = tried, !.answer = answer])
      BY <1>11 DEF EvaluateLender
    <2>2. exec[x].at = "lenders"
      BY <1>11 DEF EvaluateLender, Reaches
    <2>3. BuiltFromOffer([exec[x] EXCEPT !.tried = tried, !.answer = answer])
      BY <1>3, <2>2, RoutingKeeps
    <2>4. [exec[x] EXCEPT !.tried = tried, !.answer = answer].at = "lenders"
      BY <1>3, <2>2 DEF ExecShape, ExecFields
    <2> QED
      BY <1>11, <2>1, <2>3, <2>4, OneBuilds DEF EvaluateLender
  <1>12. ASSUME NEW x \in Executions, LenderUnquoted(x) \/ Settled(x) PROVE BuiltInv'
    BY <1>2, <1>12, OneBuilds DEF LenderUnquoted, Settled
  <1>13. ASSUME NEW x \in Executions, RouteEnds(x) PROVE BuiltInv'
    <2>1. PICK answer : Continues(x, [exec[x] EXCEPT !.at = "done", !.answer = answer])
      BY <1>13 DEF RouteEnds
    <2>2. exec[x].at = "lenders"
      BY <1>13 DEF RouteEnds, Reaches
    <2>3. BuiltFromOffer([exec[x] EXCEPT !.at = "done", !.answer = answer])
      BY <1>3, <2>2, RoutingKeeps
    <2>4. /\ exec[x].tried \in 1 .. Len(lenders) + 1 /\ exec[x].tried > Len(lenders)
          /\ \A i \in 1 .. exec[x].tried - 1 : Quoted(i)
      BY <1>13, <2>2 DEF RouteEnds, RouteInv, Routed
    <2>5. AllQuoted
      BY <2>4, LendersAreList DEF AllQuoted
    <2> QED
      BY <1>13, <2>1, <2>3, <2>5, OneBuilds DEF RouteEnds
  <1> QED
    BY <1>1, <1>4, <1>5, <1>6, <1>7, <1>8, <1>9, <1>10, <1>11, <1>12, <1>13
       DEF ProfitNext, profitVars, MinutePasses

(* A liquidation that came through the gate is answered with a rejection,  *)
(* whatever the prices, the bonus, the lenders and their fees, also from   *)
(* the cache: the request counts the loan as a cost and not what the       *)
(* seized collateral brings (liquidationExecutionAdapter.ts:60-61).        *)
THEOREM NoLiquidationSelected == ProfitSpec => []LiquidationsRejected
  <1>1. RouteInv /\ BuiltInv => LiquidationsRejected
    <2> SUFFICES ASSUME RouteInv, BuiltInv, NEW x \in Executions,
                        exec[x].at = "done", exec[x].offer # NoOffer
                 PROVE  exec[x].answer = Rejected
      BY DEF LiquidationsRejected
    <2>1. Best(exec[x].request, Len(lenders), exec[x].answer, Rejected)
      BY DEF RouteInv, Routed
    <2>2. IsLiquidation(exec[x].request)
      BY DEF BuiltInv, BuiltFromOffer
    <2>3. ApprovingUpTo(exec[x].request, Len(lenders)) = {}
      <3>1. \A i \in 1 .. Len(lenders) : FeeOf[lenders[i]] \in Nat
        BY ProfitabilityAssumption DEF BuiltInv, AnsweredIfQuoted, AllQuoted, Quoted
      <3> QED
        BY <2>2, <3>1, NoLenderApproves DEF ApprovingUpTo
    <2> QED
      BY <2>1, <2>3 DEF Best
  <1> QED
    BY <1>1, GateInit, GateStep, RouteInit, RouteStep, BuiltInit, BuiltStep, PTL DEF ProfitSpec
=============================================================================
