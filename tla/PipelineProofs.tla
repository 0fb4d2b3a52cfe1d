--------------------------- MODULE PipelineProofs ---------------------------
(* Proofs about Pipeline, for any number of cycles, borrowers, arbitrages  *)
(* and for any account wiring, and about its breaker, for every threshold  *)
(* and pause.                                                              *)
EXTENDS Pipeline, FiniteSetTheorems, TLAPS

-----------------------------------------------------------------------------
(* The breaker by itself *)

(* A pending timer and the quiet time add up to the pause, or the quiet    *)
(* time alone reaches it.                                                  *)
TimerCounts == timer # NoTimer => timer + quiet >= OpenTicks

BreakerInv == BreakerTypeOK /\ OpenIsTimed /\ TimerCounts

LEMMA BreakerInitInv == BreakerInit => BreakerInv
BY ExecutionBreakerAssumption
   DEF BreakerInit, BreakerInv, BreakerTypeOK, OpenIsTimed, TimerCounts, BreakerOpen, NoTimer

LEMMA RecordSimFailureInv == BreakerInv /\ RecordSimFailure => BreakerInv'
<1> SUFFICES ASSUME BreakerInv, RecordSimFailure PROVE BreakerInv'
  OBVIOUS
<1> USE ExecutionBreakerAssumption
    DEF BreakerInv, BreakerTypeOK, OpenIsTimed, TimerCounts, BreakerOpen, NoTimer, SmallerOf
<1>1. CASE consecutive + 1 < Threshold /\ UNCHANGED <<breaker, timer, quiet>>
  BY <1>1 DEF RecordSimFailure
<1>2. CASE consecutive + 1 >= Threshold /\ OpenCircuit
  BY <1>2 DEF RecordSimFailure, OpenCircuit
<1> QED BY <1>1, <1>2 DEF RecordSimFailure

LEMMA BreakerStepInv == BreakerInv /\ [BreakerNext]_breakerVars => BreakerInv'
<1> SUFFICES ASSUME BreakerInv, [BreakerNext]_breakerVars PROVE BreakerInv'
  OBVIOUS
<1>1. CASE RecordSimFailure
  BY <1>1, RecordSimFailureInv
<1> USE ExecutionBreakerAssumption
    DEF BreakerInv, BreakerTypeOK, OpenIsTimed, TimerCounts, BreakerOpen, NoTimer, SmallerOf
<1>2. CASE RecordSuccess
  BY <1>2 DEF RecordSuccess
<1>3. CASE TimerFires
  BY <1>3 DEF TimerFires
<1>4. CASE BreakerTick
  BY <1>4 DEF BreakerTick
<1>5. CASE UNCHANGED breakerVars
  BY <1>5 DEF breakerVars
<1> QED BY <1>1, <1>2, <1>3, <1>4, <1>5 DEF BreakerNext

(* The inductive invariant of the breaker. *)
THEOREM BreakerInvariant == BreakerSpec => []BreakerInv
<1>1. BreakerInit => BreakerInv
  BY BreakerInitInv
<1>2. BreakerInv /\ [BreakerNext]_breakerVars => BreakerInv'
  BY BreakerStepInv
<1> QED BY <1>1, <1>2, PTL DEF BreakerSpec

(* The breaker is open exactly while a timer will close it, and is never   *)
(* closed with a full count (simFailureCircuitBreaker.ts:27-63).           *)
THEOREM BreakerOpenIsTimed == BreakerSpec => []OpenIsTimed
<1>1. BreakerInv => OpenIsTimed
  BY DEF BreakerInv
<1> QED BY <1>1, BreakerInvariant, PTL

(* The breaker closes only OpenTicks after the last failure that opened or *)
(* extended it (simFailureCircuitBreaker.ts:52-63).                        *)
THEOREM BreakerOpenLongEnough == BreakerSpec => OpenLongEnough
<1>1. BreakerInv /\ [BreakerNext]_breakerVars
      => [BreakerOpen /\ breaker' = "closed" => quiet >= OpenTicks]_breakerVars
  <2> SUFFICES ASSUME BreakerInv, BreakerNext, BreakerOpen, breaker' = "closed"
               PROVE  quiet >= OpenTicks
    OBVIOUS
  <2>1. CASE RecordSimFailure
    BY <2>1 DEF RecordSimFailure, OpenCircuit, BreakerOpen
  <2>2. CASE RecordSuccess \/ BreakerTick
    BY <2>2 DEF RecordSuccess, BreakerTick, BreakerOpen
  <2>3. CASE TimerFires
    BY <2>3, ExecutionBreakerAssumption
       DEF TimerFires, BreakerInv, BreakerTypeOK, TimerCounts, NoTimer
  <2> QED BY <2>1, <2>2, <2>3 DEF BreakerNext
<1> QED BY <1>1, BreakerInvariant, PTL DEF BreakerSpec, OpenLongEnough

-----------------------------------------------------------------------------
(* The pipeline uses the breaker as its specification allows *)

LEMMA SimCircuitRefines == \A r : SimCircuit(r) => [BreakerNext]_breakerVars
BY DEF SimCircuit, BreakerNext

LEMMA FinishRefines == \A c \in Cycles : \A r : Finish(c, r) => [BreakerNext]_breakerVars
BY SimCircuitRefines DEF Finish

LEMMA StepRefines == [Next]_pipelineVars => [BreakerNext]_breakerVars
<1> SUFFICES ASSUME [Next]_pipelineVars PROVE [BreakerNext]_breakerVars
  OBVIOUS
<1>1. ASSUME NEW c \in Cycles, StartCycle(c) \/ Advance(c)
      PROVE  [BreakerNext]_breakerVars
  <2>1. CASE StartCycle(c) \/ PassGuards(c) \/ PollFallback(c) \/ AbandonCycle(c)
             \/ DrainArbitrages(c) \/ PlansBuilt(c) \/ EndCycle(c) \/ CheckCooldown(c) \/ PassPreview(c)
    BY <2>1 DEF StartCycle, PassGuards, PollFallback, AbandonCycle, DrainArbitrages, PlansBuilt,
                EndCycle, CheckCooldown, PassPreview
  <2>2. CASE FailPreflight(c) \/ RejectBlocked(c) \/ FailGasCost(c) \/ RejectDust(c) \/ Settle(c)
    BY <2>2, FinishRefines DEF FailPreflight, RejectBlocked, FailGasCost, RejectDust, Settle
  <2>3. CASE \E b \in Borrowers : FilterCandidate(c, b)
    BY <2>3 DEF FilterCandidate
  <2>4. CASE \E o \in Opportunities :
                BuildPlan(c, o) \/ SkipBlocked(c, o) \/ RejectOpenCircuit(c, o) \/ EnterExecute(c, o)
    BY <2>4 DEF BuildPlan, SkipBlocked, RejectOpenCircuit, EnterExecute
  <2> QED BY <1>1, <2>1, <2>2, <2>3, <2>4 DEF Advance
<1>2. CASE \E a \in Arbitrages : Enqueue(a)
  BY <1>2 DEF Enqueue
<1>3. CASE CloseBreaker
  BY <1>3 DEF CloseBreaker, BreakerNext
<1>4. CASE Tick
  BY <1>4 DEF Tick, BreakerNext
<1>5. CASE UNCHANGED pipelineVars
  BY <1>5 DEF pipelineVars
<1> QED BY <1>1, <1>2, <1>3, <1>4, <1>5 DEF Next

(* What the cycles do to the breaker is what ExecutionBreaker allows       *)
(* (pipelineOrchestrator.ts:389-416).                                      *)
THEOREM PipelineRefinesBreaker == Spec => BreakerSpec
<1>1. Init => BreakerInit
  BY DEF Init
<1> QED BY <1>1, StepRefines, PTL DEF Spec, BreakerSpec

(* The breaker's invariants hold of the pipeline: it is open exactly while *)
(* a timer will close it (simFailureCircuitBreaker.ts:27-63).              *)
THEOREM PipelineOpenIsTimed == Spec => []OpenIsTimed
BY PipelineRefinesBreaker, BreakerOpenIsTimed, PTL

(* The breaker closes only OpenTicks after the last failure that opened or *)
(* extended it, whichever cycle it came from.                              *)
THEOREM PipelineOpenLongEnough == Spec => OpenLongEnough
BY PipelineRefinesBreaker, BreakerOpenLongEnough, PTL

-----------------------------------------------------------------------------
(* Types *)

LEMMA CyclesCounted == Cardinality(Cycles) \in Nat /\ Cardinality(Cycles) > 0
<1>1. Cardinality(Cycles) \in Nat /\ Cardinality(Cycles) # 0
  BY PipelineAssumption, FS_CardinalityType, FS_EmptySet
<1> QED BY <1>1

LEMMA FinishTyped ==
    ASSUME PipelineTypeOK, BreakerTypeOK', NEW c \in Cycles, NEW r, Finish(c, r)
    PROVE  PipelineTypeOK'
<1> USE DEF PipelineTypeOK
<1>2. cooldown' \in [Accounts -> 0 .. CooldownTicks] /\ penance' \in [Borrowers -> 0 .. CooldownTicks]
  <2>1. CASE UNCHANGED <<cooldown, penance>>
    BY <2>1
  <2>2. CASE cooldown' = [cooldown EXCEPT ![RequestAccount[running[c]]] = CooldownTicks]
             /\ penance' = [b \in Borrowers |-> IF b = running[c] THEN CooldownTicks ELSE penance[b]]
    <3>1. CooldownTicks \in 0 .. CooldownTicks
      BY PipelineAssumption
    <3> QED BY <2>2, <3>1
  <2> QED BY <2>1, <2>2 DEF Finish, DeadLetter
<1>3. running' \in [Cycles -> Opportunities \cup {NoOpportunity}] /\ stage' \in [Cycles -> Stages]
  BY DEF Finish, Goto, Stages
<1> QED BY <1>2, <1>3 DEF Finish

LEMMA StepTyped == PipelineTypeOK /\ BreakerTypeOK' /\ [Next]_pipelineVars => PipelineTypeOK'
<1> SUFFICES ASSUME PipelineTypeOK, BreakerTypeOK', [Next]_pipelineVars PROVE PipelineTypeOK'
  OBVIOUS
<1> USE DEF PipelineTypeOK, Goto, Opportunities
<1>1. ASSUME NEW c \in Cycles, StartCycle(c) \/ Advance(c)
      PROVE  PipelineTypeOK'
  <2>1. CASE StartCycle(c) \/ EndCycle(c) \/ CheckCooldown(c)
    BY <2>1 DEF StartCycle, EndCycle, CheckCooldown, Stages, historyVars
  <2>2. CASE PassGuards(c) \/ PollFallback(c)
    BY <2>2 DEF PassGuards, PollFallback, Stages, historyVars
  <2>3. CASE AbandonCycle(c) \/ DrainArbitrages(c) \/ PlansBuilt(c)
    BY <2>3 DEF AbandonCycle, DrainArbitrages, PlansBuilt, Stages, historyVars
  <2>4. CASE FailPreflight(c) \/ RejectBlocked(c) \/ FailGasCost(c) \/ RejectDust(c) \/ Settle(c)
    BY <2>4, FinishTyped DEF FailPreflight, RejectBlocked, FailGasCost, RejectDust, Settle
  <2>5. CASE \E b \in Borrowers : FilterCandidate(c, b)
    BY <2>5 DEF FilterCandidate, historyVars
  <2>6. CASE \E o \in Opportunities : BuildPlan(c, o) \/ SkipBlocked(c, o) \/ RejectOpenCircuit(c, o)
    BY <2>6 DEF BuildPlan, SkipBlocked, RejectOpenCircuit, historyVars
  <2>7. CASE \E o \in Opportunities : EnterExecute(c, o)
    BY <2>7 DEF EnterExecute, Stages, historyVars
  <2>8. CASE PassPreview(c)
    <3>1. \A b \in Borrowers : retries'[b] \in 0 .. Cardinality(Cycles)
      BY <2>8, CyclesCounted DEF PassPreview
    <3> QED BY <2>8, <3>1 DEF PassPreview, Stages
  <2> QED BY <1>1, <2>1, <2>2, <2>3, <2>4, <2>5, <2>6, <2>7, <2>8 DEF Advance
<1>2. CASE \E a \in Arbitrages : Enqueue(a)
  BY <1>2 DEF Enqueue, cycleVars, historyVars
<1>3. CASE CloseBreaker
  BY <1>3 DEF CloseBreaker, cycleVars, historyVars
<1>4. CASE Tick
  <2>1. \A n \in 0 .. CooldownTicks : (IF n > 0 THEN n - 1 ELSE 0) \in 0 .. CooldownTicks
    BY PipelineAssumption
  <2>2. cooldown' \in [Accounts -> 0 .. CooldownTicks]
    BY <1>4, <2>1 DEF Tick
  <2>3. penance' \in [Borrowers -> 0 .. CooldownTicks]
    BY <1>4, <2>1 DEF Tick
  <2>4. retries' \in [Borrowers -> 0 .. Cardinality(Cycles)]
    BY <1>4, CyclesCounted DEF Tick
  <2> QED BY <1>4, <2>2, <2>3, <2>4 DEF Tick, cycleVars
<1>5. CASE UNCHANGED pipelineVars
  BY <1>5 DEF pipelineVars, cycleVars, historyVars
<1> QED BY <1>1, <1>2, <1>3, <1>4, <1>5 DEF Next

LEMMA InitTyped == Init /\ BreakerTypeOK => PipelineTypeOK
BY PipelineAssumption, ExecutionBreakerAssumption, CyclesCounted DEF Init, PipelineTypeOK, Stages

LEMMA BreakerInvOfPipeline == Spec => []BreakerInv
BY PipelineRefinesBreaker, BreakerInvariant, PTL

(* Every value stays in its type; in particular a cooldown is restarted    *)
(* and never accumulates (borrowerCooldown.ts:24-28).                      *)
THEOREM PipelineTypeCorrect == Spec => []PipelineTypeOK
<1>1. BreakerInv => BreakerTypeOK
  BY DEF BreakerInv
<1> QED BY <1>1, InitTyped, StepTyped, BreakerInvOfPipeline, PTL DEF Spec

-----------------------------------------------------------------------------
(* The overshoot *)

InFlight == {c \in Cycles : stage[c] \in {"preflight", "preview", "simulate"}}

(* A failure takes its execution out of flight, and nothing gets into      *)
(* flight while the count is full: the two together stay below what they   *)
(* can be when the breaker is closed.                                      *)
FlightBound == consecutive + Cardinality(InFlight) < Threshold + Cardinality(Cycles)

LEMMA InFlightFinite ==
    /\ IsFiniteSet(InFlight) /\ Cardinality(InFlight) \in Nat
    /\ Cardinality(InFlight) <= Cardinality(Cycles) /\ Cardinality(Cycles) \in Nat
<1>1. InFlight \subseteq Cycles /\ IsFiniteSet(Cycles)
  BY PipelineAssumption DEF InFlight
<1> QED BY <1>1, FS_Subset, FS_CardinalityType

LEMMA FinishInFlight ==
    ASSUME PipelineTypeOK, NEW c \in InFlight, NEW r, Finish(c, r)
    PROVE  Cardinality(InFlight)' = Cardinality(InFlight) - 1
<1>1. InFlight' = InFlight \ {c}
  BY DEF InFlight, Finish, Goto, PipelineTypeOK
<1> QED BY <1>1, InFlightFinite, FS_RemoveElement

LEMMA StepFlight ==
    PipelineTypeOK /\ OpenIsTimed /\ FlightBound /\ [Next]_pipelineVars => FlightBound'
<1> SUFFICES ASSUME PipelineTypeOK, OpenIsTimed, FlightBound, [Next]_pipelineVars PROVE FlightBound'
  OBVIOUS
<1>1. /\ consecutive \in Nat /\ Threshold \in Nat \ {0} /\ StreakCap \in Nat
      /\ Cardinality(InFlight) \in Nat /\ Cardinality(Cycles) \in Nat
      /\ Cardinality(InFlight) <= Cardinality(Cycles)
  BY ExecutionBreakerAssumption, InFlightFinite DEF PipelineTypeOK, BreakerTypeOK
<1>2. CASE InFlight' = InFlight /\ consecutive' = consecutive
  BY <1>2 DEF FlightBound
<1>3. ASSUME NEW c \in Cycles, StartCycle(c) \/ Advance(c)
      PROVE  FlightBound'
  <2>1. CASE StartCycle(c) \/ PassGuards(c) \/ PollFallback(c) \/ AbandonCycle(c)
             \/ DrainArbitrages(c) \/ PlansBuilt(c) \/ EndCycle(c) \/ CheckCooldown(c) \/ PassPreview(c)
    <3>1. consecutive' = consecutive
      BY <2>1 DEF StartCycle, PassGuards, PollFallback, AbandonCycle, DrainArbitrages, PlansBuilt,
                  EndCycle, CheckCooldown, PassPreview, breakerVars
    <3>2. InFlight' = InFlight
      BY <2>1 DEF StartCycle, PassGuards, PollFallback, AbandonCycle, DrainArbitrages, PlansBuilt,
                  EndCycle, CheckCooldown, PassPreview, At, Goto, InFlight, PipelineTypeOK
    <3> QED BY <1>2, <3>1, <3>2
  <2>2. CASE FailPreflight(c) \/ RejectBlocked(c) \/ FailGasCost(c) \/ RejectDust(c) \/ Settle(c)
    <3>1. PICK r : c \in InFlight /\ Finish(c, r)
      BY <2>2 DEF FailPreflight, RejectBlocked, FailGasCost, RejectDust, Settle, At, InFlight
    <3>2. Cardinality(InFlight)' = Cardinality(InFlight) - 1
      BY <3>1, FinishInFlight
    <3>3. consecutive' \in Nat /\ consecutive' <= consecutive + 1
      BY <1>1, <3>1
         DEF Finish, SimCircuit, RecordSimFailure, RecordSuccess, SmallerOf, breakerVars
    <3> QED BY <1>1, <3>2, <3>3 DEF FlightBound
  <2>3. CASE (\E b \in Borrowers : FilterCandidate(c, b))
             \/ \E o \in Opportunities :
                   BuildPlan(c, o) \/ SkipBlocked(c, o) \/ RejectOpenCircuit(c, o)
    BY <1>2, <2>3
       DEF FilterCandidate, BuildPlan, SkipBlocked, RejectOpenCircuit, breakerVars, InFlight
  <2>4. ASSUME NEW o \in Opportunities, EnterExecute(c, o) PROVE FlightBound'
    <3>1. consecutive' = consecutive /\ consecutive < Threshold
      BY <1>1, <2>4 DEF EnterExecute, breakerVars, OpenIsTimed
    <3>2. Cardinality(InFlight)' <= Cardinality(Cycles) /\ Cardinality(InFlight)' \in Nat
      <4>1. InFlight' \subseteq Cycles /\ IsFiniteSet(Cycles)
        BY PipelineAssumption DEF InFlight
      <4> QED BY <4>1, FS_Subset, FS_CardinalityType
    <3> QED BY <1>1, <3>1, <3>2 DEF FlightBound
  <2> QED BY <1>3, <2>1, <2>2, <2>3, <2>4 DEF Advance
<1>4. CASE (\E a \in Arbitrages : Enqueue(a)) \/ Tick \/ UNCHANGED pipelineVars
  BY <1>2, <1>4 DEF Enqueue, Tick, BreakerTick, pipelineVars, cycleVars, breakerVars, InFlight
<1>5. CASE CloseBreaker
  <2>1. consecutive' = 0 /\ InFlight' = InFlight
    BY <1>5 DEF CloseBreaker, TimerFires, cycleVars, InFlight
  <2> QED BY <1>1, <2>1 DEF FlightBound
<1> QED BY <1>3, <1>4, <1>5 DEF Next

LEMMA InitFlight == Init => FlightBound
<1> SUFFICES ASSUME Init PROVE FlightBound
  OBVIOUS
<1>1. InFlight = {}
  BY DEF Init, InFlight
<1>2. Cardinality(InFlight) = 0
  BY <1>1, FS_EmptySet
<1>3. consecutive = 0 /\ Threshold \in Nat \ {0} /\ Cardinality(Cycles) \in Nat
  BY ExecutionBreakerAssumption, InFlightFinite DEF Init, BreakerInit
<1> QED BY <1>2, <1>3 DEF FlightBound

(* The count of failures exceeds the threshold by less than the number of  *)
(* concurrent cycles, for any number of them: only what was in flight when *)
(* the breaker opened still fails (safeTransactionExecutor.ts:144,         *)
(* simFailureCircuitBreaker.ts:27).                                        *)
THEOREM OvershootIsBounded == Spec => []OvershootBounded
<1>1. PipelineTypeOK /\ FlightBound => OvershootBounded
  <2> SUFFICES ASSUME PipelineTypeOK, FlightBound PROVE OvershootBounded
    OBVIOUS
  <2>1. consecutive \in Nat /\ Threshold \in Nat
    BY ExecutionBreakerAssumption DEF PipelineTypeOK, BreakerTypeOK
  <2> QED BY <2>1, InFlightFinite DEF FlightBound, OvershootBounded
<1> QED BY <1>1, InitFlight, StepFlight, PipelineTypeCorrect, PipelineOpenIsTimed, PTL DEF Spec

-----------------------------------------------------------------------------
(* Arbitrages *)

(* A step after which every caller has at most the arbitrages it had, and  *)
(* the queue too, keeps them exclusive.                                    *)
LEMMA FewerStayExclusive ==
    ASSUME ArbitragesExclusive, arbQueue' \subseteq arbQueue,
           \A c \in Cycles : (todo[c] \cup kept[c] \cup {running[c]})' \cap Arbitrages
                             \subseteq todo[c] \cup kept[c] \cup {running[c]}
    PROVE  ArbitragesExclusive'
BY DEF ArbitragesExclusive

LEMMA StepExclusive ==
    PipelineTypeOK /\ ArbitragesExclusive /\ [Next]_pipelineVars => ArbitragesExclusive'
<1> SUFFICES ASSUME PipelineTypeOK, ArbitragesExclusive, [Next]_pipelineVars
             PROVE  ArbitragesExclusive'
  OBVIOUS
<1> USE PipelineAssumption DEF PipelineTypeOK, Opportunities
<1>1. CASE UNCHANGED <<arbQueue, todo, kept, running>>
  BY <1>1 DEF ArbitragesExclusive
<1>2. ASSUME NEW c \in Cycles, StartCycle(c) \/ Advance(c)
      PROVE  ArbitragesExclusive'
  <2>1. CASE StartCycle(c) \/ CheckCooldown(c) \/ PassPreview(c) \/ EndCycle(c)
    BY <1>1, <2>1 DEF StartCycle, CheckCooldown, PassPreview, EndCycle
  <2>2. CASE PassGuards(c) \/ PollFallback(c)
    BY <2>2, FewerStayExclusive DEF PassGuards, PollFallback
  <2>3. CASE AbandonCycle(c) \/ PlansBuilt(c)
    BY <2>3, FewerStayExclusive DEF AbandonCycle, PlansBuilt
  <2>4. CASE FailPreflight(c) \/ RejectBlocked(c) \/ FailGasCost(c) \/ RejectDust(c) \/ Settle(c)
    <3>1. /\ UNCHANGED <<arbQueue, todo, kept>>
          /\ running' = [running EXCEPT ![c] = NoOpportunity]
      BY <2>4 DEF FailPreflight, RejectBlocked, FailGasCost, RejectDust, Settle, Finish
    <3> QED BY <3>1, FewerStayExclusive
  <2>5. CASE \E b \in Borrowers : FilterCandidate(c, b)
    BY <2>5, FewerStayExclusive DEF FilterCandidate
  <2>6. CASE DrainArbitrages(c)
    BY <2>6 DEF DrainArbitrages, ArbitragesExclusive
  <2>7. ASSUME NEW o \in Opportunities,
               BuildPlan(c, o) \/ SkipBlocked(c, o) \/ RejectOpenCircuit(c, o)
        PROVE  ArbitragesExclusive'
    BY <2>7, FewerStayExclusive DEF BuildPlan, SkipBlocked, RejectOpenCircuit
  <2>8. ASSUME NEW o \in Opportunities, EnterExecute(c, o) PROVE ArbitragesExclusive'
    BY <2>8, FewerStayExclusive DEF EnterExecute
  <2> QED BY <1>2, <2>1, <2>2, <2>3, <2>4, <2>5, <2>6, <2>7, <2>8 DEF Advance
<1>3. CASE \E a \in Arbitrages : Enqueue(a)
  BY <1>3 DEF Enqueue, ArbitragesExclusive, cycleVars
<1>4. CASE CloseBreaker \/ Tick \/ UNCHANGED pipelineVars
  BY <1>1, <1>4 DEF CloseBreaker, Tick, pipelineVars, cycleVars
<1> QED BY <1>2, <1>3, <1>4 DEF Next

(* However many cycles drain the queue, an arbitrage is worked on by one   *)
(* of them (pipelineDetectionAdapter.ts:64).                               *)
THEOREM ArbitragesStayExclusive == Spec => []ArbitragesExclusive
<1>1. Init => ArbitragesExclusive
  BY PipelineAssumption DEF Init, ArbitragesExclusive, Opportunities
<1> QED BY <1>1, StepExclusive, PipelineTypeCorrect, PTL DEF Spec

-----------------------------------------------------------------------------
(* Cooldowns *)

(* The cycles that found no cooldown for a borrower and still await the    *)
(* gas cost.                                                               *)
Checked(b) == {c \in Cycles : stage[c] = "preview" /\ running[c] = b}

(* While a failure of a borrower counts, the account of its requests is    *)
(* cooling down; so nobody joins Checked(b), and whoever leaves it leaves  *)
(* for good: with the simulations already begun, they stay fewer than the  *)
(* cycles, since the one that failed is not among them.                    *)
RetryInv ==
    \A b \in Borrowers :
        /\ penance[b] <= cooldown[RequestAccount[b]]
        /\ penance[b] = 0 => retries[b] = 0
        /\ penance[b] > 0 => retries[b] + Cardinality(Checked(b)) < Cardinality(Cycles)

LEMMA CheckedFinite ==
    ASSUME NEW b
    PROVE  /\ IsFiniteSet(Checked(b)) /\ Cardinality(Checked(b)) \in Nat
           /\ IsFiniteSet(Checked(b)') /\ Cardinality(Checked(b)') \in Nat
<1>1. Checked(b) \subseteq Cycles /\ Checked(b)' \subseteq Cycles /\ IsFiniteSet(Cycles)
  BY PipelineAssumption DEF Checked
<1> QED BY <1>1, FS_Subset, FS_CardinalityType

LEMMA TicksOf ==
    ASSUME PipelineTypeOK, NEW b \in Borrowers
    PROVE  /\ b \in Opportunities /\ RequestAccount[b] \in Accounts
           /\ penance[b] \in 0 .. CooldownTicks /\ retries[b] \in 0 .. Cardinality(Cycles)
           /\ cooldown[RequestAccount[b]] \in 0 .. CooldownTicks
           /\ CooldownTicks \in Nat \ {0}
BY PipelineAssumption DEF PipelineTypeOK, Opportunities

(* A step that no failure and no simulation is part of, and after which no *)
(* more cycles have looked.                                                *)
LEMMA QuietStepKeeps ==
    ASSUME PipelineTypeOK, RetryInv, UNCHANGED <<cooldown, penance, retries>>,
           \A b \in Borrowers : penance[b] > 0 => Checked(b)' \subseteq Checked(b)
    PROVE  RetryInv'
<1> SUFFICES ASSUME NEW b \in Borrowers, penance[b] > 0
             PROVE  retries[b] + Cardinality(Checked(b)') < Cardinality(Cycles)
  BY DEF RetryInv
<1>1. Cardinality(Checked(b)') <= Cardinality(Checked(b))
  BY CheckedFinite, FS_Subset
<1>2. retries[b] + Cardinality(Checked(b)) < Cardinality(Cycles)
  BY DEF RetryInv
<1> QED BY <1>1, <1>2, CheckedFinite, CyclesCounted, TicksOf

LEMMA FinishKeeps ==
    ASSUME PipelineTypeOK, RetryInv, NEW c \in Cycles, NEW r, Finish(c, r)
    PROVE  RetryInv'
<1>1. UNCHANGED retries /\ \A b \in Borrowers : Checked(b)' \subseteq Checked(b) \ {c}
  BY DEF Finish, Goto, Checked, PipelineTypeOK
<1>2. CASE UNCHANGED <<cooldown, penance>>
  BY <1>1, <1>2, QuietStepKeeps
<1>3. CASE /\ cooldown' = [cooldown EXCEPT ![RequestAccount[running[c]]] = CooldownTicks]
           /\ penance' = [b \in Borrowers |-> IF b = running[c] THEN CooldownTicks ELSE penance[b]]
  <2> SUFFICES ASSUME NEW b \in Borrowers
               PROVE  /\ penance'[b] <= cooldown'[RequestAccount[b]]
                      /\ penance'[b] = 0 => retries'[b] = 0
                      /\ penance'[b] > 0
                         => retries'[b] + Cardinality(Checked(b)') < Cardinality(Cycles)
    BY DEF RetryInv
  <2> DEFINE account == RequestAccount[b]
  <2>1. /\ penance[b] <= cooldown[account]
        /\ penance[b] = 0 => retries[b] = 0
        /\ penance[b] > 0 => retries[b] + Cardinality(Checked(b)) < Cardinality(Cycles)
    BY DEF RetryInv
  <2>2. Cardinality(Checked(b)') <= Cardinality(Checked(b))
    BY <1>1, CheckedFinite, FS_Subset
  <2>3. cooldown'[account] = cooldown[account] \/ cooldown'[account] = CooldownTicks
    BY <1>3, TicksOf DEF PipelineTypeOK
  <2>4. CASE b = running[c]
    <3>1. penance'[b] = CooldownTicks /\ cooldown'[account] = CooldownTicks
      BY <1>3, <2>4, TicksOf DEF PipelineTypeOK
    <3>2. Cardinality(Checked(b)') < Cardinality(Cycles)
      <4>1. Checked(b)' \subseteq Cycles \ {c} /\ Cycles \ {c} \subseteq Cycles
        BY <1>1 DEF Checked
      <4>2. /\ IsFiniteSet(Cycles \ {c})
            /\ Cardinality(Cycles \ {c}) = Cardinality(Cycles) - 1
            /\ Cardinality(Checked(b)') <= Cardinality(Cycles \ {c})
        BY <4>1, PipelineAssumption, FS_RemoveElement, FS_Subset
      <4> QED BY <4>2, CheckedFinite, CyclesCounted
    <3>3. retries[b] + Cardinality(Checked(b)') < Cardinality(Cycles)
      BY <2>1, <2>2, <3>2, CheckedFinite, CyclesCounted, TicksOf
    <3> QED BY <1>1, <3>1, <3>3, TicksOf
  <2>5. CASE b # running[c]
    <3>1. penance'[b] = penance[b]
      BY <1>3, <2>5
    <3> QED BY <1>1, <2>1, <2>2, <2>3, <3>1, CheckedFinite, CyclesCounted, TicksOf
  <2> QED BY <2>4, <2>5
<1> QED BY <1>2, <1>3 DEF Finish, DeadLetter

LEMMA CheckCooldownKeeps ==
    ASSUME PipelineTypeOK, RetryInv, NEW c \in Cycles, CheckCooldown(c)
    PROVE  RetryInv'
<1>1. UNCHANGED <<cooldown, penance, retries>>
  BY DEF CheckCooldown, historyVars
<1>2. ASSUME NEW b \in Borrowers, penance[b] > 0 PROVE Checked(b)' \subseteq Checked(b)
  <2>1. running[c] # b
    BY <1>2, TicksOf DEF CheckCooldown, IsBorrowerBlocked, RetryInv
  <2> QED BY <2>1 DEF CheckCooldown, Goto, Checked, PipelineTypeOK
<1> QED BY <1>1, <1>2, QuietStepKeeps

LEMMA PassPreviewKeeps ==
    ASSUME PipelineTypeOK, RetryInv, NEW c \in Cycles, PassPreview(c)
    PROVE  RetryInv'
<1>1. UNCHANGED <<cooldown, penance>>
  BY DEF PassPreview
<1> SUFFICES ASSUME NEW b \in Borrowers
             PROVE  /\ penance[b] = 0 => retries'[b] = 0
                    /\ penance[b] > 0
                       => retries'[b] + Cardinality(Checked(b)') < Cardinality(Cycles)
  BY <1>1 DEF RetryInv
<1>2. /\ penance[b] = 0 => retries[b] = 0
      /\ penance[b] > 0 => retries[b] + Cardinality(Checked(b)) < Cardinality(Cycles)
  BY DEF RetryInv
<1>3. CASE b = running[c] /\ penance[b] > 0
  <2>1. c \in Checked(b) /\ Checked(b)' = Checked(b) \ {c}
    BY <1>3 DEF PassPreview, At, Goto, Checked, PipelineTypeOK
  <2>2. Cardinality(Checked(b)') = Cardinality(Checked(b)) - 1
    BY <2>1, CheckedFinite, FS_RemoveElement
  <2>3. retries'[b] <= retries[b] + 1 /\ retries'[b] \in Nat
    BY TicksOf, CyclesCounted DEF PassPreview
  <2> QED BY <1>2, <1>3, <2>2, <2>3, CheckedFinite, CyclesCounted, TicksOf
<1>4. CASE ~(b = running[c] /\ penance[b] > 0)
  <2>1. retries'[b] = retries[b]
    BY <1>4 DEF PassPreview
  <2>2. Checked(b)' \subseteq Checked(b)
    BY DEF PassPreview, Goto, Checked, PipelineTypeOK
  <2>3. Cardinality(Checked(b)') <= Cardinality(Checked(b))
    BY <2>2, CheckedFinite, FS_Subset
  <2> QED BY <1>2, <2>1, <2>3, CheckedFinite, CyclesCounted, TicksOf
<1> QED BY <1>3, <1>4

LEMMA TickKeeps ==
    ASSUME PipelineTypeOK, RetryInv, Tick
    PROVE  RetryInv'
<1> SUFFICES ASSUME NEW b \in Borrowers
             PROVE  /\ penance'[b] <= cooldown'[RequestAccount[b]]
                    /\ penance'[b] = 0 => retries'[b] = 0
                    /\ penance'[b] > 0
                       => retries'[b] + Cardinality(Checked(b)') < Cardinality(Cycles)
  BY DEF RetryInv
<1>1. /\ penance[b] <= cooldown[RequestAccount[b]]
      /\ penance[b] > 0 => retries[b] + Cardinality(Checked(b)) < Cardinality(Cycles)
  BY DEF RetryInv
<1>2. /\ penance'[b] = IF penance[b] > 0 THEN penance[b] - 1 ELSE 0
      /\ retries'[b] = IF penance[b] > 1 THEN retries[b] ELSE 0
      /\ cooldown'[RequestAccount[b]]
         = IF cooldown[RequestAccount[b]] > 0 THEN cooldown[RequestAccount[b]] - 1 ELSE 0
  BY TicksOf DEF Tick
<1>3. Checked(b)' = Checked(b)
  BY DEF Tick, cycleVars, Checked
<1> QED BY <1>1, <1>2, <1>3, TicksOf

LEMMA StepRetries == PipelineTypeOK /\ RetryInv /\ [Next]_pipelineVars => RetryInv'
<1> SUFFICES ASSUME PipelineTypeOK, RetryInv, [Next]_pipelineVars PROVE RetryInv'
  OBVIOUS
<1>1. ASSUME NEW c \in Cycles, StartCycle(c) \/ Advance(c)
      PROVE  RetryInv'
  <2>1. CASE FailPreflight(c) \/ RejectBlocked(c) \/ FailGasCost(c) \/ RejectDust(c) \/ Settle(c)
    BY <2>1, FinishKeeps DEF FailPreflight, RejectBlocked, FailGasCost, RejectDust, Settle
  <2>2. CASE CheckCooldown(c) \/ PassPreview(c)
    BY <2>2, CheckCooldownKeeps, PassPreviewKeeps
  <2>3. CASE StartCycle(c) \/ PassGuards(c) \/ PollFallback(c) \/ AbandonCycle(c)
             \/ DrainArbitrages(c) \/ PlansBuilt(c) \/ EndCycle(c)
    <3>1. UNCHANGED <<cooldown, penance, retries>>
      BY <2>3 DEF StartCycle, PassGuards, PollFallback, AbandonCycle, DrainArbitrages,
                  PlansBuilt, EndCycle, historyVars
    <3>2. \A b \in Borrowers : Checked(b)' \subseteq Checked(b)
      BY <2>3 DEF StartCycle, PassGuards, PollFallback, AbandonCycle, DrainArbitrages,
                  PlansBuilt, EndCycle, Goto, Checked, PipelineTypeOK
    <3> QED BY <3>1, <3>2, QuietStepKeeps
  <2>4. CASE (\E b \in Borrowers : FilterCandidate(c, b))
             \/ \E o \in Opportunities :
                   BuildPlan(c, o) \/ SkipBlocked(c, o) \/ RejectOpenCircuit(c, o)
    <3>1. UNCHANGED <<cooldown, penance, retries, stage, running>>
      BY <2>4 DEF FilterCandidate, BuildPlan, SkipBlocked, RejectOpenCircuit, historyVars
    <3>2. \A b \in Borrowers : Checked(b)' = Checked(b)
      BY <3>1 DEF Checked
    <3> QED BY <3>1, <3>2, QuietStepKeeps
  <2>5. ASSUME NEW o \in Opportunities, EnterExecute(c, o) PROVE RetryInv'
    <3>1. UNCHANGED <<cooldown, penance, retries>>
      BY <2>5 DEF EnterExecute, historyVars
    <3>2. \A b \in Borrowers : Checked(b)' \subseteq Checked(b)
      BY <2>5 DEF EnterExecute, Goto, Checked, PipelineTypeOK
    <3> QED BY <3>1, <3>2, QuietStepKeeps
  <2> QED BY <1>1, <2>1, <2>2, <2>3, <2>4, <2>5 DEF Advance
<1>2. CASE (\E a \in Arbitrages : Enqueue(a)) \/ CloseBreaker \/ UNCHANGED pipelineVars
  <2>1. UNCHANGED <<cooldown, penance, retries, stage, running>>
    BY <1>2 DEF Enqueue, CloseBreaker, pipelineVars, cycleVars, historyVars
  <2>2. \A b \in Borrowers : Checked(b)' = Checked(b)
    BY <2>1 DEF Checked
  <2> QED BY <2>1, <2>2, QuietStepKeeps
<1>3. CASE Tick
  BY <1>3, TickKeeps
<1> QED BY <1>1, <1>2, <1>3 DEF Next

(* No retry storm, for any number of cycles and borrowers and whichever    *)
(* account the requests carry: while a failure of a borrower counts, fewer *)
(* simulations of it begin than there are cycles, and only of those that   *)
(* had looked at the cooldown before (index.ts:731-735,                    *)
(* borrowerCooldownPolicy.ts:1).                                           *)
THEOREM RetriesStayBounded == Spec => []RetriesBounded
<1>1. Init => RetryInv
  <2> SUFFICES ASSUME Init, NEW b \in Borrowers
               PROVE  penance[b] = 0 /\ retries[b] = 0 /\ cooldown[RequestAccount[b]] = 0
    BY DEF RetryInv
  <2>1. RequestAccount[b] \in Accounts
    BY PipelineAssumption DEF Opportunities
  <2> QED BY <2>1 DEF Init
<1>2. PipelineTypeOK /\ RetryInv => RetriesBounded
  <2> SUFFICES ASSUME PipelineTypeOK, RetryInv, NEW b \in Borrowers
               PROVE  retries[b] < Cardinality(Cycles)
    BY DEF RetriesBounded
  <2>1. /\ penance[b] = 0 => retries[b] = 0
        /\ penance[b] > 0 => retries[b] + Cardinality(Checked(b)) < Cardinality(Cycles)
    BY DEF RetryInv
  <2> QED BY <2>1, CheckedFinite, CyclesCounted, TicksOf
<1> QED BY <1>1, <1>2, StepRetries, PipelineTypeCorrect, PTL DEF Spec
=============================================================================
