------------------------------ MODULE Pipeline ------------------------------
(***************************************************************************)
(* src/src/orchestrator/pipelineOrchestrator.ts: runOnce(), run by several *)
(* callers at the same time (runLoop, the flashblock primary loop, the     *)
(* near-liquidation poller and the candidate callback of the event-purity  *)
(* stack, index.ts:1115, 1135, 1308, 1605), over one liquidation gate with *)
(* its borrower cooldowns and one execution breaker (ExecutionBreaker).    *)
(*                                                                         *)
(* A borrower stands for the liquidation of its position, an arbitrage for *)
(* itself.  What a cycle reads from the outside (which borrowers look      *)
(* liquidatable, prices, profitability, the result of an execution) is a   *)
(* nondeterministic choice.  execute() is reduced to the steps that meet   *)
(* the pipeline: its entry, the gate before the flash-loan preview, its    *)
(* result; SafeExecutor has the rest.  The run summary, the metrics and    *)
(* the dead-letter list are written and never read, and are left out.      *)
(***************************************************************************)
EXTENDS ExecutionBreaker, FiniteSets

CONSTANTS
    Cycles,         \* the callers of runOnce()
    Borrowers,
    Arbitrages,
    Wallet,         \* the operator's account, which may be a borrower's too
    RequestAccount, \* per opportunity: the account of its execution request
    NoOpportunity,
    CooldownTicks   \* BORROWER_DEAD_LETTER_COOLDOWN_MS, in ticks

Opportunities == Borrowers \cup Arbitrages
Accounts == Borrowers \cup {Wallet}

ASSUME PipelineAssumption ==
    /\ IsFiniteSet(Cycles) /\ Cycles # {}
    /\ Borrowers \cap Arbitrages = {}
    /\ NoOpportunity \notin Opportunities
    /\ RequestAccount \in [Opportunities -> Accounts]
    /\ CooldownTicks \in Nat \ {0}
    /\ StreakCap >= Threshold + Cardinality(Cycles)

VARIABLES
    dryRun,     \* the executor's dryRunMode
    cooldown,   \* BorrowerCooldownRegistry: per account, the ticks left
    arbQueue,   \* ArbitrageOpportunityQueue
    stage,      \* per caller: where its runOnce() is
    todo,       \* per caller: the opportunities its stage has still to look at
    kept,       \* per caller: those that passed
    running,    \* per caller: the opportunity it executes
    penance,    \* history, per borrower: ticks for which its last failure counts
    retries     \* history, per borrower: simulations begun while one does, up to
                \* as many as there are cycles

cycleVars == <<stage, todo, kept, running>>
historyVars == <<penance, retries>>
pipelineVars == <<breakerVars, dryRun, cooldown, arbQueue, cycleVars, historyVars>>

Stages == {"idle", "guards", "poll", "filter", "build", "execute", "preflight", "preview", "simulate"}

PipelineTypeOK ==
    /\ BreakerTypeOK
    /\ dryRun \in BOOLEAN
    /\ cooldown \in [Accounts -> 0 .. CooldownTicks]
    /\ arbQueue \subseteq Arbitrages
    /\ stage \in [Cycles -> Stages]
    /\ todo \in [Cycles -> SUBSET Opportunities]
    /\ kept \in [Cycles -> SUBSET Opportunities]
    /\ running \in [Cycles -> Opportunities \cup {NoOpportunity}]
    /\ penance \in [Borrowers -> 0 .. CooldownTicks]
    /\ retries \in [Borrowers -> 0 .. Cardinality(Cycles)]

Init ==
    /\ BreakerInit
    /\ dryRun \in BOOLEAN
    /\ cooldown = [a \in Accounts |-> 0]
    /\ arbQueue = {}
    /\ stage = [c \in Cycles |-> "idle"]
    /\ todo = [c \in Cycles |-> {}]
    /\ kept = [c \in Cycles |-> {}]
    /\ running = [c \in Cycles |-> NoOpportunity]
    /\ penance = [b \in Borrowers |-> 0]
    /\ retries = [b \in Borrowers |-> 0]

IsBorrowerBlocked(a) == cooldown[a] > 0
At(c, s) == stage[c] = s
Goto(c, s) == stage' = [stage EXCEPT ![c] = s]

(* index.ts gives the request builders the operator's address for every    *)
(* opportunity (l.1487, 1501, 1518).                                       *)
WalletRequests == [o \in Opportunities |-> Wallet]

-----------------------------------------------------------------------------
(* One cycle, up to its execution plans *)

StartCycle(c) ==
    /\ At(c, "idle")
    /\ Goto(c, "guards")
    /\ UNCHANGED <<breakerVars, dryRun, cooldown, arbQueue, todo, kept, running, historyVars>>

(* The watchlist sweep, the staleness guard and the sequencer read come    *)
(* first; the execution breaker is looked at after them, and the breakers  *)
(* of detection select degraded polling.                                   *)
PassGuards(c) ==
    /\ At(c, "guards")
    /\ ~BreakerOpen
    /\ \/ Goto(c, "poll") /\ UNCHANGED todo
       \/ /\ Goto(c, "filter")
          /\ \E found \in SUBSET Borrowers : todo' = [todo EXCEPT ![c] = found]
    /\ UNCHANGED <<breakerVars, dryRun, cooldown, arbQueue, kept, running, historyVars>>

(* Degraded: poll, then only borrowers with a fresh snapshot. *)
PollFallback(c) ==
    /\ At(c, "poll")
    /\ Goto(c, "filter")
    /\ \E found \in SUBSET Borrowers : todo' = [todo EXCEPT ![c] = found]
    /\ UNCHANGED <<breakerVars, dryRun, cooldown, arbQueue, kept, running, historyVars>>

(* The cycle ends early: stale watchlist, sequencer down, breaker open, no *)
(* fresh cache, or an exception of any call before the plans.              *)
AbandonCycle(c) ==
    /\ stage[c] \in {"guards", "poll", "filter"}
    /\ Goto(c, "idle")
    /\ todo' = [todo EXCEPT ![c] = {}]
    /\ kept' = [kept EXCEPT ![c] = {}]
    /\ UNCHANGED <<breakerVars, dryRun, cooldown, arbQueue, running, historyVars>>

(* A candidate passes the gate, or is blocked, dust, unprofitable or       *)
(* fails the oracle's sanity check.                                        *)
FilterCandidate(c, b) ==
    /\ At(c, "filter")
    /\ b \in todo[c]
    /\ todo' = [todo EXCEPT ![c] = @ \ {b}]
    /\ \/ UNCHANGED kept
       \/ ~IsBorrowerBlocked(b) /\ kept' = [kept EXCEPT ![c] = @ \cup {b}]
    /\ UNCHANGED <<breakerVars, dryRun, cooldown, arbQueue, stage, running, historyVars>>

(* The candidates that passed, and everything queued by the scanner.       *)
DrainArbitrages(c) ==
    /\ At(c, "filter") /\ todo[c] = {}
    /\ Goto(c, "build")
    /\ todo' = [todo EXCEPT ![c] = kept[c] \cup arbQueue]
    /\ kept' = [kept EXCEPT ![c] = {}]
    /\ arbQueue' = {}
    /\ UNCHANGED <<breakerVars, dryRun, cooldown, running, historyVars>>

(* A plan is built unless the borrower is blocked by now, the builder has  *)
(* none, or it throws; its dead letter "request_builder_exception" starts  *)
(* no cooldown.                                                            *)
BuildPlan(c, o) ==
    /\ At(c, "build")
    /\ o \in todo[c]
    /\ todo' = [todo EXCEPT ![c] = @ \ {o}]
    /\ \/ UNCHANGED kept
       \/ /\ o \in Borrowers => ~IsBorrowerBlocked(o)
          /\ kept' = [kept EXCEPT ![c] = @ \cup {o}]
    /\ UNCHANGED <<breakerVars, dryRun, cooldown, arbQueue, stage, running, historyVars>>

PlansBuilt(c) ==
    /\ At(c, "build") /\ todo[c] = {}
    /\ Goto(c, "execute")
    /\ todo' = [todo EXCEPT ![c] = kept[c]]
    /\ kept' = [kept EXCEPT ![c] = {}]
    /\ UNCHANGED <<breakerVars, dryRun, cooldown, arbQueue, running, historyVars>>

-----------------------------------------------------------------------------
(* Execution, in an order the ranker chooses *)

(* With the wiring of index.ts only the operator's own position is ever    *)
(* blocked here.                                                           *)
SkipBlocked(c, o) ==
    /\ At(c, "execute")
    /\ o \in todo[c] \cap Borrowers
    /\ IsBorrowerBlocked(o)
    /\ todo' = [todo EXCEPT ![c] = @ \ {o}]
    /\ UNCHANGED <<breakerVars, dryRun, cooldown, arbQueue, stage, kept, running, historyVars>>

(* execute() rejects at its entry; "execution_circuit_open" starts no      *)
(* cooldown.                                                               *)
RejectOpenCircuit(c, o) ==
    /\ At(c, "execute")
    /\ o \in todo[c]
    /\ o \in Borrowers => ~IsBorrowerBlocked(o)
    /\ BreakerOpen
    /\ todo' = [todo EXCEPT ![c] = @ \ {o}]
    /\ UNCHANGED <<breakerVars, dryRun, cooldown, arbQueue, stage, kept, running, historyVars>>

EnterExecute_Unchecked(c, o) ==
    /\ At(c, "execute")
    /\ o \in todo[c]
    /\ o \in Borrowers => ~IsBorrowerBlocked(o)
    /\ todo' = [todo EXCEPT ![c] = @ \ {o}]
    /\ running' = [running EXCEPT ![c] = o]
    /\ Goto(c, "preflight")
    /\ UNCHANGED <<breakerVars, dryRun, cooldown, arbQueue, kept, historyVars>>

EnterExecute(c, o) ==
    /\ At(c, "execute")
    /\ o \in todo[c]
    /\ o \in Borrowers => ~IsBorrowerBlocked(o)
    /\ ~BreakerOpen
    /\ todo' = [todo EXCEPT ![c] = @ \ {o}]
    /\ running' = [running EXCEPT ![c] = o]
    /\ Goto(c, "preflight")
    /\ UNCHANGED <<breakerVars, dryRun, cooldown, arbQueue, kept, historyVars>>

CooldownReasons == {"final_simulation_failed", "receipt_reverted", "executor_exception", "send_failed"}
PreflightReasons == {"route_rejected", "route_transaction_mismatch", "executor_exception"}
LiveReasons == {"sent", "send_failed", "receipt_reverted", "receipt_reorged"}

DeadLetter_Accumulates(o, r) ==
    IF r \in CooldownReasons
    THEN /\ cooldown' = [cooldown EXCEPT ![RequestAccount[o]] = @ + CooldownTicks]
         /\ penance' = [b \in Borrowers |-> IF b = o THEN CooldownTicks ELSE penance[b]]
    ELSE UNCHANGED <<cooldown, penance>>

(* A dead letter starts, or restarts, the cooldown of the request's account. *)
DeadLetter(o, r) ==
    IF r \in CooldownReasons
    THEN /\ cooldown' = [cooldown EXCEPT ![RequestAccount[o]] = CooldownTicks]
         /\ penance' = [b \in Borrowers |-> IF b = o THEN CooldownTicks ELSE penance[b]]
    ELSE UNCHANGED <<cooldown, penance>>

SimCircuit_SuccessCloses(r) ==
    \/ r = "final_simulation_failed" /\ RecordSimFailure
    \/ r = "simulated" /\ consecutive' = 0 /\ breaker' = "closed" /\ UNCHANGED <<timer, quiet>>
    \/ r \notin {"final_simulation_failed", "simulated"} /\ UNCHANGED breakerVars

SimCircuit(r) ==
    \/ r = "final_simulation_failed" /\ RecordSimFailure
    \/ r = "simulated" /\ RecordSuccess
    \/ r \notin {"final_simulation_failed", "simulated"} /\ UNCHANGED breakerVars

(* recordExecutionResult, or the catch block of executePlan. *)
Finish(c, r) ==
    /\ SimCircuit(r)
    /\ DeadLetter(running[c], r)
    /\ running' = [running EXCEPT ![c] = NoOpportunity]
    /\ Goto(c, "execute")
    /\ UNCHANGED <<dryRun, arbQueue, todo, kept, retries>>

FailPreflight(c) ==
    /\ At(c, "preflight")
    /\ \E r \in PreflightReasons : Finish(c, r)

(* rejectBeforePreview, of liquidations: the cooldown of the request's     *)
(* account is looked at first, then the gas cost is awaited, and nobody    *)
(* looks again; the pipeline records neither rejection.                    *)
CheckCooldown_Ungated(c) ==
    /\ At(c, "preflight")
    /\ running[c] \in Borrowers
    /\ Goto(c, "preview")
    /\ UNCHANGED <<breakerVars, dryRun, cooldown, arbQueue, todo, kept, running, historyVars>>

CheckCooldown(c) ==
    /\ At(c, "preflight")
    /\ running[c] \in Borrowers
    /\ ~IsBorrowerBlocked(RequestAccount[running[c]])
    /\ Goto(c, "preview")
    /\ UNCHANGED <<breakerVars, dryRun, cooldown, arbQueue, todo, kept, running, historyVars>>

RejectBlocked(c) ==
    /\ At(c, "preflight")
    /\ running[c] \in Borrowers
    /\ IsBorrowerBlocked(RequestAccount[running[c]])
    /\ Finish(c, "borrower_cooldown")

(* The gas price or the price of the native token cannot be read.          *)
FailGasCost(c) ==
    /\ At(c, "preview")
    /\ Finish(c, "executor_exception")

RejectDust_Retries(c) ==
    /\ At(c, "preview")
    /\ todo' = [todo EXCEPT ![c] = @ \cup {running[c]}]
    /\ running' = [running EXCEPT ![c] = NoOpportunity]
    /\ Goto(c, "execute")
    /\ UNCHANGED <<breakerVars, dryRun, cooldown, arbQueue, kept, historyVars>>

RejectDust(c) ==
    /\ At(c, "preview")
    /\ Finish(c, "dust_filtered")

(* A request without a preview, an arbitrage, is not asked.                *)
PassPreview(c) ==
    /\ At(c, IF running[c] \in Borrowers THEN "preview" ELSE "preflight")
    /\ Goto(c, "simulate")
    /\ retries' = [b \in Borrowers |->
           IF b = running[c] /\ penance[b] > 0 /\ retries[b] < Cardinality(Cycles)
           THEN retries[b] + 1 ELSE retries[b]]
    /\ UNCHANGED <<breakerVars, dryRun, cooldown, arbQueue, todo, kept, running, penance>>

(* The preview, the final simulation and, unless in dry-run mode, the      *)
(* broadcast gate and the submission; an exception is possible throughout. *)
Settle(c) ==
    /\ At(c, "simulate")
    /\ \E r \in {"final_simulation_failed", "executor_exception"}
                \cup (IF dryRun THEN {"simulated"} ELSE LiveReasons) : Finish(c, r)

EndCycle(c) ==
    /\ At(c, "execute") /\ todo[c] = {}
    /\ Goto(c, "idle")
    /\ UNCHANGED <<breakerVars, dryRun, cooldown, arbQueue, todo, kept, running, historyVars>>

-----------------------------------------------------------------------------
(* The scanner queues an arbitrage that nobody is working on: its id has   *)
(* the time in it (arbitrageScanner.ts:450).                               *)
Enqueue(a) ==
    /\ a \notin arbQueue
    /\ \A c \in Cycles : a \notin todo[c] \cup kept[c] \cup {running[c]}
    /\ arbQueue' = arbQueue \cup {a}
    /\ UNCHANGED <<breakerVars, dryRun, cooldown, cycleVars, historyVars>>

CloseBreaker ==
    /\ TimerFires
    /\ UNCHANGED <<dryRun, cooldown, arbQueue, cycleVars, historyVars>>

Tick ==
    /\ BreakerTick
    /\ cooldown' = [a \in Accounts |-> IF cooldown[a] > 0 THEN cooldown[a] - 1 ELSE 0]
    /\ penance' = [b \in Borrowers |-> IF penance[b] > 0 THEN penance[b] - 1 ELSE 0]
    /\ retries' = [b \in Borrowers |-> IF penance[b] > 1 THEN retries[b] ELSE 0]
    /\ UNCHANGED <<dryRun, arbQueue, cycleVars>>

Advance(c) ==
    \/ PassGuards(c) \/ PollFallback(c) \/ AbandonCycle(c)
    \/ DrainArbitrages(c) \/ PlansBuilt(c) \/ EndCycle(c)
    \/ FailPreflight(c) \/ RejectBlocked(c) \/ CheckCooldown(c)
    \/ FailGasCost(c) \/ RejectDust(c) \/ PassPreview(c) \/ Settle(c)
    \/ \E b \in Borrowers : FilterCandidate(c, b)
    \/ \E o \in Opportunities :
          BuildPlan(c, o) \/ SkipBlocked(c, o) \/ RejectOpenCircuit(c, o) \/ EnterExecute(c, o)

Next ==
    \/ \E c \in Cycles : StartCycle(c) \/ Advance(c)
    \/ \E a \in Arbitrages : Enqueue(a)
    \/ CloseBreaker
    \/ Tick

Spec == Init /\ [][Next]_pipelineVars

(* Awaits of a cycle settle, timers fire and time passes.  Nothing is      *)
(* assumed of when cycles start or what they find.                         *)
FairSpec ==
    /\ Spec
    /\ \A c \in Cycles : WF_pipelineVars(Advance(c))
    /\ WF_pipelineVars(CloseBreaker)
    /\ WF_pipelineVars(Tick)

-----------------------------------------------------------------------------
(* Properties *)

(* What is in flight past the entry of execute() when the breaker opens is *)
(* all that can still fail: the count of failures exceeds the threshold by *)
(* less than the number of concurrent cycles (pipelineOrchestrator.ts:243, *)
(* safeTransactionExecutor.ts:144, simFailureCircuitBreaker.ts:27).        *)
OvershootBounded == consecutive < Threshold + Cardinality(Cycles)

(* An arbitrage drained by one cycle is not also worked on by another.     *)
ArbitragesExclusive ==
    \A c, d \in Cycles : \A a \in Arbitrages :
        (c # d /\ a \in todo[c] \cup kept[c] \cup {running[c]})
        => a \notin arbQueue \cup todo[d] \cup kept[d] \cup {running[d]}

(* No retry storm (borrowerCooldownPolicy.ts:1): whichever cycle found it  *)
(* and whenever its plan was built, a liquidation is simulated while a     *)
(* failure of the same borrower counts only if its cooldown had been       *)
(* looked at before the failure was recorded, and the gas cost was awaited *)
(* since (index.ts:731, :735).  The cycle that failed was not there, so    *)
(* these are fewer than the concurrent cycles, however long the failures   *)
(* go on; and that although the cooldown is the account's of the request.  *)
RetriesBounded == \A b \in Borrowers : retries[b] < Cardinality(Cycles)

(* An open breaker closes: nothing new enters execute() while it is open,  *)
(* so that failures stop re-arming its timer, whatever the cycles do.      *)
BreakerCloses == BreakerOpen ~> ~BreakerOpen

(* Every cycle ends, also when the breaker opens or a borrower is blocked  *)
(* in the middle of it.                                                    *)
CyclesEnd == \A c \in Cycles : stage[c] = "guards" ~> stage[c] = "idle"

(* Violated: a failed liquidation starts a cooldown of its borrower.       *)
FailureCoolsBorrower == \A b \in Borrowers : penance[b] > 0 => IsBorrowerBlocked(b)
=============================================================================
