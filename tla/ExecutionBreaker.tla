-------------------------- MODULE ExecutionBreaker --------------------------
(***************************************************************************)
(* src/src/executors/simFailureCircuitBreaker.ts over the "execution"      *)
(* breaker of the chain registry: after Threshold final simulations failed *)
(* in a row it opens the breaker and arms a timer that closes it again;    *)
(* every further failure re-arms the timer.                                *)
(*                                                                         *)
(* Time passes in ticks.  A timer whose ticks have run out fires at some   *)
(* later step, as a callback of the event loop does.  What the registry    *)
(* stores beside the status (failures, openedAtMs) is not read.            *)
(* A definition D_Bug is a mutant of D, as in NonceManager.                *)
(***************************************************************************)
EXTENDS Integers

CONSTANTS
    Threshold,  \* EXECUTION_SIM_FAILURE_THRESHOLD
    OpenTicks,  \* EXECUTION_CIRCUIT_OPEN_MS, in ticks
    StreakCap   \* bound: where the count of failures saturates

ASSUME ExecutionBreakerAssumption ==
    /\ Threshold \in Nat \ {0}
    /\ OpenTicks \in Nat \ {0}
    /\ StreakCap \in Nat /\ StreakCap > Threshold

VARIABLES
    breaker,      \* registry: circuitBreakers.execution.status
    consecutive,  \* SimFailureCircuitBreaker.consecutive
    timer,        \* reopenTimer: the ticks left, or NoTimer
    quiet         \* history: ticks since the last failure that opened it

breakerVars == <<breaker, consecutive, timer, quiet>>

NoTimer == -1
SmallerOf(m, n) == IF m <= n THEN m ELSE n

BreakerTypeOK ==
    /\ breaker \in {"closed", "open"}
    /\ consecutive \in 0 .. StreakCap
    /\ timer \in {NoTimer} \cup 0 .. OpenTicks
    /\ quiet \in 0 .. OpenTicks

BreakerInit ==
    /\ breaker = "closed"
    /\ consecutive = 0
    /\ timer = NoTimer
    /\ quiet = 0

BreakerOpen == breaker = "open"

-----------------------------------------------------------------------------
OpenCircuit_TimerOnce ==
    /\ breaker' = "open"
    /\ timer' = IF timer = NoTimer THEN OpenTicks ELSE timer
    /\ quiet' = 0

OpenCircuit_Unarmed ==
    /\ breaker' = "open"
    /\ timer' = IF BreakerOpen THEN NoTimer ELSE OpenTicks
    /\ quiet' = 0

(* Open, or stay open: the timer that was armed is cleared and a new one   *)
(* armed.                                                                  *)
OpenCircuit ==
    /\ breaker' = "open"
    /\ timer' = OpenTicks
    /\ quiet' = 0

RecordSimFailure ==
    /\ consecutive' = SmallerOf(consecutive + 1, StreakCap)
    /\ \/ consecutive + 1 < Threshold /\ UNCHANGED <<breaker, timer, quiet>>
       \/ consecutive + 1 >= Threshold /\ OpenCircuit

RecordSuccess ==
    /\ consecutive' = 0
    /\ UNCHANGED <<breaker, timer, quiet>>

TimerFires ==
    /\ timer = 0
    /\ timer' = NoTimer
    /\ breaker' = "closed"
    /\ consecutive' = 0
    /\ UNCHANGED quiet

BreakerTick ==
    /\ timer' = IF timer > 0 THEN timer - 1 ELSE timer
    /\ quiet' = SmallerOf(quiet + 1, OpenTicks)
    /\ UNCHANGED <<breaker, consecutive>>

BreakerNext == RecordSimFailure \/ RecordSuccess \/ TimerFires \/ BreakerTick

BreakerSpec == BreakerInit /\ [][BreakerNext]_breakerVars

-----------------------------------------------------------------------------
(* Properties *)

(* The breaker never stays open for want of a timer, and a full count of   *)
(* failures never coexists with a closed breaker, however successes,       *)
(* failures and the timer interleave.                                      *)
OpenIsTimed ==
    /\ BreakerOpen <=> timer # NoTimer
    /\ consecutive >= Threshold => BreakerOpen

(* The breaker closes only OpenTicks after the last failure that opened or *)
(* kept it open: an execution that was in flight when it opened and fails  *)
(* late extends the pause (l.52-54).                                       *)
OpenLongEnough ==
    [][BreakerOpen /\ breaker' = "closed" => quiet >= OpenTicks]_breakerVars
=============================================================================
