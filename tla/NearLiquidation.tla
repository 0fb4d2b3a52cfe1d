--------------------------- MODULE NearLiquidation ---------------------------
(***************************************************************************)
(* src/src/monitors/nearLiquidationAcceleratedPoller.ts with its           *)
(* regression (src/src/utils/hfLinearRegression.ts): polls of the accounts *)
(* near liquidation every 200 ms, which overlap when the node is slow.     *)
(*                                                                         *)
(* Health factors are ranks, One is 1.0; the line through the samples is   *)
(* computed in integers, over a common denominator.  The accounts are set  *)
(* once; the dust of the one hard-coded account is an input.               *)
(* A definition D_Bug is a mutant of D.                                    *)
(***************************************************************************)
EXTENDS Integers, Sequences, SequencesExt, FiniteSets

CONSTANTS
    Watched,      \* the accounts of setAccounts, a sequence without repetition
    DustHotpath,  \* DUST_HOTPATH_ACCOUNT
    One,          \* the rank of 1.0
    NearHf,       \* the rank of NEAR_LIQ_HF_WAD
    TopHf,        \* bound: ranks
    Moving,       \* bound: the accounts whose health factor moves
    MaxSamples,   \* MAX_SAMPLES
    Ahead,        \* PROJECT_BLOCKS, in ticks
    NearPolls,    \* bound: polls at one time
    NearTicks     \* bound: ticks

ASSUME NearAssumption ==
    /\ {One, NearHf, TopHf, MaxSamples, Ahead, NearTicks} \subseteq Nat
    /\ One < NearHf /\ NearHf <= TopHf
    /\ Watched \in Seq(ToSet(Watched)) /\ IsInjective(Watched)

VARIABLES
    tick,       \* the clock
    chainHf,    \* the chain: the health factor of each account
    chainDebt,  \*   and whether its debt is at least MIN_DEBT_BASE_USD
    nearPolls,  \* the polls: what they have left, and what they await
    tracks      \* the samples of each account

nearVars == <<tick, chainHf, chainDebt, nearPolls, tracks>>

WatchedSet == ToSet(Watched)
NotPolling == [at |-> "idle", left |-> <<>>, hf |-> 0]
Sample == [at: 0 .. NearTicks, hf: 0 .. TopHf]

NearTypeOK ==
    /\ tick \in 0 .. NearTicks /\ chainHf \in [WatchedSet -> 0 .. TopHf]
    /\ chainDebt \in [WatchedSet -> BOOLEAN]
    /\ \A p \in NearPolls :
        /\ nearPolls[p].at \in {"idle", "gas", "read", "answered", "urgent"}
        /\ ToSet(nearPolls[p].left) \subseteq WatchedSet /\ nearPolls[p].hf \in 0 .. TopHf
    /\ \A a \in WatchedSet : ToSet(tracks[a]) \subseteq Sample /\ Len(tracks[a]) <= MaxSamples

NearInit ==
    /\ tick = 0 /\ chainHf \in [WatchedSet -> {One}] /\ chainDebt = [a \in WatchedSet |-> TRUE]
    /\ nearPolls = [p \in NearPolls |-> NotPolling]
    /\ tracks = [a \in WatchedSet |-> <<>>]

NearTick ==
    /\ tick < NearTicks /\ tick' = tick + 1
    /\ UNCHANGED <<chainHf, chainDebt, nearPolls, tracks>>

HfMoves(a) ==
    /\ a \in Moving
    /\ \E hf \in 0 .. TopHf :
        /\ hf - chainHf[a] \in {-1, 1}
        /\ chainHf' = [chainHf EXCEPT ![a] = hf]
    /\ UNCHANGED <<tick, chainDebt, nearPolls, tracks>>

DebtShrinks(a) ==
    /\ a \in Moving /\ chainDebt[a] /\ chainDebt' = [chainDebt EXCEPT ![a] = FALSE]
    /\ UNCHANGED <<tick, chainHf, nearPolls, tracks>>

-----------------------------------------------------------------------------
(* linearRegressionHf, projectHfBlocksAhead *)

SumOf(f) == LET sum[n \in 0 .. Len(f)] == IF n = 0 THEN 0 ELSE sum[n - 1] + f[n] IN sum[Len(f)]
TimeOf(s) == [i \in DOMAIN s |-> s[i].at - s[1].at]
HfOf(s) == [i \in DOMAIN s |-> s[i].hf]
Product(f, g) == [i \in DOMAIN f |-> f[i] * g[i]]

Denominator(s) ==
    LET t == TimeOf(s) IN Len(s) * SumOf(Product(t, t)) - SumOf(t) * SumOf(t)

Slope_Unweighted(s) ==
    LET t == TimeOf(s) IN SumOf(Product(t, HfOf(s))) - SumOf(t) * SumOf(HfOf(s))

(* The slope, times the denominator.                                       *)
Slope(s) ==
    LET t == TimeOf(s) IN Len(s) * SumOf(Product(t, HfOf(s))) - SumOf(t) * SumOf(HfOf(s))

(* The health factor that the line has Ahead of the last sample, times the *)
(* denominator and the number of samples.                                  *)
Projected(s) ==
    LET t == TimeOf(s)
    IN  SumOf(HfOf(s)) * Denominator(s) - Slope(s) * SumOf(t)
            + Slope(s) * Len(s) * (t[Len(s)] + Ahead)

(* Fewer than two samples, or all at one time, have no line.               *)
Falls(s) ==
    /\ Len(s) >= 2 /\ Denominator(s) # 0
    /\ Slope(s) < 0 /\ Projected(s) < One * Len(s) * Denominator(s)

-----------------------------------------------------------------------------
(* poll *)

(* The next account, or the end of the poll.                               *)
Onward(r) == IF r.left = <<>> THEN NotPolling ELSE [r EXCEPT !.at = "read"]
PollGoes(p, next) == nearPolls' = [nearPolls EXCEPT ![p] = next]
Account(p) == Head(nearPolls[p].left)
Rest(p) == Onward([nearPolls[p] EXCEPT !.left = Tail(@)])

PollBegins(p) ==
    /\ nearPolls[p].at = "idle" /\ Watched # <<>>
    /\ PollGoes(p, [NotPolling EXCEPT !.at = "gas", !.left = Watched])
    /\ UNCHANGED <<tick, chainHf, chainDebt, tracks>>

GasKnown(p) ==
    /\ nearPolls[p].at = "gas"
    /\ PollGoes(p, [nearPolls[p] EXCEPT !.at = "read"])
    /\ UNCHANGED <<tick, chainHf, chainDebt, tracks>>

(* The gas price or what is urgent throws: the poll ends here.             *)
PollThrows(p) ==
    /\ nearPolls[p].at \in {"gas", "urgent"}
    /\ PollGoes(p, NotPolling)
    /\ UNCHANGED <<tick, chainHf, chainDebt, tracks>>

(* With too little debt an account is as far off as any.                   *)
AccountRead(p) ==
    /\ nearPolls[p].at = "read"
    /\ PollGoes(p, [nearPolls[p] EXCEPT !.at = "answered",
                        !.hf = IF chainDebt[Account(p)] THEN chainHf[Account(p)] ELSE TopHf])
    /\ UNCHANGED <<tick, chainHf, chainDebt, tracks>>

AccountUnread(p) ==
    /\ nearPolls[p].at = "read"
    /\ PollGoes(p, Rest(p))
    /\ UNCHANGED <<tick, chainHf, chainDebt, tracks>>

Near(p) == nearPolls[p].hf < NearHf

(* Not near: its samples go.                                               *)
Forgotten(p) ==
    /\ nearPolls[p].at = "answered" /\ ~Near(p)
    /\ tracks' = [tracks EXCEPT ![Account(p)] = <<>>]
    /\ PollGoes(p, Rest(p))
    /\ UNCHANGED <<tick, chainHf, chainDebt>>

(* Dust: its samples stay as they are.                                     *)
Deprioritized(p) ==
    /\ nearPolls[p].at = "answered" /\ Near(p) /\ Account(p) = DustHotpath
    /\ PollGoes(p, Rest(p))
    /\ UNCHANGED <<tick, chainHf, chainDebt, tracks>>

LastOf(s) == IF Len(s) <= MaxSamples THEN s ELSE SubSeq(s, Len(s) - MaxSamples + 1, Len(s))

(* The answer is a sample of now, whenever it was read.                    *)
Sampled(p) ==
    /\ nearPolls[p].at = "answered" /\ Near(p)
    /\ LET a == Account(p)
           samples == LastOf(Append(tracks[a], [at |-> tick, hf |-> nearPolls[p].hf]))
       IN  /\ tracks' = [tracks EXCEPT ![a] = samples]
           /\ PollGoes(p, IF Falls(samples) THEN [nearPolls[p] EXCEPT !.at = "urgent"] ELSE Rest(p))
    /\ UNCHANGED <<tick, chainHf, chainDebt>>

(* onUrgentAccounts is over: the snapshots and a cycle of the pipeline.    *)
UrgentDone(p) ==
    /\ nearPolls[p].at = "urgent"
    /\ PollGoes(p, Rest(p))
    /\ UNCHANGED <<tick, chainHf, chainDebt, tracks>>

(* stop(): polls that are under way go on and sample again.                *)
StopNear ==
    /\ tracks' = [a \in WatchedSet |-> <<>>]
    /\ UNCHANGED <<tick, chainHf, chainDebt, nearPolls>>

NearNext ==
    \/ NearTick \/ StopNear \/ \E a \in WatchedSet : HfMoves(a) \/ DebtShrinks(a)
    \/ \E p \in NearPolls :
        \/ PollBegins(p) \/ GasKnown(p) \/ PollThrows(p) \/ AccountRead(p) \/ AccountUnread(p)
        \/ Forgotten(p) \/ Deprioritized(p) \/ Sampled(p) \/ UrgentDone(p)

NearSpec == NearInit /\ [][NearNext]_nearVars

-----------------------------------------------------------------------------
(* Properties *)

(* Nobody is urgent whose samples never fell: equal, rising and simultaneous*)
(* samples, late answers and dropped ones give no line that falls below 1.0*)
(* (nearLiquidationAcceleratedPoller.ts:116-143, hfLinearRegression.ts:20).*)
UrgentHasFallen ==
    [][\A p \in NearPolls :
        nearPolls[p].at = "answered" /\ nearPolls'[p].at = "urgent" =>
            LET samples == tracks'[Account(p)]
            IN  \E i, j \in DOMAIN samples : i < j /\ samples[i].hf > samples[j].hf]_nearVars
=============================================================================
