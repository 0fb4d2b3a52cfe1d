------------------------------- MODULE Shadow --------------------------------
(***************************************************************************)
(* src/src/monitors/shadowValidator.ts: samples of the model against the   *)
(* pool, with a rate, a cap on the reads in flight and a daily budget.     *)
(*                                                                         *)
(* A sample is what the model said when it was taken; drift in basis points*)
(* and the attribution to assets are left out.                             *)
(***************************************************************************)
EXTENDS Integers, FiniteSets

CONSTANTS
    SampleRate,     \* shadowSampleRate
    RampRate,       \* shadowBootstrapSampleRateMultiplier
    MaxConcurrency, \* shadowMaxConcurrency
    MaxPerDay,      \* shadowMaxSamplesPerDay
    Days,           \* bound: days
    MaxCounted      \* bound: samples of a bucket

ASSUME ShadowAssumption ==
    /\ {SampleRate, RampRate, MaxConcurrency, MaxPerDay, Days} \subseteq Nat \ {0}
    /\ MaxCounted \in Nat

VARIABLES
    day,            \* the date
    ramping,        \* whether shadowBootstrapRampMs are not over yet
    dayKey,         \* the day the budget is of
    samplesToday,
    sampleCounter,  \* modulo the rates
    flying,         \* by what the model said, the reads in flight
    buckets         \* by eMode, the samples and the false negatives

shadowVars == <<day, ramping, dayKey, samplesToday, sampleCounter, flying, buckets>>

(* Of the tiers, those that count as a miss and those that do not.         *)
Verdicts == {"quiet", "alarmed"}
InFlight == flying["quiet"] + flying["alarmed"]

(* The cap and the budget hold at every moment.                            *)
ShadowTypeOK ==
    /\ day \in 1 .. Days /\ dayKey \in 0 .. Days /\ ramping \in BOOLEAN
    /\ samplesToday \in 0 .. MaxPerDay /\ sampleCounter \in 0 .. SampleRate * RampRate
    /\ flying \in [Verdicts -> 0 .. MaxConcurrency] /\ InFlight <= MaxConcurrency
    /\ \A e \in BOOLEAN : buckets[e].missed <= buckets[e].count /\ buckets[e].count \in 0 .. MaxCounted

ShadowInit ==
    /\ day = 1 /\ ramping = TRUE /\ dayKey = 0 /\ samplesToday = 0 /\ sampleCounter = 0
    /\ flying = [v \in Verdicts |-> 0]
    /\ buckets = [e \in BOOLEAN |-> [count |-> 0, missed |-> 0]]

DayPasses ==
    /\ day < Days /\ day' = day + 1
    /\ UNCHANGED <<ramping, dayKey, samplesToday, sampleCounter, flying, buckets>>

RampEnds ==
    /\ ramping /\ ramping' = FALSE
    /\ UNCHANGED <<day, dayKey, samplesToday, sampleCounter, flying, buckets>>

EffectiveRate == IF ramping THEN SampleRate * RampRate ELSE SampleRate

(* maybeSample of a position that has a usable health factor; without one, *)
(* or before prices and balances are there, nothing changes.               *)
MaybeSample(v) ==
    LET counted == sampleCounter + 1
        due == counted % EffectiveRate = 0 /\ InFlight < MaxConcurrency
        spent == IF dayKey = day THEN samplesToday ELSE 0
    IN  /\ sampleCounter' = counted % (SampleRate * RampRate)
        /\ IF due
           THEN /\ dayKey' = day
                /\ samplesToday' = IF spent < MaxPerDay THEN spent + 1 ELSE spent
                /\ flying' = IF spent < MaxPerDay THEN [flying EXCEPT ![v] = @ + 1] ELSE flying
           ELSE UNCHANGED <<dayKey, samplesToday, flying>>
        /\ UNCHANGED <<day, ramping, buckets>>

(* The account is liquidatable or not; a failed read of its eMode is none. *)
SampleAnswers(v) ==
    /\ flying[v] > 0 /\ flying' = [flying EXCEPT ![v] = @ - 1]
    /\ \E eMode, liquidatable \in BOOLEAN :
        /\ buckets[eMode].count < MaxCounted
        /\ buckets' = [buckets EXCEPT ![eMode] =
                [count |-> @.count + 1,
                 missed |-> @.missed + (IF liquidatable /\ v = "quiet" THEN 1 ELSE 0)]]
    /\ UNCHANGED <<day, ramping, dayKey, samplesToday, sampleCounter>>

SampleFails(v) ==
    /\ flying[v] > 0 /\ flying' = [flying EXCEPT ![v] = @ - 1]
    /\ UNCHANGED <<day, ramping, dayKey, samplesToday, sampleCounter, buckets>>

ShadowNext ==
    \/ DayPasses \/ RampEnds
    \/ \E v \in Verdicts : MaybeSample(v) \/ SampleAnswers(v) \/ SampleFails(v)

ShadowSpec == ShadowInit /\ [][ShadowNext]_shadowVars
=============================================================================
