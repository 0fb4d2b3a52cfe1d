----------------------------- MODULE WsTransport -----------------------------
(***************************************************************************)
(* src/src/monitors/MultiWsEventSource.ts: the pool's events over several  *)
(* socket endpoints, with reconnects to an alternate endpoint and a        *)
(* promotion of the best one.                                              *)
(*                                                                         *)
(* A provider is an endpoint's name.  Time is abstract: a heartbeat        *)
(* interval or a reconnect timer may fire at any time once it is armed, so *)
(* that delays and the counter of attempts that sets them are left out.    *)
(* Which provider has the best score is any of them.                       *)
(* A definition D_Bug is a mutant of D.                                    *)
(***************************************************************************)
EXTENDS Integers, Sequences, SequencesExt

CONSTANTS
    Endpoints,       \* endpointUrls: a sequence of [name, url, host]
    DedupeCapacity,  \* dedupeCapacity
    PoolLogs,        \* the events of reserves
    Batches,         \* bound: the sequences of them a provider delivers
    MaxTimers        \* bound: reconnect timers of one provider that are counted

ASSUME TransportAssumption ==
    /\ Endpoints \in Seq(ToSet(Endpoints)) \ {<<>>}
    /\ DedupeCapacity \in Nat \ {0} /\ MaxTimers \in Nat \ {0} /\ Batches \subseteq Seq(PoolLogs)
    /\ \A i, j \in DOMAIN Endpoints : Endpoints[i].name = Endpoints[j].name => i = j

VARIABLES
    sourcePhase,   \* before start(), started, after the stop it returned
    answering,     \* the endpoints that answer
    watchers,      \* by provider: watcher sets open, those whose stop function
                   \* providerStopFns holds, and whether one watches heads
    primaryName,   \* primaryProviderName
    fresh,         \* providers heard of within the heartbeat timeout
    beating,       \* providers with a heartbeat interval
    armed,         \* by provider: its reconnect timers
    batch,         \* by provider: the logs of a handleLogs in flight
    recentKeys,    \* the keys of dedupe, the oldest first
    reported       \* history: logs given to onReserveUpdated

transportVars == <<sourcePhase, answering, watchers, primaryName, fresh, beating, armed, batch,
                   recentKeys, reported>>

Providers == {Endpoints[i].name : i \in DOMAIN Endpoints}
Endpoint(p) == CHOOSE e \in ToSet(Endpoints) : e.name = p
Closed == [open |-> 0, held |-> 0, heads |-> FALSE]

(* A provider has at most one set of open watchers, one that can be stopped.*)
TransportTypeOK ==
    /\ sourcePhase \in {"new", "started", "stopped"} /\ answering \subseteq Providers
    /\ watchers \in [Providers -> [open: 0 .. 1, held: 0 .. 1, heads: BOOLEAN]]
    /\ \A p \in Providers : watchers[p].open = watchers[p].held
    /\ primaryName \in Providers \cup {"primary"}
    /\ fresh \subseteq Providers /\ beating \subseteq Providers
    /\ armed \in [Providers -> 0 .. MaxTimers]
    /\ \A p \in Providers : ToSet(batch[p]) \subseteq PoolLogs
    /\ ToSet(recentKeys) \subseteq PoolLogs /\ Len(recentKeys) <= DedupeCapacity
    /\ reported \subseteq PoolLogs

TransportInit ==
    /\ sourcePhase = "new" /\ answering = Providers
    /\ watchers = [p \in Providers |-> Closed] /\ primaryName = "primary"
    /\ fresh = {} /\ beating = {} /\ armed = [p \in Providers |-> 0]
    /\ batch = [p \in Providers |-> <<>>] /\ recentKeys = <<>> /\ reported = {}

-----------------------------------------------------------------------------
(* stopProviderSubscriptions, subscribeProvider, pickAlternateEndpoint     *)

Unsubscribed(w, p) ==
    [w EXCEPT ![p] = [open |-> @.open - @.held, held |-> 0, heads |-> FALSE]]

Subscribed(w, p, heads) ==
    [Unsubscribed(w, p) EXCEPT ![p] = [open |-> @.open + 1, held |-> @.held + 1, heads |-> heads]]

Alternate_First(p) == Endpoints[1].name

(* The first endpoint of another URL, of another host if there is one; the *)
(* failed one itself if no endpoint has another URL.                       *)
Alternate(p) ==
    LET failed == Endpoint(p)
        others == {i \in DOMAIN Endpoints : Endpoints[i].url # failed.url}
        crossVendor == {i \in others : Endpoints[i].host # failed.host}
    IN  IF others = {} THEN p
        ELSE Endpoints[Min(IF crossVendor # {} THEN crossVendor ELSE others)].name

(* scheduleReconnect: one more timer each time it is called.               *)
Rearmed(p) == [armed EXCEPT ![p] = IF @ < MaxTimers THEN @ + 1 ELSE @]

-----------------------------------------------------------------------------
StartSource ==
    /\ sourcePhase = "new"
    /\ sourcePhase' = "started"
    /\ watchers' = [p \in Providers |-> [open |-> 1, held |-> 1, heads |-> p = primaryName]]
    /\ beating' = Providers
    /\ UNCHANGED <<answering, primaryName, fresh, armed, batch, recentKeys, reported>>

EndpointTurns(p) ==
    /\ answering' = IF p \in answering THEN answering \ {p} ELSE answering \cup {p}
    /\ UNCHANGED <<sourcePhase, watchers, primaryName, fresh, beating, armed, batch, recentKeys,
                   reported>>

(* A subscribed endpoint that answers delivers logs, again after a         *)
(* reconnect; the bound is one handleLogs in flight for each provider.     *)
LogsArrive(p, logs) ==
    /\ p \in answering /\ watchers[p].open > 0 /\ batch[p] = <<>>
    /\ fresh' = fresh \cup {p}
    /\ batch' = [batch EXCEPT ![p] = logs]
    /\ UNCHANGED <<sourcePhase, answering, watchers, primaryName, beating, armed, recentKeys, reported>>

Remembered_NoEviction(key) == IF key \in ToSet(recentKeys) THEN recentKeys ELSE Append(recentKeys, key)

(* FixedSizeDedupe.add: a new key takes the place of the oldest.           *)
Remembered(key) ==
    IF key \in ToSet(recentKeys) THEN recentKeys
    ELSE Append(IF Len(recentKeys) < DedupeCapacity THEN recentKeys ELSE Tail(recentKeys), key)

ReportLog_StopsOnError(p) ==
    /\ batch[p] # <<>>
    /\ \E failed \in BOOLEAN :
        batch' = [batch EXCEPT ![p] = IF failed THEN <<>> ELSE Tail(@)]
    /\ recentKeys' = Remembered(Head(batch[p]))
    /\ reported' = IF Head(batch[p]) \in ToSet(recentKeys) THEN reported
                   ELSE reported \cup {Head(batch[p])}
    /\ UNCHANGED <<sourcePhase, answering, watchers, primaryName, fresh, beating, armed>>

(* One round of handleLogs: the log is dropped when dedupe still holds its *)
(* key, and given to onReserveUpdated otherwise; the getLogs it waits for  *)
(* then may fail without a consequence.  stopAll does not end the loop.    *)
ReportLog(p) ==
    /\ batch[p] # <<>>
    /\ batch' = [batch EXCEPT ![p] = Tail(@)]
    /\ LET log == Head(batch[p])
       IN  /\ recentKeys' = Remembered(log)
           /\ reported' = IF log \in ToSet(recentKeys) THEN reported ELSE reported \cup {log}
    /\ UNCHANGED <<sourcePhase, answering, watchers, primaryName, fresh, beating, armed>>

(* onError of one of its watchers.                                         *)
WatcherError(p) ==
    /\ p \notin answering /\ watchers[p].open > 0
    /\ armed' = Rearmed(p)
    /\ UNCHANGED <<sourcePhase, answering, watchers, primaryName, fresh, beating, batch, recentKeys,
                   reported>>

(* The heartbeat timeout passes without a message.                         *)
FallsSilent(p) ==
    /\ p \in fresh /\ (p \notin answering \/ watchers[p].open = 0)
    /\ fresh' = fresh \ {p}
    /\ UNCHANGED <<sourcePhase, answering, watchers, primaryName, beating, armed, batch, recentKeys,
                   reported>>

(* The interval of any subscription the provider ever had: stopping a      *)
(* subscription leaves its interval.                                       *)
HeartbeatMissed(p) ==
    /\ p \in beating /\ p \notin fresh
    /\ armed' = Rearmed(p)
    /\ UNCHANGED <<sourcePhase, answering, watchers, primaryName, fresh, beating, batch, recentKeys,
                   reported>>

(* The provider that failed stays unsubscribed; its alternate watches      *)
(* heads only when it is the one named "primary".                          *)
Reconnect(p) ==
    /\ armed[p] > 0
    /\ armed' = [armed EXCEPT ![p] = @ - 1]
    /\ LET alternate == Alternate(p)
       IN  /\ watchers' = Subscribed(Unsubscribed(watchers, p), alternate, alternate = "primary")
           /\ beating' = beating \cup {alternate}
    /\ UNCHANGED <<sourcePhase, answering, primaryName, fresh, batch, recentKeys, reported>>

PromoteBestProvider(best) ==
    /\ sourcePhase = "started" /\ Len(Endpoints) > 1 /\ best # primaryName
    /\ primaryName' = best
    /\ watchers' = [p \in Providers |-> Subscribed(watchers, p, p = best)[p]]
    /\ beating' = Providers
    /\ UNCHANGED <<sourcePhase, answering, fresh, armed, batch, recentKeys, reported>>

StopAll ==
    /\ sourcePhase = "started"
    /\ sourcePhase' = "stopped"
    /\ watchers' = [p \in Providers |-> [Closed EXCEPT !.open = watchers[p].open - watchers[p].held]]
    /\ fresh' = {} /\ beating' = {} /\ recentKeys' = <<>>
    /\ armed' = [p \in Providers |-> 0]
    /\ UNCHANGED <<answering, primaryName, batch, reported>>

TransportNext ==
    \/ StartSource \/ StopAll
    \/ \E p \in Providers :
        \/ EndpointTurns(p) \/ ReportLog(p) \/ WatcherError(p) \/ FallsSilent(p)
        \/ HeartbeatMissed(p) \/ Reconnect(p) \/ PromoteBestProvider(p)
        \/ \E logs \in Batches : LogsArrive(p, logs)

TransportSpec == TransportInit /\ [][TransportNext]_transportVars

(* Intervals and timers fire, time passes, and a request made settles.     *)
TransportFairness ==
    \A p \in Providers :
        /\ WF_transportVars(ReportLog(p))
        /\ WF_transportVars(FallsSilent(p))
        /\ WF_transportVars(HeartbeatMissed(p))
        /\ WF_transportVars(Reconnect(p))

-----------------------------------------------------------------------------
(* Properties *)

(* The source is what the detection that starts it relies on: it listens  *)
(* to somebody until it is stopped, and then to nobody; and a log that was *)
(* delivered is given to the detection, now or before, whatever happens to *)
(* its provider, to the stop and to the request made for the log before it *)
(* (MultiWsEventSource.ts:284-325,367-396).                                *)
Abstract == INSTANCE EventSource WITH
    Sources <- Providers, Events <- PoolLogs, mode <- sourcePhase,
    listening <- {p \in Providers : watchers[p].open > 0},
    pending <- [p \in Providers |-> ToSet(batch[p])], given <- reported
SourceSpec == Abstract!Spec

(* When in the end one provider answers and no other does, a running       *)
(* source subscribes it, again and again should it have to                 *)
(* (MultiWsEventSource.ts:254-266).  It takes two endpoints: with three,   *)
(* two dead ones can name each other as alternates for ever.               *)
FailsOver ==
    \A p \in Providers :
        <>[](answering = {p} /\ sourcePhase = "started") => []<>(watchers[p].open > 0)
=============================================================================
