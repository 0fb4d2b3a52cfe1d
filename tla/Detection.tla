------------------------------ MODULE Detection ------------------------------
(***************************************************************************)
(* Where the pipeline's candidates come from: the cache of borrower        *)
(* snapshots with its index by reserve (reserveAwareBorrowerCache.ts), the *)
(* reserve events and the fallback poll that fill it                       *)
(* (hybridDetectionPipeline.ts), the rescans (borrowerWatchlistRescanner   *)
(* .ts) and the breaker that polls and rescans share                       *)
(* (rescanCircuitBreaker.ts).                                              *)
(*                                                                         *)
(* A health factor is "below" 1, "near" (below 1.05) or "safe" (from 1.5   *)
(* on).  This is the wiring without the event watchlist, where the         *)
(* provider is AaveSnapshotProvider over ViemAaveV3Protocol (aaveV3.ts),   *)
(* which lists the borrowers below 1 a page of the subgraph at a time.  A  *)
(* borrower has one row in the subgraph.                                   *)
(* A definition D_Bug is a mutant of D.                                    *)
(***************************************************************************)
EXTENDS Integers, FiniteSets, Sequences, SequencesExt, Functions

CONSTANTS
    Accounts,
    ReservePairs,   \* chain.aave.reservePairs: reserves, bonus and repay value
    PageSize,       \* borrowerPageSize
    MaxEntries,     \* maxEntries of the cache
    Threshold,      \* failureThreshold, and the threshold of the rescan breaker
    Tasks,          \* bound: what may be in flight at one time
    Shifts          \* bound: changes of an account on the chain

ASSUME DetectionAssumption ==
    /\ ReservePairs \in Seq(ToSet(ReservePairs)) \ {<<>>} /\ \A pair \in ToSet(ReservePairs) :
            pair.reserves # {} /\ IsFiniteSet(pair.reserves) /\ pair.bonus \in Nat /\ pair.repay \in Nat
    /\ IsFiniteSet(Accounts) /\ PageSize \in Nat \ {0}
    /\ MaxEntries \in Nat \ {0} /\ Threshold \in Nat \ {0} /\ Shifts \in Nat

VARIABLES
    hfOf,        \* the chain: the health factor of each account
    heavy,       \* the chain: those whose collateral is more than twice their debt
    shifts,      \* how often the chain changed
    borrowerCache,  \* ReserveAwareBorrowerCache: snapshots by account, which account
                 \* comes before which in the Map, those whose snapshot is older
                 \* than ttlMs, reserveToAccounts, chainCounts
    lastBorrowerCursorId,   \* how many rows of the subgraph are behind the cursor
    tasks,       \* what is in flight
    rescans,     \* the rescan breaker: failures, coolingDown
    breakers     \* circuitBreakers of the pipeline

chainVars == <<hfOf, heavy, shifts>>
detectionVars == <<hfOf, heavy, shifts, borrowerCache, lastBorrowerCursorId, tasks, rescans, breakers>>

Levels == {"below", "near", "safe"}
Exposures == {pair.reserves : pair \in ToSet(ReservePairs)}
Reserves == UNION Exposures
Kinds == {"event", "listing", "poll", "rescan"}
NoTask == [kind |-> "none", asks |-> {}, read |-> <<>>, cursor |-> 0, about |-> {}]
CachedSnapshots == borrowerCache.snaps
ClosedBreaker == [failures |-> 0, open |-> FALSE]

(* The rows of the subgraph in the order of their ids.                     *)
PositionIds == SetToSeq(Accounts)
AllBorrowers == ToSet(PositionIds)

DetectionTypeOK ==
    /\ hfOf \in [Accounts -> Levels] /\ heavy \subseteq Accounts /\ shifts \in 0 .. Shifts
    /\ DOMAIN CachedSnapshots \subseteq Accounts /\ Cardinality(DOMAIN CachedSnapshots) <= MaxEntries
    /\ \A a \in DOMAIN CachedSnapshots : CachedSnapshots[a] \in [hf: Levels, reserves: Exposures]
    /\ borrowerCache.before \subseteq (DOMAIN CachedSnapshots) \X (DOMAIN CachedSnapshots)
    /\ \A a, b \in DOMAIN CachedSnapshots :
        a # b => (<<a, b>> \in borrowerCache.before <=> <<b, a>> \notin borrowerCache.before)
    /\ borrowerCache.old \subseteq DOMAIN CachedSnapshots
    /\ borrowerCache.idx \in [Reserves -> SUBSET Accounts] /\ borrowerCache.n \in Int
    /\ lastBorrowerCursorId \in 0 .. Len(PositionIds)
    /\ \A t \in Tasks : /\ tasks[t].kind \in Kinds \cup {"none"} /\ tasks[t].asks \subseteq Accounts
                        /\ \A read \in ToSet(tasks[t].read) : read.account \in Accounts
    /\ rescans.failures \in Nat /\ rescans.cooling \in BOOLEAN
    /\ \A b \in {"rpc", "subgraph"} : breakers[b].failures \in 0 .. Threshold

DetectionInit ==
    /\ hfOf \in [Accounts -> Levels] /\ heavy \in SUBSET Accounts /\ shifts = 0
    /\ borrowerCache = [snaps |-> <<>>, before |-> {}, old |-> {}, idx |-> [r \in Reserves |-> {}],
                        n |-> 0]
    /\ lastBorrowerCursorId = 0 /\ tasks = [t \in Tasks |-> NoTask]
    /\ rescans = [failures |-> 0, cooling |-> FALSE]
    /\ breakers = [b \in {"rpc", "subgraph"} |-> ClosedBreaker]

-----------------------------------------------------------------------------
(* ReserveAwareBorrowerCache                                               *)

Detached(idx, a, reserves) == [r \in Reserves |-> IF r \in reserves THEN idx[r] \ {a} ELSE idx[r]]
Attached(idx, a, reserves) == [r \in Reserves |-> IF r \in reserves THEN idx[r] \cup {a} ELSE idx[r]]

Deleted(c, gone) ==
    [snaps  |-> Restrict(c.snaps, DOMAIN c.snaps \ gone),
     before |-> {p \in c.before : p[1] \notin gone /\ p[2] \notin gone},
     old    |-> c.old \ gone,
     idx    |-> [r \in Reserves |-> c.idx[r] \ {a \in gone : r \in c.snaps[a].reserves}],
     n      |-> c.n - Cardinality(gone)]

(* Of a set of accounts, those that come before all but MaxEntries.        *)
Excess(c, set) ==
    {a \in set : Cardinality({b \in set : <<b, a>> \in c.before}) < Cardinality(set) - MaxEntries}

Pruned_CapOnly(c) == Deleted(c, Excess(c, DOMAIN c.snaps))

(* prune: what is older than ttlMs, then the accounts that came first.     *)
Pruned(c) == Deleted(c, c.old \cup Excess(c, DOMAIN c.snaps \ c.old))

(* upsert of a fresh snapshot                                              *)
Upserted(c, a, s) ==
    LET known == a \in DOMAIN c.snaps
    IN  Pruned([snaps  |-> [x \in DOMAIN c.snaps \cup {a} |-> IF x = a THEN s ELSE c.snaps[x]],
                before |-> IF known THEN c.before ELSE c.before \cup ((DOMAIN c.snaps) \X {a}),
                old    |-> c.old \ {a},
                idx    |-> Attached(IF known THEN Detached(c.idx, a, c.snaps[a].reserves) ELSE c.idx,
                                    a, s.reserves),
                n      |-> IF known THEN c.n ELSE c.n + 1])

(* The snapshots one after the other, as they were read (the CHOOSE of the *)
(* one cache before it lets TLC compute that cache once).                  *)
UpsertedAll(c, read) ==
    LET after[i \in 0 .. Len(read)] ==
            IF i = 0 THEN c
            ELSE CHOOSE next \in {Upserted(last, read[i].account, read[i].snapshot) :
                                        last \in {after[i - 1]}} : TRUE
    IN  after[Len(read)]

(* createReserveAwareCandidates                                            *)
Candidates == {a \in DOMAIN CachedSnapshots : CachedSnapshots[a].hf = "below"}

-----------------------------------------------------------------------------
(* The chain and time *)

AccountShifts(a, level, heavyThen) ==
    /\ shifts < Shifts /\ <<level, heavyThen>> # <<hfOf[a], heavy>> /\ heavyThen \ {a} = heavy \ {a}
    /\ hfOf' = [hfOf EXCEPT ![a] = level] /\ heavy' = heavyThen
    /\ shifts' = shifts + 1
    /\ UNCHANGED <<borrowerCache, lastBorrowerCursorId, tasks, rescans, breakers>>

SnapshotAges(a) ==
    /\ a \in DOMAIN CachedSnapshots \ borrowerCache.old
    /\ borrowerCache' = [borrowerCache EXCEPT !.old = @ \cup {a}]
    /\ UNCHANGED <<chainVars, lastBorrowerCursorId, tasks, rescans, breakers>>

(* A cycle lists the snapshots, which prunes the cache first.              *)
ListSnapshots ==
    /\ borrowerCache' = Pruned(borrowerCache)
    /\ UNCHANGED <<chainVars, lastBorrowerCursorId, tasks, rescans, breakers>>

-----------------------------------------------------------------------------
(* HybridDetectionPipeline and the rescanner                               *)

RecordFailure(b) ==
    breakers' = [breakers EXCEPT ![b] =
        [failures |-> IF @.failures < Threshold THEN @.failures + 1 ELSE @.failures,
         open |-> @.open \/ @.failures + 1 >= Threshold]]

Begin(t, task) ==
    /\ tasks[t].kind = "none"
    /\ tasks' = [tasks EXCEPT ![t] = task]

(* getLiquidatablePositions: the page after the cursor, which goes back to *)
(* the start with a page that is not full.                                 *)
NextPage(kind, about) ==
    LET last == IF lastBorrowerCursorId + PageSize <= Len(PositionIds)
                THEN lastBorrowerCursorId + PageSize ELSE Len(PositionIds)
    IN  [NoTask EXCEPT !.kind = kind, !.about = about,
            !.asks = ToSet(SubSeq(PositionIds, lastBorrowerCursorId + 1, last)),
            !.cursor = IF last = lastBorrowerCursorId + PageSize THEN last ELSE 0]

(* handleReserveUpdated: the cached accounts of the reserve are read again;*)
(* only when there are none is the provider asked.                         *)
ReserveUpdated(t, r) ==
    LET now == Pruned(borrowerCache)
    IN  /\ borrowerCache' = now
        /\ Begin(t, IF now.idx[r] = {} THEN NextPage("listing", {r})
                    ELSE [NoTask EXCEPT !.kind = "event", !.asks = now.idx[r]])
        /\ UNCHANGED <<chainVars, lastBorrowerCursorId, rescans, breakers>>

(* pollFallback and run() go through the rescan breaker, which lets them   *)
(* start only while it is not cooling down.                                *)
PollFallbackStarts(t) ==
    /\ ~rescans.cooling
    /\ Begin(t, NextPage("poll", {}))
    /\ UNCHANGED <<chainVars, borrowerCache, lastBorrowerCursorId, rescans, breakers>>

(* fetchBorrowersNearLiquidation reads all borrowers; here in one step.    *)
NearAccounts == {a \in AllBorrowers : hfOf[a] # "safe"}

(* A rescan ends at once when the subgraph lags.                           *)
RescanStarts(t, lags) ==
    /\ ~rescans.cooling
    /\ Begin(t, [NoTask EXCEPT !.kind = "rescan", !.asks = IF lags THEN {} ELSE NearAccounts])
    /\ UNCHANGED <<chainVars, borrowerCache, lastBorrowerCursorId, rescans, breakers>>

(* selectBestReservePairForAccount: the pairs by bonus, then repay value,  *)
(* then their place, for an account that is heavy in collateral.           *)
BeatsPair(p, q) == p.bonus > q.bonus \/ (p.bonus = q.bonus /\ p.repay > q.repay)
TopPair ==
    CHOOSE i \in DOMAIN ReservePairs :
        \A j \in DOMAIN ReservePairs \ {i} :
            \/ BeatsPair(ReservePairs[i], ReservePairs[j])
            \/ i < j /\ ~BeatsPair(ReservePairs[j], ReservePairs[i])
BestPair(a) == ReservePairs[IF a \in heavy THEN TopPair ELSE 1]

(* toLiquidationCandidate with firstReservePair, and the candidate of      *)
(* refreshBorrower.                                                        *)
Paged(a) == [hf |-> hfOf[a], reserves |-> ReservePairs[1].reserves]
ReadAgain(a) == [hf |-> hfOf[a], reserves |-> BestPair(a).reserves]

(* What an account that was read leaves: a page keeps those below 1,       *)
(* a rescan those below 1.05, an event those below 1.5.                    *)
ReadOf(kind, a) ==
    IF kind \in {"poll", "listing"}
    THEN IF hfOf[a] = "below" THEN <<[account |-> a, snapshot |-> Paged(a)]>> ELSE <<>>
    ELSE IF hfOf[a] # "safe" THEN <<[account |-> a, snapshot |-> ReadAgain(a)]>> ELSE <<>>

(* One account after another.                                              *)
ReadAccount(t, a) ==
    /\ a \in tasks[t].asks
    /\ tasks' = [tasks EXCEPT ![t].asks = @ \ {a}, ![t].read = @ \o ReadOf(tasks[t].kind, a)]
    /\ UNCHANGED <<chainVars, borrowerCache, lastBorrowerCursorId, rescans, breakers>>

(* The end of a page moves the cursor, of a poll and of a listing.         *)
CursorMoves(t) ==
    lastBorrowerCursorId' = IF tasks[t].kind \in {"poll", "listing"} THEN tasks[t].cursor
                            ELSE lastBorrowerCursorId

(* getBorrowersForReserve: of the listed accounts those whose pair has the *)
(* reserve, and listed accounts have the first pair.  They are read again. *)
ListingEnds(t) ==
    LET task == tasks[t]
        fitting == {read \in ToSet(task.read) : task.about \subseteq read.snapshot.reserves}
        listed == {read.account : read \in fitting}
    IN  /\ task.kind = "listing" /\ task.asks = {}
        /\ CursorMoves(t)
        /\ tasks' = [tasks EXCEPT ![t] = IF listed = {} THEN NoTask
                                         ELSE [NoTask EXCEPT !.kind = "event", !.asks = listed]]
        /\ UNCHANGED <<chainVars, borrowerCache, rescans, breakers>>

(* Everything was read: the snapshots go to the cache, late or not.        *)
TaskLands(t) ==
    /\ tasks[t].kind \in {"event", "poll", "rescan"} /\ tasks[t].asks = {}
    /\ CursorMoves(t)
    /\ borrowerCache' = UpsertedAll(borrowerCache, tasks[t].read)
    /\ tasks' = [tasks EXCEPT ![t] = NoTask]
    /\ rescans' = IF tasks[t].kind = "event" THEN rescans ELSE [rescans EXCEPT !.failures = 0]
    /\ UNCHANGED <<chainVars, breakers>>

(* execute(): a failure beyond the threshold is not reported, and only a   *)
(* poll reports to the pipeline's own breaker.                             *)
RescanFails(t) ==
    /\ tasks[t].kind \in {"poll", "rescan"}
    /\ tasks' = [tasks EXCEPT ![t] = NoTask]
    /\ rescans' = [failures |-> rescans.failures + 1,
                   cooling  |-> rescans.cooling \/ rescans.failures + 1 >= Threshold]
    /\ IF tasks[t].kind = "poll" /\ rescans.failures + 1 <= Threshold
       THEN RecordFailure("subgraph") ELSE UNCHANGED breakers
    /\ UNCHANGED <<chainVars, borrowerCache, lastBorrowerCursorId>>

EventFails(t) ==
    /\ tasks[t].kind \in {"event", "listing"}
    /\ tasks' = [tasks EXCEPT ![t] = NoTask]
    /\ RecordFailure("rpc")
    /\ UNCHANGED <<chainVars, borrowerCache, lastBorrowerCursorId, rescans>>

(* The cooldown timer of openCircuit.                                      *)
CooldownEnds ==
    /\ rescans.cooling
    /\ rescans' = [failures |-> 0, cooling |-> FALSE]
    /\ UNCHANGED <<chainVars, borrowerCache, lastBorrowerCursorId, tasks, breakers>>

TaskMoves(t) ==
    \/ TaskLands(t) \/ ListingEnds(t) \/ RescanFails(t) \/ EventFails(t)
    \/ \E a \in Accounts : ReadAccount(t, a)

DetectionNext ==
    \/ ListSnapshots \/ CooldownEnds
    \/ \E a \in Accounts :
        \/ SnapshotAges(a)
        \/ \E level \in Levels, heavyThen \in SUBSET Accounts : AccountShifts(a, level, heavyThen)
    \/ \E t \in Tasks : \/ PollFallbackStarts(t) \/ TaskMoves(t)
                        \/ \E lags \in BOOLEAN : RescanStarts(t, lags)
                        \/ \E r \in Reserves : ReserveUpdated(t, r)

DetectionSpec == DetectionInit /\ [][DetectionNext]_detectionVars

(* Requests settle, time passes, cycles run.                               *)
DetectionFairness ==
    /\ WF_detectionVars(ListSnapshots) /\ WF_detectionVars(CooldownEnds)
    /\ \A t \in Tasks : WF_detectionVars(TaskMoves(t))
    /\ \A a \in Accounts : WF_detectionVars(SnapshotAges(a))

-----------------------------------------------------------------------------
(* Properties *)

(* The index by reserve and the count say what the snapshots say, whatever *)
(* order snapshots come in, expire and are evicted in: an account left in  *)
(* the index of a reserve it no longer has would be read with every event  *)
(* of it for ever (reserveAwareBorrowerCache.ts:45-56,101-133).            *)
IndexMatches ==
    /\ \A r \in Reserves : borrowerCache.idx[r] = {a \in DOMAIN CachedSnapshots : r \in CachedSnapshots[a].reserves}
    /\ borrowerCache.n = Cardinality(DOMAIN CachedSnapshots)

(* A borrower that recovered leaves no new snapshot, and its last one is   *)
(* "below": it stops being a candidate all the same, even with answers in  *)
(* flight that were read before it recovered                               *)
(* (aaveSnapshotProvider.ts:86, reserveAwareBorrowerCache.ts:81-99).       *)
RecoveredIsDropped ==
    \A a \in Accounts : <>[](hfOf[a] # "below") => <>[](a \notin Candidates)
=============================================================================
