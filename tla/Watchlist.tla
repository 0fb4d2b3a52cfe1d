------------------------------ MODULE Watchlist ------------------------------
(***************************************************************************)
(* src/src/monitors/watchlistCoordinator.ts with the parts it owns: the    *)
(* bounded list of borrowers (boundedWatchlist.ts), the watcher of pool    *)
(* events with its cursor and gap replay (eventDrivenWatchlist.ts,         *)
(* blockCursor.ts), the sweeps of health factors (healthFactorSweep.ts)    *)
(* and the snapshots it hands to the cache of the detection pipeline       *)
(* (aaveSnapshotProvider.ts, index.ts).                                    *)
(*                                                                         *)
(* A health factor is "liquidatable" (below 1), "near" (below 1.05) or     *)
(* "safe" (above 1.15); every borrower has debt above the minimum.  A      *)
(* block has at most one pool event.  This is the mode without the         *)
(* event-purity stack, where the coordinator watches the pool itself.      *)
(* A definition D_Bug is a mutant of D.                                    *)
(***************************************************************************)
EXTENDS Integers, FiniteSets, Sequences, Functions

CONSTANTS
    Borrowers,
    PoolLog,       \* who the event of each block touches, or Nobody
    Allowlisted,   \* those of them that hold a reserve of the allowlist
    MaxListed,     \* maxSize of the list
    StaleBlocks,   \* staleBlocks of the list
    ReorgDepth,    \* reorgSafeDepth
    LowTierEvery,  \* lowTierEveryBlocks
    KeepAtLeast,   \* the size under which a prune is reverted, 100
    HasWss,        \* whether wsRpcUrlPrimary is set
    Sweepers,      \* bound: sweeps at one time
    Moves          \* bound: changes of a health factor

ASSUME WatchlistAssumption ==
    /\ Allowlisted \subseteq Borrowers /\ IsFiniteSet(Borrowers)
    /\ MaxListed \in Nat \ {0} /\ StaleBlocks \in Nat /\ ReorgDepth \in Nat
    /\ LowTierEvery \in Nat \ {0} /\ KeepAtLeast \in Nat
    /\ HasWss \in BOOLEAN /\ Moves \in Nat /\ PoolLog \in Seq(Borrowers \cup {"nobody"}) \ {<<>>}

VARIABLES
    head,       \* the chain: its last block
    health,     \* the chain: the health factor of each borrower
    moves,      \* how often one changed
    deferred,   \* skipColdStartFullSweep
    stage,      \* where start() is
    found,      \* withDebt of seedColdStart, and its block
    watchlist,  \* the list: a function on the listed borrowers
    cursor,     \* the block the cursor store holds
    replay,     \* the gap replay in flight
    wire,       \* blocks whose event the watcher got and has not handled
    pruning,    \* the prune in flight
    sweeps,     \* the sweeps in flight
    cache,      \* what the detection cache says of each borrower
    handled     \* history: blocks whose event went through handleLogs

watchVars == <<head, health, moves, deferred, stage, found, watchlist, cursor,
               replay, wire, pruning, sweeps, cache, handled>>
chainOnly == <<head, health, moves>>

Nobody == "nobody"
Healths == {"liquidatable", "near", "safe"}
NoReplay == [from |-> 0, next |-> 0, to |-> 0]
NoFind == [accounts |-> {}, block |-> 0]
NoPrune == [on |-> FALSE, accounts |-> {}]
NoSweep == [pc |-> "idle", targets |-> {}, answer |-> <<>>, cached |-> FALSE]
LastBlock == Len(PoolLog)
SafeHead == IF head > ReorgDepth THEN head - ReorgDepth ELSE 0
Listed == DOMAIN watchlist

WatchTypeOK ==
    /\ head \in 1 .. LastBlock
    /\ health \in [Borrowers -> Healths] /\ moves \in 0 .. Moves
    /\ deferred \in BOOLEAN
    /\ stage \in {"discover", "seed", "lookback", "prune", "pruning", "sweep", "sweeping",
                  "replay", "replaying", "on"}
    /\ found.accounts \subseteq Borrowers /\ found.block \in 0 .. LastBlock
    /\ Listed \subseteq Borrowers
    /\ \A a \in Listed : watchlist[a] \in [seen: 0 .. LastBlock, hf: Healths \cup {"unread"}]
    /\ cursor \in 0 .. LastBlock
    /\ replay \in [from: 0 .. LastBlock, next: 0 .. LastBlock + 1, to: 0 .. LastBlock]
    /\ wire \subseteq 1 .. LastBlock
    /\ pruning \in [on: BOOLEAN, accounts: SUBSET Borrowers]
    /\ \A s \in Sweepers : /\ sweeps[s].pc \in {"idle", "asked", "answered", "refresh"}
                           /\ sweeps[s].targets \subseteq Borrowers
    /\ cache \in [Borrowers -> Healths] /\ handled \subseteq 1 .. LastBlock

WatchInit ==
    /\ head = 1
    /\ health = [a \in Borrowers |-> "near"] /\ moves = 0
    /\ deferred \in BOOLEAN
    /\ stage = "discover" /\ found = NoFind
    /\ watchlist = <<>> /\ cursor = 0 /\ replay = NoReplay /\ wire = {}
    /\ pruning = NoPrune /\ sweeps = [s \in Sweepers |-> NoSweep]
    /\ cache = [a \in Borrowers |-> "safe"] /\ handled = {}

-----------------------------------------------------------------------------
(* BoundedWatchlist                                                        *)

EvictStale(list, b) == Restrict(list, {a \in DOMAIN list : b - list[a].seen <= StaleBlocks})

Room_OffByOne(list, b) == IF Cardinality(DOMAIN list) > MaxListed THEN EvictStale(list, b) ELSE list

(* What add() leaves before it sets the entry.                             *)
Room(list, b) == IF Cardinality(DOMAIN list) >= MaxListed THEN EvictStale(list, b) ELSE list

(* The entries set; one that was there keeps its health factor.            *)
Added(list, accounts, b) ==
    [x \in DOMAIN list \cup accounts |->
        IF x \notin accounts THEN list[x]
        ELSE [seen |-> b, hf |-> IF x \in DOMAIN list THEN list[x].hf ELSE "unread"]]

Listing(list, a, b) == Added(Room(list, b), {a}, b)

HasRoom(list, accounts) == Cardinality(DOMAIN list \cup accounts) < MaxListed

(* add() of several borrowers with one block, in any order: all of them    *)
(* find room, or what is stale goes when those before (early) have filled  *)
(* the list; nothing that is left then is stale for a later one.           *)
ListAll(list, accounts, b) ==
    LET fills(early) == /\ early # accounts /\ ~ HasRoom(list, early)
                        /\ early = {} \/ \E last \in early : HasRoom(list, early \ {last})
    IN  {Added(EvictStale(Added(list, early, b), b), accounts \ early, b) :
            early \in {e \in SUBSET accounts : fills(e)}}
        \cup (IF accounts = {} \/ \E last \in accounts : HasRoom(list, accounts \ {last})
              THEN {Added(list, accounts, b)} ELSE {})

WithHealth_Resurrects(list, answer) ==
    [a \in DOMAIN list \cup DOMAIN answer |->
        IF a \in DOMAIN answer
        THEN [seen |-> IF a \in DOMAIN list THEN list[a].seen ELSE 0, hf |-> answer[a]] ELSE list[a]]

(* updateHealthFactor of every answer: only for those still listed         *)
WithHealth(list, answer) ==
    [a \in DOMAIN list |-> IF a \in DOMAIN answer THEN [list[a] EXCEPT !.hf = answer[a]] ELSE list[a]]

-----------------------------------------------------------------------------
(* The chain *)

NewBlock ==
    /\ head < LastBlock
    /\ head' = head + 1
    /\ wire' = IF stage = "on" /\ PoolLog[head'] # Nobody THEN wire \cup {head'} ELSE wire
    /\ UNCHANGED <<health, moves, deferred, stage, found, watchlist, cursor, replay, pruning,
                   sweeps, cache, handled>>

HealthMoves(a, h) ==
    /\ moves < Moves /\ health[a] # h
    /\ health' = [health EXCEPT ![a] = h] /\ moves' = moves + 1
    /\ UNCHANGED <<head, deferred, stage, found, watchlist, cursor, replay, wire, pruning,
                   sweeps, cache, handled>>

-----------------------------------------------------------------------------
(* handleLogs, replayGap, fetchChunkWithBackoff                            *)

(* refreshActiveAccounts, and refreshPriorityAccounts: once started, an    *)
(* account is read again, and cached when it is below 1.05.                *)
Refreshed(a) ==
    cache' = IF stage = "on" /\ health[a] # "safe" THEN [cache EXCEPT ![a] = health[a]] ELSE cache

(* handleLogs for the event of block b: who is added, where the cursor     *)
(* goes.                                                                   *)
HandleLog(b) ==
    /\ watchlist' = Listing(watchlist, PoolLog[b], b)
    /\ cursor' = IF b <= SafeHead THEN b ELSE cursor
    /\ Refreshed(PoolLog[b])
    /\ handled' = handled \cup {b}

LiveLog(b) ==
    /\ b \in wire
    /\ wire' = wire \ {b}
    /\ HandleLog(b)
    /\ UNCHANGED <<chainOnly, deferred, stage, found, replay, pruning, sweeps>>

(* registerBorrowers without a block: from the pool events of the other    *)
(* source, and from the accelerated poller.                                *)
Register(a) ==
    /\ stage = "on"
    /\ watchlist' = Listing(watchlist, a, 0)
    /\ Refreshed(a)
    /\ UNCHANGED <<chainOnly, deferred, stage, found, cursor, replay, wire, pruning, sweeps, handled>>

(* replayGap: not while one is in flight, not from block 0.                *)
CanReplay(from) == replay = NoReplay /\ from > 0 /\ SafeHead > from
ReplayFrom(from) == replay' = IF CanReplay(from) THEN [from |-> from, next |-> from + 1, to |-> SafeHead]
                              ELSE replay

(* A watcher's error loses the event it was to deliver, and asks for a     *)
(* replay from the cursor.                                                 *)
WatcherFails(b) ==
    /\ b \in wire
    /\ wire' = wire \ {b}
    /\ ReplayFrom(cursor)
    /\ UNCHANGED <<chainOnly, deferred, stage, found, watchlist, cursor, pruning, sweeps, cache, handled>>

ReplayChunk_SkipsFailed ==
    /\ replay # NoReplay
    /\ replay' = IF replay.next = replay.to THEN NoReplay ELSE [replay EXCEPT !.next = @ + 1]
    /\ \/ PoolLog[replay.next] # Nobody /\ HandleLog(replay.next)
       \/ UNCHANGED <<watchlist, cursor, cache, handled>>
    /\ UNCHANGED <<chainOnly, deferred, stage, found, wire, pruning, sweeps>>

(* One chunk, here of one block; no log, no call of handleLogs.            *)
ReplayChunk ==
    /\ replay # NoReplay
    /\ replay' = IF replay.next = replay.to THEN NoReplay ELSE [replay EXCEPT !.next = @ + 1]
    /\ IF PoolLog[replay.next] # Nobody THEN HandleLog(replay.next)
       ELSE UNCHANGED <<watchlist, cursor, cache, handled>>
    /\ UNCHANGED <<chainOnly, deferred, stage, found, wire, pruning, sweeps>>

(* The last retry of a chunk fails: the rest of the gap is given up.       *)
ReplayFails ==
    /\ replay # NoReplay /\ stage # "replaying"
    /\ replay' = NoReplay
    /\ UNCHANGED <<chainOnly, deferred, stage, found, watchlist, cursor, wire, pruning, sweeps, cache, handled>>

-----------------------------------------------------------------------------
(* start(): seedColdStart, runColdStartFullSweep, EventDrivenWatchlist     *)

(* The borrowers of the logs, as far as their debt could be read; nothing  *)
(* at all when a request fails, and then no prune either.                  *)
Discover ==
    /\ stage = "discover"
    /\ \E accounts \in SUBSET ({PoolLog[b] : b \in 1 .. head} \ {Nobody}) :
        found' = [accounts |-> accounts, block |-> head]
    /\ stage' \in {"seed", "sweep"}
    /\ UNCHANGED <<chainOnly, deferred, watchlist, cursor, replay, wire, pruning, sweeps, cache, handled>>

(* Nothing found: the logs of the lookback are replayed, from block 1 on.  *)
Seed ==
    /\ stage = "seed"
    /\ watchlist' \in ListAll(watchlist, found.accounts, found.block)
    /\ stage' = IF Listed' = {} THEN "lookback" ELSE "prune"
    /\ replay' = IF Listed' = {} /\ SafeHead > 0 THEN [from |-> 0, next |-> 1, to |-> SafeHead] ELSE replay
    /\ UNCHANGED <<chainOnly, deferred, found, cursor, wire, pruning, sweeps, cache, handled>>

LookbackDone ==
    /\ stage = "lookback" /\ replay = NoReplay
    /\ stage' = IF Listed = {} THEN "sweep" ELSE "prune"
    /\ UNCHANGED <<chainOnly, deferred, found, watchlist, cursor, replay, wire, pruning, sweeps, cache, handled>>

StartPrune ==
    /\ stage = "prune"
    /\ pruning' = [on |-> TRUE, accounts |-> Listed]
    /\ stage' = IF deferred THEN "sweep" ELSE "pruning"
    /\ UNCHANGED <<chainOnly, deferred, found, watchlist, cursor, replay, wire, sweeps, cache, handled>>

(* pruneWatchlistByReserveAllowlist, then the revert of seedColdStart: the *)
(* accounts found come back when too few are left.                         *)
Prune ==
    /\ pruning.on
    /\ \E allowed \in SUBSET (pruning.accounts \cap Allowlisted) :
        LET kept == Restrict(watchlist, Listed \ (pruning.accounts \ allowed))
        IN  watchlist' \in IF /\ Cardinality(DOMAIN kept) < KeepAtLeast
                              /\ Cardinality(found.accounts) >= KeepAtLeast
                           THEN ListAll(kept, found.accounts, found.block)
                           ELSE {kept}
    /\ pruning' = NoPrune
    /\ stage' = IF stage = "pruning" THEN "sweep" ELSE stage
    /\ UNCHANGED <<chainOnly, deferred, found, cursor, replay, wire, sweeps, cache, handled>>

PruneFails ==
    /\ pruning.on
    /\ pruning' = NoPrune
    /\ stage' = IF stage = "pruning" THEN "sweep" ELSE stage
    /\ UNCHANGED <<chainOnly, deferred, found, watchlist, cursor, replay, wire, sweeps, cache, handled>>

Asked(s, targets, cached) ==
    /\ sweeps[s].pc = "idle"
    /\ sweeps' = IF targets = {} THEN sweeps
                 ELSE [sweeps EXCEPT ![s] = [pc |-> "asked", targets |-> targets,
                                             answer |-> <<>>, cached |-> cached]]

(* runColdStartFullSweep: every listed borrower; what it finds is logged   *)
(* and dropped.                                                            *)
ColdSweep(s) ==
    /\ stage = "sweep"
    /\ Asked(s, Listed, FALSE)
    /\ stage' = IF deferred THEN "replay" ELSE "sweeping"
    /\ UNCHANGED <<chainOnly, deferred, found, watchlist, cursor, replay, wire, pruning, cache, handled>>

ColdSweepDone ==
    /\ stage = "sweeping" /\ \A s \in Sweepers : sweeps[s].pc = "idle"
    /\ stage' = "replay"
    /\ UNCHANGED <<chainOnly, deferred, found, watchlist, cursor, replay, wire, pruning, sweeps, cache, handled>>

(* EventDrivenWatchlist.start: replay from the cursor, then watch.         *)
LoadCursor ==
    /\ stage = "replay"
    /\ ReplayFrom(cursor)
    /\ stage' = "replaying"
    /\ UNCHANGED <<chainOnly, deferred, found, watchlist, cursor, wire, pruning, sweeps, cache, handled>>

Watch ==
    /\ stage = "replaying" /\ replay = NoReplay
    /\ stage' = "on"
    /\ UNCHANGED <<chainOnly, deferred, found, watchlist, cursor, replay, wire, pruning, sweeps, cache, handled>>

-----------------------------------------------------------------------------
(* Sweeps *)

Targets_ReadOnly ==
    {a \in Listed : watchlist[a].hf \in {"near", "liquidatable"} \/ head % LowTierEvery = 0}

(* filterAddressesForSweep                                                 *)
Targets == {a \in Listed : watchlist[a].hf # "safe" \/ head % LowTierEvery = 0}

(* The safety timer of start() calls pollBorrowers, which does not look at *)
(* sweepInFlight, and drops what it returns.                               *)
TimerSweep(s) ==
    /\ stage = "on"
    /\ Asked(s, Targets, FALSE)
    /\ UNCHANGED <<chainOnly, deferred, stage, found, watchlist, cursor, replay, wire, pruning, cache, handled>>

(* index.ts: only without a primary socket does each cycle sweep and cache *)
(* what it finds.                                                          *)
CycleSweep(s) ==
    /\ stage = "on" /\ ~HasWss
    /\ Asked(s, Targets, TRUE)
    /\ UNCHANGED <<chainOnly, deferred, stage, found, watchlist, cursor, replay, wire, pruning, cache, handled>>

(* The node answers some of the reads, with what is true at that time.     *)
NodeAnswers(s) ==
    /\ sweeps[s].pc = "asked"
    /\ sweeps' = [sweeps EXCEPT ![s].pc = "answered", ![s].answer = Restrict(health, sweeps[s].targets)]
    /\ UNCHANGED <<chainOnly, deferred, stage, found, watchlist, cursor, replay, wire, pruning, cache, handled>>

(* readHealthFactors records every answer; sweepHealthFactors keeps those  *)
(* below 1.                                                                *)
SweepLands(s) ==
    /\ sweeps[s].pc = "answered"
    /\ watchlist' = WithHealth(watchlist, sweeps[s].answer)
    /\ LET below == {a \in sweeps[s].targets : sweeps[s].answer[a] = "liquidatable"}
       IN  sweeps' = [sweeps EXCEPT ![s] =
                        IF below = {} THEN NoSweep
                        ELSE [@ EXCEPT !.pc = "refresh", !.targets = below, !.answer = <<>>]]
    /\ UNCHANGED <<chainOnly, deferred, stage, found, cursor, replay, wire, pruning, cache, handled>>

(* refreshBorrowers reads each of them again: a snapshot if still below 1, *)
(* which a caller that keeps them puts into the cache.                     *)
SweepCaches(s) ==
    /\ sweeps[s].pc = "refresh"
    /\ cache' = [a \in Borrowers |->
                    IF sweeps[s].cached /\ a \in sweeps[s].targets /\ health[a] = "liquidatable"
                    THEN "liquidatable" ELSE cache[a]]
    /\ sweeps' = [sweeps EXCEPT ![s] = NoSweep]
    /\ UNCHANGED <<chainOnly, deferred, stage, found, watchlist, cursor, replay, wire, pruning, handled>>

SweepFails(s) ==
    /\ sweeps[s].pc # "idle" /\ stage # "sweeping"
    /\ sweeps' = [sweeps EXCEPT ![s] = NoSweep]
    /\ UNCHANGED <<chainOnly, deferred, stage, found, watchlist, cursor, replay, wire, pruning, cache, handled>>

SweepMoves(s) == NodeAnswers(s) \/ SweepLands(s) \/ SweepCaches(s) \/ SweepFails(s)

WatchNext ==
    \/ NewBlock
    \/ \E a \in Borrowers, h \in Healths : HealthMoves(a, h)
    \/ \E b \in wire : LiveLog(b) \/ WatcherFails(b)
    \/ \E a \in Borrowers : Register(a)
    \/ ReplayChunk \/ ReplayFails
    \/ Discover \/ Seed \/ LookbackDone \/ StartPrune \/ Prune \/ PruneFails
    \/ ColdSweepDone \/ LoadCursor \/ Watch
    \/ \E s \in Sweepers : ColdSweep(s) \/ TimerSweep(s) \/ CycleSweep(s) \/ SweepMoves(s)

WatchSpec == WatchInit /\ [][WatchNext]_watchVars

-----------------------------------------------------------------------------
(* Properties *)

(* A replay leaves no event behind it: eventDrivenWatchlist.ts:109-115,    *)
(* next to live events and lookbacks that write the same list.             *)
ReplayCovers ==
    replay # NoReplay =>
        \A b \in replay.from + 1 .. replay.next - 1 : PoolLog[b] = Nobody \/ b \in handled

(* A borrower enters the list unread, so that the next sweep reads it: an  *)
(* answer that lands after its borrower was evicted, pruned or listed again*)
(* does not bring it back with the health factor of then                   *)
(* (boundedWatchlist.ts:31, watchlistCoordinator.ts:240).                  *)
NewEntriesUnread == [][\A a \in Listed' \ Listed : watchlist'[a].hf = "unread"]_watchVars

(* The list outgrows its limit only by borrowers that are all recent when  *)
(* the new one comes (boundedWatchlist.ts:19): nothing stale is kept over  *)
(* the limit.                                                              *)
OverfullIsRecent ==
    [][Cardinality(Listed') > MaxListed =>
        \A a \in Listed' \ Listed, x \in Listed' :
            watchlist'[a].seen - watchlist'[x].seen <= StaleBlocks]_watchVars
=============================================================================
