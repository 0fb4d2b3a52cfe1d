-------------------------- MODULE MCMonitorsProofs --------------------------
(***************************************************************************)
(* Proofs about MCMonitors, the composition, for every value of the        *)
(* constants: in the last section, that each of its parts keeps the        *)
(* specification of its component.  The sections before it complete the    *)
(* theorems about the components that it stands on, one section each: the  *)
(* types, with the bounds, of Watchlist, Bootstrap and ArbScan, on top of  *)
(* the invariants of MonitorsProofs, and all about WsTransport, Shadow and *)
(* PegPrices.                                                              *)
(***************************************************************************)
EXTENDS MCMonitors, MonitorsProofs, ProfitabilityProofs

-----------------------------------------------------------------------------
(* Watchlist: blocks are those of the chain, borrowers those of its events,*)
(* and an answer of the node is what it said of the accounts asked for.    *)
EntryRecs == [seen: 0 .. LastBlock, hf: Healths \cup {"unread"}]
Entries(list) == DOMAIN list \subseteq Borrowers /\ \A a \in DOMAIN list : list[a] \in EntryRecs

SweepOK(r) ==
    /\ DOMAIN r = {"pc", "targets", "answer", "cached"}
    /\ r.pc \in {"idle", "asked", "answered", "refresh"} /\ r.targets \subseteq Borrowers
    /\ \A a \in DOMAIN r.answer : r.answer[a] \in Healths

ReplayOK(r) ==
    r # NoReplay => r \in [from: 0 .. LastBlock, next: 1 .. LastBlock, to: 1 .. LastBlock] /\ r.next <= r.to

ChainTyped ==
    /\ head \in 1 .. LastBlock /\ health \in [Borrowers -> Healths] /\ moves \in 0 .. Moves
    /\ deferred \in BOOLEAN
ListTyped == Entries(watchlist)
StartTyped ==
    /\ stage \in {"discover", "seed", "lookback", "prune", "pruning", "sweep", "sweeping",
                  "replay", "replaying", "on"}
    /\ found.accounts \subseteq Borrowers /\ found.block \in 0 .. LastBlock
    /\ pruning \in [on: BOOLEAN, accounts: SUBSET Borrowers]
LogsTyped ==
    /\ cursor \in 0 .. LastBlock /\ ReplayOK(replay)
    /\ wire \subseteq {b \in 1 .. LastBlock : PoolLog[b] # Nobody} /\ handled \subseteq 1 .. LastBlock
SweepsTyped ==
    /\ DOMAIN sweeps = Sweepers /\ \A s \in Sweepers : SweepOK(sweeps[s])
CacheTyped == cache \in [Borrowers -> Healths]

WatchTyped == ChainTyped /\ ListTyped /\ StartTyped /\ LogsTyped /\ SweepsTyped /\ CacheTyped

LEMMA BlocksTyped ==
    /\ LastBlock \in Nat \ {0} /\ ReorgDepth \in Nat
    /\ \A b \in 1 .. LastBlock : PoolLog[b] \in Borrowers \cup {Nobody}
<1>1. PoolLog \in Seq(Borrowers \cup {"nobody"}) /\ PoolLog # <<>> /\ ReorgDepth \in Nat
  BY WatchlistAssumption
<1>2. Len(PoolLog) \in Nat /\ Len(PoolLog) # 0
  BY <1>1, EmptySeq, LenProperties
<1>3. \A b \in 1 .. Len(PoolLog) : PoolLog[b] \in Borrowers \cup {"nobody"}
  BY <1>1, ElementOfSeq
<1> QED BY <1>1, <1>2, <1>3 DEF LastBlock, Nobody

LEMMA SafeHeadTyped == ChainTyped => SafeHead \in 0 .. LastBlock
BY BlocksTyped DEF ChainTyped, SafeHead

LEMMA AddedTyped ==
    ASSUME NEW list, Entries(list), NEW accounts \in SUBSET Borrowers, NEW b \in 0 .. LastBlock
    PROVE  Entries(Added(list, accounts, b))
<1> DEFINE new == Added(list, accounts, b)
<1>1. /\ DOMAIN new = DOMAIN list \cup accounts
      /\ \A a \in DOMAIN list \cup accounts :
            new[a] = IF a \notin accounts THEN list[a]
                     ELSE [seen |-> b, hf |-> IF a \in DOMAIN list THEN list[a].hf ELSE "unread"]
  BY DEF Added
<1> HIDE DEF new
<1>2. \A a \in DOMAIN list : list[a].hf \in Healths \cup {"unread"}
  BY DEF Entries, EntryRecs
<1>3. ASSUME NEW a \in accounts PROVE new[a] \in EntryRecs
  <2> DEFINE h == IF a \in DOMAIN list THEN list[a].hf ELSE "unread"
  <2>1. h \in Healths \cup {"unread"} /\ new[a] = [seen |-> b, hf |-> h]
    BY <1>1, <1>2, <1>3
  <2> HIDE DEF h
  <2> QED BY <2>1 DEF EntryRecs
<1>4. ASSUME NEW a \in DOMAIN list \ accounts PROVE new[a] \in EntryRecs
  BY <1>1 DEF Entries
<1> QED BY <1>1, <1>3, <1>4 DEF Entries, new

LEMMA FewerTyped ==
    ASSUME NEW list, Entries(list), NEW S, S \subseteq DOMAIN list
    PROVE  Entries(Restrict(list, S))
BY DEF Entries, Restrict

LEMMA EvictedTyped ==
    ASSUME NEW list, Entries(list), NEW b
    PROVE  Entries(EvictStale(list, b))
BY FewerTyped DEF EvictStale

LEMMA ListingTyped ==
    ASSUME NEW list, Entries(list), NEW a \in Borrowers, NEW b \in 0 .. LastBlock
    PROVE  Entries(Listing(list, a, b))
<1>1. Entries(Room(list, b))
  BY EvictedTyped DEF Room
<1> QED BY <1>1, AddedTyped DEF Listing

LEMMA ListAllTyped ==
    ASSUME NEW list, Entries(list), NEW accounts \in SUBSET Borrowers, NEW b \in 0 .. LastBlock,
           NEW new \in ListAll(list, accounts, b)
    PROVE  Entries(new)
<1>1. CASE new = Added(list, accounts, b)
  BY <1>1, AddedTyped
<1>2. ASSUME NEW early \in SUBSET accounts,
             new = Added(EvictStale(Added(list, early, b), b), accounts \ early, b)
      PROVE  Entries(new)
  <2>1. Entries(Added(list, early, b))
    BY AddedTyped
  <2>2. Entries(EvictStale(Added(list, early, b), b))
    BY <2>1, EvictedTyped
  <2> QED BY <1>2, <2>2, AddedTyped
<1> QED BY <1>1, <1>2 DEF ListAll

LEMMA WithHealthTyped ==
    ASSUME NEW list, Entries(list), NEW answer, \A a \in DOMAIN answer : answer[a] \in Healths
    PROVE  Entries(WithHealth(list, answer))
<1> DEFINE new == WithHealth(list, answer)
<1>1. /\ DOMAIN new = DOMAIN list
      /\ \A a \in DOMAIN list :
            new[a] = IF a \in DOMAIN answer THEN [list[a] EXCEPT !.hf = answer[a]] ELSE list[a]
  BY DEF WithHealth
<1> HIDE DEF new
<1>2. ASSUME NEW a \in DOMAIN list PROVE new[a] \in EntryRecs
  <2>1. list[a] \in EntryRecs
    BY DEF Entries
  <2>2. CASE a \in DOMAIN answer
    BY <1>1, <2>1, <2>2 DEF EntryRecs
  <2> QED BY <1>1, <2>1, <2>2
<1> QED BY <1>1, <1>2 DEF Entries, new

LEMMA NoSweepTyped == SweepOK(NoSweep)
<1>1. DOMAIN NoSweep.answer = {}
  BY DEF NoSweep
<1> QED BY <1>1 DEF SweepOK, NoSweep

(* Only sweep s moves.                                                     *)
LEMMA SweepMovesTyped ==
    ASSUME SweepsTyped, NEW s \in Sweepers, NEW r, SweepOK(r), sweeps' = [sweeps EXCEPT ![s] = r]
    PROVE  SweepsTyped'
BY DEF SweepsTyped

LEMMA WatchInitTyped == WatchInit => WatchTyped
<1> SUFFICES ASSUME WatchInit PROVE WatchTyped
  OBVIOUS
<1>1. 0 \in 0 .. LastBlock /\ 1 \in 1 .. LastBlock /\ 0 \in 0 .. Moves
  BY BlocksTyped, WatchlistAssumption
<1>2. ChainTyped /\ CacheTyped
  BY <1>1 DEF WatchInit, ChainTyped, CacheTyped, Healths
<1>3. ListTyped
  <2>1. DOMAIN watchlist = {}
    BY DEF WatchInit
  <2> QED BY <2>1 DEF ListTyped, Entries
<1>4. StartTyped /\ LogsTyped
  BY <1>1 DEF WatchInit, StartTyped, LogsTyped, NoFind, NoPrune, ReplayOK
<1>5. SweepsTyped
  BY NoSweepTyped DEF WatchInit, SweepsTyped
<1> QED BY <1>2, <1>3, <1>4, <1>5 DEF WatchTyped

LEMMA RefreshedTyped ==
    ASSUME ChainTyped, CacheTyped, NEW a \in Borrowers, Refreshed(a)
    PROVE  CacheTyped'
<1>1. health[a] \in Healths /\ cache \in [Borrowers -> Healths]
  BY DEF ChainTyped, CacheTyped
<1>2. cache' = cache \/ cache' = [cache EXCEPT ![a] = health[a]]
  BY DEF Refreshed
<1> QED BY <1>1, <1>2 DEF CacheTyped

LEMMA HandleLogTyped ==
    ASSUME WatchTyped, NEW b \in 1 .. LastBlock, PoolLog[b] # Nobody, HandleLog(b)
    PROVE  /\ ListTyped' /\ CacheTyped' /\ cursor' \in 0 .. LastBlock /\ handled' \subseteq 1 .. LastBlock
<1>1. PoolLog[b] \in Borrowers /\ b \in 0 .. LastBlock
  BY BlocksTyped
<1>2. ListTyped'
  <2>1. Entries(watchlist)
    BY DEF WatchTyped, ListTyped
  <2>2. watchlist' = Listing(watchlist, PoolLog[b], b)
    BY DEF HandleLog
  <2> QED BY <1>1, <2>1, <2>2, ListingTyped DEF ListTyped
<1>3. CacheTyped'
  BY <1>1, RefreshedTyped DEF WatchTyped, HandleLog
<1> QED BY <1>1, <1>2, <1>3 DEF WatchTyped, LogsTyped, HandleLog

LEMMA ReplayFromTyped ==
    ASSUME WatchTyped, ReplayFrom(cursor)
    PROVE  ReplayOK(replay')
<1>1. SafeHead \in 0 .. LastBlock /\ cursor \in 0 .. LastBlock /\ LastBlock \in Nat
  BY SafeHeadTyped, BlocksTyped DEF WatchTyped, LogsTyped
<1>2. CASE replay' = replay
  BY <1>2 DEF WatchTyped, LogsTyped
<1>3. CASE SafeHead > cursor /\ replay' = [from |-> cursor, next |-> cursor + 1, to |-> SafeHead]
  BY <1>1, <1>3 DEF ReplayOK
<1> QED BY <1>2, <1>3 DEF ReplayFrom, CanReplay

LEMMA ReplayChunkTyped == ASSUME WatchTyped, ReplayChunk PROVE WatchTyped'
<1>1. /\ replay \in [from: 0 .. LastBlock, next: 1 .. LastBlock, to: 1 .. LastBlock]
      /\ replay.next <= replay.to /\ LastBlock \in Nat
  BY BlocksTyped DEF WatchTyped, LogsTyped, ReplayOK, ReplayChunk
<1>2. ReplayOK(replay')
  <2>1. CASE replay' = NoReplay
    BY <2>1 DEF ReplayOK
  <2>2. CASE replay.next # replay.to /\ replay' = [replay EXCEPT !.next = replay.next + 1]
    BY <1>1, <2>2 DEF ReplayOK
  <2> QED BY <2>1, <2>2 DEF ReplayChunk
<1>3. /\ ListTyped' /\ CacheTyped' /\ cursor' \in 0 .. LastBlock /\ handled' \subseteq 1 .. LastBlock
  <2>1. CASE PoolLog[replay.next] # Nobody
    BY <1>1, <2>1, HandleLogTyped DEF ReplayChunk
  <2>2. CASE UNCHANGED <<watchlist, cursor, cache, handled>>
    BY <2>2 DEF WatchTyped, ListTyped, CacheTyped, LogsTyped
  <2> QED BY <2>1, <2>2 DEF ReplayChunk
<1>4. UNCHANGED <<head, health, moves, deferred, stage, found, wire, pruning, sweeps>>
  BY DEF ReplayChunk, chainOnly
<1> QED BY <1>2, <1>3, <1>4
        DEF WatchTyped, ChainTyped, StartTyped, SweepsTyped, LogsTyped, LastBlock

LEMMA SeedTyped == ASSUME WatchTyped, Seed PROVE WatchTyped'
<1>1. found.accounts \in SUBSET Borrowers /\ found.block \in 0 .. LastBlock /\ Entries(watchlist)
  BY DEF WatchTyped, StartTyped, ListTyped
<1>2. ListTyped'
  BY <1>1, ListAllTyped DEF Seed, ListTyped
<1>3. ReplayOK(replay')
  <2>1. SafeHead \in 0 .. LastBlock /\ LastBlock \in Nat
    BY SafeHeadTyped, BlocksTyped DEF WatchTyped
  <2>2. CASE replay' = replay
    BY <2>2 DEF WatchTyped, LogsTyped
  <2>3. CASE SafeHead > 0 /\ replay' = [from |-> 0, next |-> 1, to |-> SafeHead]
    BY <2>1, <2>3 DEF ReplayOK
  <2> QED BY <2>2, <2>3 DEF Seed
<1>4. stage' \in {"lookback", "prune"}
  BY DEF Seed
<1>5. UNCHANGED <<head, health, moves, deferred, found, cursor, wire, pruning, sweeps, cache, handled>>
  BY DEF Seed, chainOnly
<1> QED BY <1>2, <1>3, <1>4, <1>5
        DEF WatchTyped, ChainTyped, StartTyped, SweepsTyped, LogsTyped, CacheTyped, LastBlock

LEMMA PruneTyped == ASSUME WatchTyped, Prune PROVE WatchTyped'
<1>1. found.accounts \in SUBSET Borrowers /\ found.block \in 0 .. LastBlock /\ Entries(watchlist)
  BY DEF WatchTyped, StartTyped, ListTyped
<1>2. PICK allowed :
        LET kept == Restrict(watchlist, Listed \ (pruning.accounts \ allowed))
        IN  watchlist' = kept \/ watchlist' \in ListAll(kept, found.accounts, found.block)
  BY DEF Prune
<1>3. ListTyped'
  <2> DEFINE kept == Restrict(watchlist, Listed \ (pruning.accounts \ allowed))
  <2>1. Entries(kept)
    BY <1>1, FewerTyped DEF Listed
  <2>2. watchlist' = kept \/ watchlist' \in ListAll(kept, found.accounts, found.block)
    BY <1>2
  <2> HIDE DEF kept
  <2> QED BY <1>1, <2>1, <2>2, ListAllTyped DEF ListTyped
<1>4. pruning' = NoPrune /\ stage' \in {"sweep", stage}
  BY DEF Prune
<1>5. UNCHANGED <<head, health, moves, deferred, found, cursor, replay, wire, sweeps, cache, handled>>
  BY DEF Prune, chainOnly
<1> QED BY <1>3, <1>4, <1>5
        DEF WatchTyped, ChainTyped, StartTyped, SweepsTyped, LogsTyped, CacheTyped, LastBlock, NoPrune

LEMMA AskedTyped ==
    ASSUME SweepsTyped, NEW s \in Sweepers, NEW targets \in SUBSET Borrowers, NEW cached,
           Asked(s, targets, cached)
    PROVE  SweepsTyped'
<1>1. CASE sweeps' = sweeps
  BY <1>1 DEF SweepsTyped
<1>2. CASE sweeps' = [sweeps EXCEPT ![s] = [pc |-> "asked", targets |-> targets,
                                            answer |-> <<>>, cached |-> cached]]
  <2> DEFINE r == [pc |-> "asked", targets |-> targets, answer |-> <<>>, cached |-> cached]
  <2>1. DOMAIN r.answer = {}
    OBVIOUS
  <2>2. SweepOK(r)
    BY <2>1 DEF SweepOK
  <2> HIDE DEF r
  <2> QED BY <1>2, <2>2, SweepMovesTyped DEF r
<1> QED BY <1>1, <1>2 DEF Asked

LEMMA SweepStepTyped ==
    ASSUME WatchTyped, NEW s \in Sweepers, SweepMoves(s)
    PROVE  SweepsTyped' /\ ListTyped' /\ CacheTyped'
<1>1. SweepsTyped /\ SweepOK(sweeps[s]) /\ health \in [Borrowers -> Healths] /\ CacheTyped /\ ListTyped
  BY DEF WatchTyped, SweepsTyped, ChainTyped
<1>2. CASE NodeAnswers(s)
  <2> DEFINE answer == Restrict(health, sweeps[s].targets)
             r == [sweeps[s] EXCEPT !.pc = "answered", !.answer = answer]
  <2>1. sweeps' = [sweeps EXCEPT ![s] = r]
    BY <1>2 DEF NodeAnswers
  <2>2. \A a \in DOMAIN answer : answer[a] \in Healths
    BY <1>1 DEF Restrict, SweepOK
  <2> HIDE DEF answer
  <2>3. SweepOK(r)
    BY <1>1, <2>2 DEF SweepOK
  <2> HIDE DEF r
  <2>4. SweepsTyped'
    BY <1>1, <2>1, <2>3, SweepMovesTyped
  <2> QED BY <1>1, <1>2, <2>4 DEF NodeAnswers, ListTyped, CacheTyped
<1>3. CASE SweepLands(s)
  <2> DEFINE below == {a \in sweeps[s].targets : sweeps[s].answer[a] = "liquidatable"}
             r == [sweeps[s] EXCEPT !.pc = "refresh", !.targets = below, !.answer = <<>>]
  <2>1. sweeps' = [sweeps EXCEPT ![s] = IF below = {} THEN NoSweep ELSE r]
    BY <1>3 DEF SweepLands
  <2>2. below \subseteq Borrowers
    BY <1>1 DEF SweepOK
  <2> HIDE DEF below
  <2>3. SweepOK(r)
    <3>1. DOMAIN r.answer = {}
      BY <1>1 DEF SweepOK
    <3> QED BY <1>1, <2>2, <3>1 DEF SweepOK
  <2> HIDE DEF r
  <2>4. SweepsTyped'
    BY <1>1, <2>1, <2>3, NoSweepTyped, SweepMovesTyped
  <2>5. ListTyped'
    BY <1>1, <1>3, WithHealthTyped DEF SweepLands, ListTyped, SweepOK
  <2> QED BY <1>1, <1>3, <2>4, <2>5 DEF SweepLands, CacheTyped
<1>4. CASE SweepCaches(s)
  <2>1. SweepsTyped'
    BY <1>1, <1>4, NoSweepTyped, SweepMovesTyped DEF SweepCaches
  <2>2. CacheTyped'
    BY <1>1, <1>4 DEF SweepCaches, CacheTyped, Healths
  <2> QED BY <1>1, <1>4, <2>1, <2>2 DEF SweepCaches, ListTyped
<1>5. CASE SweepFails(s)
  <2>1. SweepsTyped'
    BY <1>1, <1>5, NoSweepTyped, SweepMovesTyped DEF SweepFails
  <2> QED BY <1>1, <1>5, <2>1 DEF SweepFails, ListTyped, CacheTyped
<1> QED BY <1>2, <1>3, <1>4, <1>5 DEF SweepMoves

LEMMA WatchStepTyped == ASSUME WatchTyped, [WatchNext]_watchVars PROVE WatchTyped'
<1>t. ChainTyped /\ ListTyped /\ StartTyped /\ LogsTyped /\ SweepsTyped /\ CacheTyped
  BY DEF WatchTyped
<1> DEFINE Moved == /\ UNCHANGED <<head, health, moves, deferred>>
                    /\ ListTyped' /\ StartTyped' /\ LogsTyped' /\ SweepsTyped' /\ CacheTyped'
<1>m. ASSUME Moved PROVE WatchTyped'
  BY <1>t, <1>m DEF WatchTyped, ChainTyped, LastBlock
<1>2. CASE UNCHANGED watchVars
  BY <1>2, <1>t DEF watchVars, WatchTyped, ChainTyped, ListTyped, StartTyped, LogsTyped, SweepsTyped,
                    CacheTyped, LastBlock
<1>3. CASE NewBlock
  <2>1. head' \in 1 .. LastBlock /\ head' = head + 1
    BY <1>t, <1>3, BlocksTyped DEF NewBlock, ChainTyped
  <2>2. wire' = wire \/ (PoolLog[head'] # Nobody /\ wire' = wire \cup {head'})
    BY <1>3 DEF NewBlock
  <2>3. UNCHANGED <<health, moves, deferred, stage, found, watchlist, cursor, replay, pruning, sweeps,
                    cache, handled>>
    BY <1>3 DEF NewBlock
  <2>4. LogsTyped'
    BY <1>t, <2>1, <2>2, <2>3 DEF LogsTyped, LastBlock
  <2> QED BY <1>t, <2>1, <2>3, <2>4
          DEF WatchTyped, ChainTyped, ListTyped, StartTyped, SweepsTyped, CacheTyped, LastBlock
<1>4. ASSUME NEW a \in Borrowers, NEW h \in Healths, HealthMoves(a, h) PROVE WatchTyped'
  <2>1. ChainTyped'
    BY <1>t, <1>4, WatchlistAssumption DEF HealthMoves, ChainTyped, LastBlock
  <2>2. UNCHANGED <<deferred, stage, found, watchlist, cursor, replay, wire, pruning, sweeps, cache, handled>>
    BY <1>4 DEF HealthMoves
  <2> QED BY <1>t, <2>1, <2>2
          DEF WatchTyped, ListTyped, StartTyped, LogsTyped, SweepsTyped, CacheTyped, LastBlock
<1>5. ASSUME NEW b \in wire, LiveLog(b) PROVE WatchTyped'
  <2>1. b \in 1 .. LastBlock /\ PoolLog[b] # Nobody /\ HandleLog(b)
    BY <1>t, <1>5 DEF LiveLog, LogsTyped
  <2>2. ListTyped' /\ CacheTyped' /\ cursor' \in 0 .. LastBlock /\ handled' \subseteq 1 .. LastBlock
    BY <2>1, HandleLogTyped
  <2>3. UNCHANGED <<head, health, moves, deferred, stage, found, replay, pruning, sweeps>> /\ wire' \subseteq wire
    BY <1>5 DEF LiveLog, chainOnly
  <2> QED BY <1>t, <1>m, <2>2, <2>3 DEF StartTyped, LogsTyped, SweepsTyped, LastBlock
<1>6. ASSUME NEW b \in wire, WatcherFails(b) PROVE WatchTyped'
  <2>1. ReplayOK(replay')
    BY <1>6, ReplayFromTyped DEF WatcherFails
  <2>2. /\ UNCHANGED <<head, health, moves, deferred, stage, found, watchlist, cursor, pruning, sweeps,
                       cache, handled>>
        /\ wire' \subseteq wire
    BY <1>6 DEF WatcherFails, chainOnly
  <2> QED BY <1>t, <1>m, <2>1, <2>2 DEF ListTyped, StartTyped, LogsTyped, SweepsTyped, CacheTyped, LastBlock
<1>7. ASSUME NEW a \in Borrowers, Register(a) PROVE WatchTyped'
  <2>1. ListTyped'
    BY <1>t, <1>7, BlocksTyped, ListingTyped DEF Register, ListTyped
  <2>2. CacheTyped'
    BY <1>t, <1>7, RefreshedTyped DEF Register
  <2>3. UNCHANGED <<head, health, moves, deferred, stage, found, cursor, replay, wire, pruning, sweeps, handled>>
    BY <1>7 DEF Register, chainOnly
  <2> QED BY <1>t, <1>m, <2>1, <2>2, <2>3 DEF StartTyped, LogsTyped, SweepsTyped, LastBlock
<1>8. CASE ReplayFails \/ LoadCursor
  <2>1. ReplayOK(replay')
    BY <1>8, ReplayFromTyped DEF ReplayFails, LoadCursor, ReplayOK
  <2>2. /\ UNCHANGED <<head, health, moves, deferred, found, watchlist, cursor, wire, pruning, sweeps,
                       cache, handled>>
        /\ stage' \in {stage, "replaying"}
    BY <1>8 DEF ReplayFails, LoadCursor, chainOnly
  <2> QED BY <1>t, <1>m, <2>1, <2>2 DEF ListTyped, StartTyped, LogsTyped, SweepsTyped, CacheTyped, LastBlock
<1>9. CASE Discover
  <2>1. PICK accounts \in SUBSET ({PoolLog[b] : b \in 1 .. head} \ {Nobody}) :
          found' = [accounts |-> accounts, block |-> head]
    BY <1>9 DEF Discover
  <2>2. accounts \subseteq Borrowers /\ head \in 0 .. LastBlock
    BY <1>t, BlocksTyped DEF ChainTyped
  <2>3. found'.accounts \subseteq Borrowers /\ found'.block \in 0 .. LastBlock /\ stage' \in {"seed", "sweep"}
    BY <1>9, <2>1, <2>2 DEF Discover
  <2>4. UNCHANGED <<head, health, moves, deferred, watchlist, cursor, replay, wire, pruning, sweeps,
                    cache, handled>>
    BY <1>9 DEF Discover, chainOnly
  <2> QED BY <1>t, <1>m, <2>3, <2>4 DEF ListTyped, StartTyped, LogsTyped, SweepsTyped, CacheTyped, LastBlock
<1>10. CASE LookbackDone \/ StartPrune \/ PruneFails \/ ColdSweepDone \/ Watch
  <2> DEFINE Kept == UNCHANGED <<head, health, moves, deferred, found, watchlist, cursor, replay, wire,
                                 sweeps, cache, handled>>
             Later == stage' \in {stage, "sweep", "prune", "pruning", "replay", "on"}
             Prunes == pruning' \in {pruning, NoPrune, [on |-> TRUE, accounts |-> Listed]}
  <2>1. Kept /\ Later /\ Prunes
    <3>1. CASE LookbackDone
      BY <3>1 DEF LookbackDone, chainOnly
    <3>2. CASE StartPrune
      BY <3>2 DEF StartPrune, chainOnly
    <3>3. CASE PruneFails
      BY <3>3 DEF PruneFails, chainOnly
    <3>4. CASE ColdSweepDone
      BY <3>4 DEF ColdSweepDone, chainOnly
    <3>5. CASE Watch
      BY <3>5 DEF Watch, chainOnly
    <3> QED BY <1>10, <3>1, <3>2, <3>3, <3>4, <3>5
  <2>2. pruning' \in [on: BOOLEAN, accounts: SUBSET Borrowers]
    <3>1. Listed \in SUBSET Borrowers
      BY <1>t DEF Listed, ListTyped, Entries
    <3>2. NoPrune \in [on: BOOLEAN, accounts: SUBSET Borrowers]
      BY DEF NoPrune
    <3>3. [on |-> TRUE, accounts |-> Listed] \in [on: BOOLEAN, accounts: SUBSET Borrowers]
      BY <3>1
    <3>4. pruning \in [on: BOOLEAN, accounts: SUBSET Borrowers]
      BY <1>t DEF StartTyped
    <3> QED BY ONLY <2>1, <3>2, <3>3, <3>4
  <2>3. stage' \in {"discover", "seed", "lookback", "prune", "pruning", "sweep", "sweeping",
                    "replay", "replaying", "on"}
    BY <1>t, <2>1 DEF StartTyped
  <2>4. StartTyped'
    BY <1>t, <2>1, <2>2, <2>3 DEF StartTyped
  <2> QED BY <1>t, <1>m, <2>1, <2>4 DEF ListTyped, LogsTyped, SweepsTyped, CacheTyped, LastBlock
<1>11. ASSUME NEW s \in Sweepers, ColdSweep(s) \/ TimerSweep(s) \/ CycleSweep(s) PROVE WatchTyped'
  <2>1. Listed \in SUBSET Borrowers /\ Targets \in SUBSET Borrowers
    BY <1>t DEF ListTyped, Entries, Listed, Targets
  <2>2. SweepsTyped'
    BY <1>t, <1>11, <2>1, AskedTyped DEF ColdSweep, TimerSweep, CycleSweep
  <2>3. /\ UNCHANGED <<head, health, moves, deferred, found, watchlist, cursor, replay, wire, pruning,
                       cache, handled>>
        /\ stage' \in {stage, "replay", "sweeping"}
    BY <1>11 DEF ColdSweep, TimerSweep, CycleSweep, chainOnly
  <2> QED BY <1>t, <1>m, <2>2, <2>3 DEF ListTyped, StartTyped, LogsTyped, CacheTyped, LastBlock
<1>12. ASSUME NEW s \in Sweepers, SweepMoves(s) PROVE WatchTyped'
  <2>1. SweepsTyped' /\ ListTyped' /\ CacheTyped'
    BY <1>12, SweepStepTyped
  <2>2. UNCHANGED <<head, health, moves, deferred, stage, found, cursor, replay, wire, pruning, handled>>
    BY <1>12 DEF SweepMoves, NodeAnswers, SweepLands, SweepCaches, SweepFails, chainOnly
  <2> QED BY <1>t, <1>m, <2>1, <2>2 DEF StartTyped, LogsTyped, LastBlock
<1> HIDE DEF Moved
<1> QED BY <1>2, <1>3, <1>4, <1>5, <1>6, <1>7, <1>8, <1>9, <1>10, <1>11, <1>12,
           ReplayChunkTyped, SeedTyped, PruneTyped DEF WatchNext

(* Types of the watchlist, of its replay, prune and sweeps, for any chain. *)
THEOREM WatchTypeCorrect == WatchSpec => []WatchTypeOK
<1>1. WatchTyped => WatchTypeOK
  <2> SUFFICES ASSUME WatchTyped PROVE WatchTypeOK
    OBVIOUS
  <2>1. replay \in [from: 0 .. LastBlock, next: 0 .. LastBlock + 1, to: 0 .. LastBlock]
    <3>1. ReplayOK(replay) /\ LastBlock \in Nat
      BY BlocksTyped DEF WatchTyped, LogsTyped
    <3>2. CASE replay = NoReplay
      BY <3>1, <3>2 DEF NoReplay
    <3>3. CASE replay # NoReplay
      BY <3>1, <3>3 DEF ReplayOK
    <3> QED BY <3>2, <3>3
  <2>2. \A a \in Listed : watchlist[a] \in [seen: 0 .. LastBlock, hf: Healths \cup {"unread"}]
    BY DEF WatchTyped, ListTyped, Entries, EntryRecs, Listed
  <2>3. Listed \subseteq Borrowers /\ wire \subseteq 1 .. LastBlock /\ handled \subseteq 1 .. LastBlock
    BY DEF WatchTyped, ListTyped, Entries, Listed, LogsTyped
  <2>4. \A s \in Sweepers : /\ sweeps[s].pc \in {"idle", "asked", "answered", "refresh"}
                            /\ sweeps[s].targets \subseteq Borrowers
    BY DEF WatchTyped, SweepsTyped, SweepOK
  <2> QED BY <2>1, <2>2, <2>3, <2>4
          DEF WatchTyped, ChainTyped, StartTyped, LogsTyped, CacheTyped, WatchTypeOK
<1> QED BY <1>1, WatchInitTyped, WatchStepTyped, PTL DEF WatchSpec

-----------------------------------------------------------------------------
(* Bootstrap with the bounds of its run.  What a sweep has seeded, what    *)
(* waits for its reserves and what is still to do are different accounts.  *)

ChainBounded == Len(poolChain) \in 1 .. MaxBlock /\ scan.from \in 0 .. MaxBlock
SweepBounded == /\ boot.start \in 0 .. MaxBlock
                /\ boot.client \in 1 .. LogClients /\ boot.attempt \in 1 .. RpcAttempts
AgesBounded == snapshot.age <= FileTtl + 1 /\ discovery.age <= FileTtl + 1
SeedsCounted ==
    /\ boot.seeded + Cardinality(boot.rows) + Cardinality(boot.todo) <= Cardinality(Debtors)
    /\ boot.at \notin {"accounts", "reserves"} => boot.seeded = 0 /\ boot.rows = {}

BootBounds == ChainBounded /\ SweepBounded /\ AgesBounded /\ SeedsCounted

BoundNumbers == /\ {ChunkBlocks, LogClients, RpcAttempts, BatchSize} \subseteq Nat \ {0}
                /\ {LookbackBlocks, FileTtl, MaxBlock} \subseteq Nat

LEMMA BoundsAreNumbers == BoundNumbers /\ MaxBlock >= 1
BY BootstrapAssumption DEF BoundNumbers

LEMMA DebtorsCounted ==
    \A S \in SUBSET Debtors : Cardinality(S) \in Nat /\ Cardinality(S) <= Cardinality(Debtors)
BY FS_Subset, FS_CardinalityType, BootstrapAssumption

LEMMA ApartCounted ==
    ASSUME NEW S \in SUBSET Debtors, NEW R \in SUBSET S, NEW T \in SUBSET S, R \cap T = {}
    PROVE  /\ Cardinality(R) \in Nat /\ Cardinality(T) \in Nat /\ Cardinality(S) \in Nat
           /\ Cardinality(R) + Cardinality(T) <= Cardinality(S)
<1>1. IsFiniteSet(S) /\ IsFiniteSet(R) /\ IsFiniteSet(T)
  BY FS_Subset, BootstrapAssumption
<1>2. Cardinality(R \cup T) = Cardinality(R) + Cardinality(T) - Cardinality({})
  BY <1>1, FS_Union
<1>3. Cardinality(R \cup T) <= Cardinality(S)
  BY <1>1, FS_Subset
<1> QED BY <1>1, <1>2, <1>3, FS_CardinalityType, FS_EmptySet

LEMMA NoneSeeded ==
    ASSUME NEW b \in BootRecs, b.seeded = 0, b.rows = {}
    PROVE  b.seeded + Cardinality(b.rows) + Cardinality(b.todo) <= Cardinality(Debtors)
<1>1. b.todo \in SUBSET Debtors
  BY DEF BootRecs
<1> QED BY <1>1, DebtorsCounted, FS_EmptySet

LEMMA DownFields ==
    /\ Down.start = 0 /\ Down.client = 1 /\ Down.attempt = 1 /\ Down.seeded = 0 /\ Down.rows = {}
    /\ Down.event = 1
BY DEF Down

(* A sweep that begins, or moves to another stage, with nothing seeded.    *)
LEMMA FreshBounds ==
    ASSUME boot' \in BootRecs, boot'.start \in 0 .. MaxBlock, boot'.client = 1, boot'.attempt = 1,
           boot'.seeded = 0, boot'.rows = {}
    PROVE  SweepBounded' /\ SeedsCounted'
<1>1. boot'.seeded + Cardinality(boot'.rows) + Cardinality(boot'.todo) <= Cardinality(Debtors)
  BY NoneSeeded
<1>2. SweepBounded'
  BY BoundsAreNumbers DEF SweepBounded, BoundNumbers
<1> QED BY <1>1, <1>2 DEF SeedsCounted

LEMMA BootBoundsInit == BootstrapInit => BootBounds
<1> SUFFICES ASSUME BootstrapInit PROVE BootBounds
  OBVIOUS
<1>1. ChainBounded /\ AgesBounded
  BY BootstrapAssumption, BoundsAreNumbers
     DEF BootstrapInit, ChainBounded, AgesBounded, BoundNumbers, NoSnapshot, NoDiscovery
<1>2. SweepBounded
  BY DownFields, BoundsAreNumbers DEF BootstrapInit, SweepBounded, BoundNumbers
<1>3. SeedsCounted
  BY DownFields, DownTyped, NoneSeeded DEF BootstrapInit, SeedsCounted
<1> QED BY <1>1, <1>2, <1>3 DEF BootBounds

(* The steps that begin a sweep or a stage of it, or end it.               *)
LEMMA TurnsBounded ==
    ASSUME BootInv, BootBounds, NEW at, NEW todo, NEW start,
           boot' = [Down EXCEPT !.at = at, !.todo = todo, !.start = start], boot' \in BootRecs,
           start \in 0 .. MaxBlock, ChainBounded', AgesBounded'
    PROVE  BootBounds'
<1>1. /\ boot'.start = start /\ boot'.client = 1 /\ boot'.attempt = 1
      /\ boot'.seeded = 0 /\ boot'.rows = {}
  BY DEF Down
<1> QED BY <1>1, FreshBounds DEF BootBounds

LEMMA EndsBounded ==
    ASSUME BootInv, BootBounds, Ends, ChainBounded', AgesBounded' PROVE BootBounds'
BY DownTyped, DownFields, FreshBounds, BoundsAreNumbers DEF Ends, BootBounds, BoundNumbers

LEMMA LogsAnswerBounded ==
    ASSUME BootInv, BootBounds, LogsAnswer, boot' \in BootRecs PROVE BootBounds'
<1> DEFINE hits == {b \in DOMAIN poolChain : b \in boot.start .. ChunkEnd
                                             /\ poolChain[b].name = EventNames[boot.event]}
           asked == [boot EXCEPT !.todo = @ \cup {poolChain[b].account : b \in hits},
                                 !.client = 1, !.attempt = 1]
<1>1. boot.at = "logs" /\ boot' = NextChunk(asked) /\ UNCHANGED <<poolChain, scan, snapshot, discovery>>
  BY DEF LogsAnswer, scanVars
<1>2. boot \in BootRecs /\ boot.seeded = 0 /\ boot.rows = {} /\ boot.start \in 0 .. MaxBlock
  BY <1>1 DEF BootInv, BootOK, BootBounds, SeedsCounted, SweepBounded
<1>3. /\ asked.client = 1 /\ asked.attempt = 1 /\ asked.seeded = 0 /\ asked.rows = {}
      /\ asked.start = boot.start
  BY <1>2 DEF BootRecs
<1>4. /\ scan.to \in Nat /\ scan.to <= MaxBlock /\ scan.from \in 0 .. MaxBlock
      /\ ChunkBlocks \in Nat \ {0} /\ MaxBlock \in Nat
  BY BoundsAreNumbers DEF BootInv, ScanOK, BootBounds, ChainBounded, BoundNumbers
<1>5. asked.start \in Nat
  BY <1>2, <1>3, <1>4
<1>f. DOMAIN asked = {"at", "event", "start", "client", "attempt", "todo", "kept", "rows", "seeded"}
  BY <1>2 DEF BootRecs
<1> HIDE DEF asked, hits
<1>6. CASE asked.start + ChunkBlocks <= scan.to
  <2>1. boot' = [asked EXCEPT !.start = asked.start + ChunkBlocks]
    BY <1>1, <1>6 DEF NextChunk
  <2>2. /\ boot'.client = 1 /\ boot'.attempt = 1 /\ boot'.seeded = 0 /\ boot'.rows = {}
        /\ boot'.start = asked.start + ChunkBlocks
    BY <2>1, <1>3, <1>f
  <2>3. boot'.start \in 0 .. MaxBlock
    BY <2>2, <1>4, <1>5, <1>6
  <2> QED BY <2>2, <2>3, <1>1, FreshBounds DEF BootBounds, ChainBounded, AgesBounded
<1>7. CASE ~(asked.start + ChunkBlocks <= scan.to) /\ asked.event < Len(EventNames)
  <2>1. boot' = [asked EXCEPT !.event = asked.event + 1, !.start = scan.from]
    BY <1>1, <1>7 DEF NextChunk
  <2>2. /\ boot'.client = 1 /\ boot'.attempt = 1 /\ boot'.seeded = 0 /\ boot'.rows = {}
        /\ boot'.start = scan.from
    BY <2>1, <1>3, <1>f
  <2> QED BY <2>2, <1>1, <1>4, FreshBounds DEF BootBounds, ChainBounded, AgesBounded
<1>8. CASE ~(asked.start + ChunkBlocks <= scan.to) /\ ~(asked.event < Len(EventNames))
  <2>1. boot' = [asked EXCEPT !.at = "filter"]
    BY <1>1, <1>8 DEF NextChunk
  <2>2. /\ boot'.client = 1 /\ boot'.attempt = 1 /\ boot'.seeded = 0 /\ boot'.rows = {}
        /\ boot'.start = boot.start
    BY <2>1, <1>3, <1>f
  <2> QED BY <2>2, <1>1, <1>2, FreshBounds DEF BootBounds, ChainBounded, AgesBounded
<1> QED BY <1>6, <1>7, <1>8

LEMMA LogsRetriedBounded == ASSUME BootInv, BootBounds, LogsRetried PROVE BootBounds'
<1>1. boot \in BootRecs /\ boot.at = "logs" /\ UNCHANGED <<poolChain, scan, snapshot, discovery>>
  BY DEF LogsRetried, BootInv, BootOK, scanVars
<1>2. /\ boot.attempt \in 1 .. RpcAttempts /\ boot.client \in 1 .. LogClients
      /\ RpcAttempts \in Nat \ {0} /\ LogClients \in Nat \ {0}
  BY BoundsAreNumbers DEF BootBounds, SweepBounded, BoundNumbers
<1>3. /\ boot'.start = boot.start /\ boot'.seeded = boot.seeded /\ boot'.rows = boot.rows
      /\ boot'.todo = boot.todo /\ boot'.at = boot.at
      /\ boot'.attempt \in 1 .. RpcAttempts /\ boot'.client \in 1 .. LogClients
  <2>1. CASE boot.attempt < RpcAttempts
    <3>1. boot' = [boot EXCEPT !.attempt = boot.attempt + 1]
      BY <2>1 DEF LogsRetried
    <3>2. boot'.attempt = boot.attempt + 1 /\ boot'.client = boot.client
      BY <3>1, <1>1 DEF BootRecs
    <3>3. /\ boot'.start = boot.start /\ boot'.seeded = boot.seeded /\ boot'.rows = boot.rows
          /\ boot'.todo = boot.todo /\ boot'.at = boot.at
      BY <3>1, <1>1 DEF BootRecs
    <3> QED BY <3>2, <3>3, <1>2, <2>1
  <2>2. CASE ~(boot.attempt < RpcAttempts)
    <3>1. boot' = [boot EXCEPT !.attempt = 1, !.client = boot.client + 1] /\ boot.client < LogClients
      BY <2>2 DEF LogsRetried
    <3>2. boot'.attempt = 1 /\ boot'.client = boot.client + 1
      BY <3>1, <1>1 DEF BootRecs
    <3>3. /\ boot'.start = boot.start /\ boot'.seeded = boot.seeded /\ boot'.rows = boot.rows
          /\ boot'.todo = boot.todo /\ boot'.at = boot.at
      BY <3>1, <1>1 DEF BootRecs
    <3> QED BY <3>1, <3>2, <3>3, <1>2
  <2> QED BY <2>1, <2>2
<1>4. SweepBounded' /\ SeedsCounted'
  BY <1>3 DEF BootBounds, SweepBounded, SeedsCounted
<1> QED BY <1>1, <1>4 DEF BootBounds, ChainBounded, AgesBounded

(* The stages that work through batches.                                   *)
LEMMA BatchesBounded ==
    ASSUME BootInv, BootBounds, FilterBatch \/ AccountRows PROVE BootBounds'
<1>1. boot \in BootRecs /\ UNCHANGED <<poolChain, scan, snapshot, discovery>>
  BY DEF FilterBatch, AccountRows, BootInv, BootOK
<1>2. PICK chosen \in SUBSET boot.todo, rows \in SUBSET boot.todo :
          /\ rows \subseteq chosen
          /\ boot'.todo = boot.todo \ chosen /\ boot'.seeded = boot.seeded
          /\ \/ boot.at = "filter" /\ boot'.at = "filter" /\ boot'.rows = boot.rows
             \/ boot'.at = "reserves" /\ boot'.rows = rows
          /\ UNCHANGED <<boot.start, boot.client, boot.attempt>>
  <2>1. CASE FilterBatch
    <3>1. PICK chosen \in NextBatches : \E failed \in SUBSET chosen :
             boot' = [boot EXCEPT !.todo = boot.todo \ chosen,
                                  !.kept = boot.kept \cup ((chosen \ failed) \cap owing)]
      BY <2>1 DEF FilterBatch
    <3>2. chosen \subseteq boot.todo /\ boot.at = "filter"
      BY <3>1, <2>1, BatchTyped DEF FilterBatch
    <3>3. /\ boot'.todo = boot.todo \ chosen /\ boot'.seeded = boot.seeded
          /\ boot'.at = boot.at /\ boot'.rows = boot.rows
          /\ boot'.start = boot.start /\ boot'.client = boot.client /\ boot'.attempt = boot.attempt
      BY <3>1, <1>1 DEF BootRecs
    <3> QED BY <3>2, <3>3
  <2>2. CASE AccountRows
    <3>1. PICK chosen \in NextBatches : \E failed \in SUBSET chosen :
             boot' = [boot EXCEPT !.at = "reserves", !.todo = boot.todo \ chosen,
                                  !.rows = (chosen \ failed) \cap owing]
      BY <2>2 DEF AccountRows
    <3>2. PICK failed \in SUBSET chosen :
             boot' = [boot EXCEPT !.at = "reserves", !.todo = boot.todo \ chosen,
                                  !.rows = (chosen \ failed) \cap owing]
      BY <3>1
    <3>3. chosen \subseteq boot.todo /\ (chosen \ failed) \cap owing \in SUBSET chosen
      BY BatchTyped
    <3>4. /\ boot'.todo = boot.todo \ chosen /\ boot'.seeded = boot.seeded
          /\ boot'.at = "reserves" /\ boot'.rows = (chosen \ failed) \cap owing
          /\ boot'.start = boot.start /\ boot'.client = boot.client /\ boot'.attempt = boot.attempt
      BY <3>2, <1>1 DEF BootRecs
    <3> QED BY <3>3, <3>4
  <2> QED BY <2>1, <2>2
<1>3. SweepBounded'
  BY <1>2 DEF BootBounds, SweepBounded
<1>4. boot.todo \in SUBSET Debtors /\ boot.rows \in SUBSET Debtors /\ boot.seeded \in Nat
  BY <1>1 DEF BootRecs
<1>5. /\ Cardinality(boot.rows) \in Nat /\ Cardinality(boot.todo) \in Nat
      /\ Cardinality(boot.todo \ chosen) \in Nat /\ Cardinality(rows) \in Nat
      /\ Cardinality(rows) + Cardinality(boot.todo \ chosen) <= Cardinality(boot.todo)
      /\ Cardinality(Debtors) \in Nat
  <2>1. /\ rows \in SUBSET boot.todo /\ boot.todo \ chosen \in SUBSET boot.todo
        /\ rows \cap (boot.todo \ chosen) = {}
    BY <1>2
  <2>2. /\ Cardinality(rows) \in Nat /\ Cardinality(boot.todo \ chosen) \in Nat
        /\ Cardinality(rows) + Cardinality(boot.todo \ chosen) <= Cardinality(boot.todo)
    BY <1>4, <2>1, ApartCounted
  <2>3. Debtors \in SUBSET Debtors
    OBVIOUS
  <2> QED BY <1>4, <2>2, <2>3, DebtorsCounted
<1>6. boot.seeded + Cardinality(boot.rows) + Cardinality(boot.todo) <= Cardinality(Debtors)
  BY DEF BootBounds, SeedsCounted
<1>7. boot'.seeded + Cardinality(boot'.rows) + Cardinality(boot'.todo) <= Cardinality(Debtors)
  <2>1. CASE boot'.rows = boot.rows
    BY <2>1, <1>2, <1>4, <1>5, <1>6
  <2>2. CASE boot'.rows = rows
    <3>1. Cardinality(boot'.rows) + Cardinality(boot'.todo) <= Cardinality(boot.todo)
      BY <2>2, <1>2, <1>5
    <3>2. boot'.seeded = boot.seeded /\ Cardinality(boot'.rows) \in Nat /\ Cardinality(boot'.todo) \in Nat
      BY <2>2, <1>2, <1>5
    <3> QED BY <3>1, <3>2, <1>4, <1>5, <1>6
  <2> QED BY <2>1, <2>2, <1>2
<1>8. SeedsCounted'
  BY <1>2, <1>7 DEF BootBounds, SeedsCounted
<1> QED BY <1>1, <1>3, <1>8 DEF BootBounds, ChainBounded, AgesBounded

LEMMA ReserveRowsBounded == ASSUME BootInv, BootBounds, ReserveRows PROVE BootBounds'
<1>1. boot \in BootRecs /\ boot.at = "reserves" /\ UNCHANGED <<poolChain, scan, snapshot, discovery>>
  BY DEF ReserveRows, BootInv, BootOK
<1>2. PICK taken \in SUBSET boot.rows :
         boot' = [boot EXCEPT !.at = "accounts", !.rows = {}, !.seeded = boot.seeded + Cardinality(taken)]
  <2>1. PICK failed \in SUBSET boot.rows :
          LET taken == IF HasAllowlist THEN (boot.rows \ failed) \cap Holders ELSE boot.rows
          IN  boot' = [boot EXCEPT !.at = "accounts", !.rows = {}, !.seeded = boot.seeded + Cardinality(taken)]
    BY DEF ReserveRows
  <2> DEFINE t == IF HasAllowlist THEN (boot.rows \ failed) \cap Holders ELSE boot.rows
  <2>2. t \in SUBSET boot.rows
    OBVIOUS
  <2> QED BY <2>1, <2>2
<1>3. /\ boot'.at = "accounts" /\ boot'.rows = {} /\ boot'.seeded = boot.seeded + Cardinality(taken)
      /\ boot'.todo = boot.todo
  BY <1>1, <1>2 DEF BootRecs
<1>4. boot'.start = boot.start /\ boot'.client = boot.client /\ boot'.attempt = boot.attempt
  BY <1>1, <1>2 DEF BootRecs
<1>5. boot.rows \in SUBSET Debtors /\ boot.todo \in SUBSET Debtors /\ boot.seeded \in Nat
  BY <1>1 DEF BootRecs
<1>6. /\ Cardinality(boot.rows) \in Nat /\ Cardinality(taken) \in Nat
      /\ Cardinality(taken) + Cardinality({}) <= Cardinality(boot.rows)
      /\ Cardinality(boot.todo) \in Nat /\ Cardinality(Debtors) \in Nat /\ Cardinality({}) = 0
  BY <1>5, ApartCounted, DebtorsCounted, FS_EmptySet
<1>7. boot.seeded + Cardinality(boot.rows) + Cardinality(boot.todo) <= Cardinality(Debtors)
  BY DEF BootBounds, SeedsCounted
<1>8. SeedsCounted'
  BY <1>3, <1>5, <1>6, <1>7 DEF SeedsCounted
<1>9. SweepBounded'
  BY <1>4 DEF BootBounds, SweepBounded
<1> QED BY <1>1, <1>8, <1>9 DEF BootBounds, ChainBounded, AgesBounded

LEMMA FilesAgeBounded == ASSUME BootInv, BootBounds, FilesAge PROVE BootBounds'
<1>1. /\ snapshot' = [snapshot EXCEPT !.age = IF @ <= FileTtl THEN @ + 1 ELSE @]
      /\ discovery' = [discovery EXCEPT !.age = IF @ <= FileTtl THEN @ + 1 ELSE @]
      /\ UNCHANGED <<poolChain, boot, scan>>
  BY DEF FilesAge, processVars, scanVars
<1>2. /\ snapshot \in [age: Nat, full: SUBSET Debtors]
      /\ discovery \in [age: Nat, block: Nat, withDebt: SUBSET Debtors]
  BY DEF BootInv, FilesOK
<1>3. snapshot'.age <= FileTtl + 1
  BY <1>1, <1>2, BoundsAreNumbers DEF BootBounds, AgesBounded, BoundNumbers
<1>4. discovery'.age <= FileTtl + 1
  BY <1>1, <1>2, BoundsAreNumbers DEF BootBounds, AgesBounded, BoundNumbers
<1> QED BY <1>1, <1>3, <1>4 DEF BootBounds, ChainBounded, SweepBounded, AgesBounded, SeedsCounted

LEMMA BootBoundsStep == BootInv /\ BootInv' /\ BootBounds /\ [BootstrapNext]_bootstrapVars => BootBounds'
<1> SUFFICES ASSUME BootInv, BootInv', BootBounds, [BootstrapNext]_bootstrapVars PROVE BootBounds'
  OBVIOUS
<1>1. /\ boot' \in BootRecs /\ boot \in BootRecs
      /\ 0 \in 0 .. MaxBlock /\ FileTtl \in Nat /\ MaxBlock \in Nat
  BY BoundsAreNumbers DEF BootInv, BootOK, BoundNumbers
<1>2. CASE UNCHANGED bootstrapVars
  BY <1>2 DEF bootstrapVars, BootBounds, ChainBounded, SweepBounded, AgesBounded, SeedsCounted
<1>3. ASSUME NEW name \in ToSet(EventNames), NEW a \in Debtors, PoolEvent(name, a) PROVE BootBounds'
  <2>1. Len(poolChain') \in 1 .. MaxBlock
    BY <1>1, <1>3 DEF PoolEvent, BootInv, ChainOK, BootBounds, ChainBounded
  <2>2. UNCHANGED <<boot, snapshot, discovery, scan>>
    BY <1>3 DEF PoolEvent, processVars
  <2> QED BY <2>1, <2>2 DEF BootBounds, ChainBounded, SweepBounded, AgesBounded, SeedsCounted
<1>4. CASE Stops \/ SweepThrows \/ (LogsFail /\ Ends)
  <2>1. /\ Ends /\ UNCHANGED <<poolChain, scan>>
        /\ discovery' \in {discovery, NoDiscovery} /\ snapshot' \in {snapshot, NoSnapshot}
    BY <1>4 DEF Stops, SweepThrows, LogsFail, scanVars
  <2>2. AgesBounded'
    BY <2>1, <1>1 DEF BootBounds, AgesBounded, NoDiscovery, NoSnapshot
  <2> QED BY <2>1, <2>2, EndsBounded DEF BootBounds, ChainBounded
<1>5. ASSUME FromSnapshot \/ FromDiscovery \/ (LogsFail /\ ~Ends) \/ SaveDiscovery \/ SaveSnapshot
      PROVE  BootBounds'
  <2>1. UNCHANGED <<poolChain, scan>>
    BY <1>5 DEF FromSnapshot, FromDiscovery, LogsFail, SaveDiscovery, SaveSnapshot, scanVars
  <2>2. /\ boot'.start = 0 /\ boot'.client = 1 /\ boot'.attempt = 1
        /\ boot'.seeded = 0 /\ boot'.rows = {}
    BY <1>5 DEF FromSnapshot, FromDiscovery, LogsFail, SaveDiscovery, SaveSnapshot, Down
  <2>3. snapshot' = snapshot \/ snapshot'.age = 0
    BY <1>5 DEF FromSnapshot, FromDiscovery, LogsFail, SaveDiscovery, SaveSnapshot
  <2>4. discovery' = discovery \/ discovery'.age = 0
    BY <1>5 DEF FromSnapshot, FromDiscovery, LogsFail, SaveDiscovery, SaveSnapshot
  <2>5. AgesBounded' /\ ChainBounded'
    BY <1>1, <2>1, <2>3, <2>4 DEF BootBounds, AgesBounded, ChainBounded
  <2> QED BY <1>1, <2>2, <2>5, FreshBounds DEF BootBounds
<1>6. CASE FromLogs
  <2> DEFINE from == IF ChainHead > LookbackBlocks THEN ChainHead - LookbackBlocks ELSE 0
  <2>1. /\ boot' = [Down EXCEPT !.at = "logs", !.start = from]
        /\ scan' = [from |-> from, to |-> ChainHead, source |-> "logs"]
        /\ UNCHANGED <<poolChain, snapshot, discovery>>
    BY <1>6 DEF FromLogs
  <2>2. from \in 0 .. MaxBlock
    BY BoundsAreNumbers DEF BootBounds, ChainBounded, ChainHead, BoundNumbers
  <2>3. ChainBounded' /\ AgesBounded'
    BY <2>1, <2>2 DEF BootBounds, ChainBounded, AgesBounded
  <2>4. /\ boot'.start = from /\ boot'.client = 1 /\ boot'.attempt = 1
        /\ boot'.seeded = 0 /\ boot'.rows = {}
    BY <2>1 DEF Down
  <2> QED BY <1>1, <2>2, <2>3, <2>4, FreshBounds DEF BootBounds
<1>7. CASE SubgraphAnswers
  <2>1. PICK listed \in SUBSET Debtors : boot' = [boot EXCEPT !.at = "filter", !.todo = listed]
    BY <1>7 DEF SubgraphAnswers
  <2>2. /\ boot.at = "subgraph" /\ scan' = [scan EXCEPT !.source = "subgraph"]
        /\ UNCHANGED <<poolChain, snapshot, discovery>>
    BY <1>7 DEF SubgraphAnswers
  <2>3. boot.seeded = 0 /\ boot.rows = {}
    BY <2>2 DEF BootBounds, SeedsCounted
  <2>4. /\ boot'.start = boot.start /\ boot'.client = boot.client /\ boot'.attempt = boot.attempt
        /\ boot'.seeded = 0 /\ boot'.rows = {}
    BY <1>1, <2>1, <2>3 DEF BootRecs
  <2>5. boot'.seeded + Cardinality(boot'.rows) + Cardinality(boot'.todo) <= Cardinality(Debtors)
    BY <1>1, <2>4, NoneSeeded
  <2>6. SeedsCounted' /\ SweepBounded'
    BY <2>4, <2>5 DEF SeedsCounted, BootBounds, SweepBounded
  <2>7. scan'.from = scan.from
    BY <2>2 DEF BootInv, ScanOK
  <2> QED BY <2>2, <2>6, <2>7 DEF BootBounds, ChainBounded, AgesBounded
<1> QED BY <1>1, <1>2, <1>3, <1>4, <1>5, <1>6, <1>7, LogsAnswerBounded, LogsRetriedBounded, BatchesBounded,
           ReserveRowsBounded, FilesAgeBounded DEF BootstrapNext

LEMMA BootBoundsTyped == BootInv /\ BootBounds => BootstrapTypeOK
<1> SUFFICES ASSUME BootInv, BootBounds PROVE BootstrapTypeOK
  OBVIOUS
<1>1. poolChain \in UNION {[1 .. n -> [name: ToSet(EventNames), account: Debtors]] : n \in 1 .. MaxBlock}
  <2>1. poolChain \in [1 .. Len(poolChain) -> PoolEvents] /\ Len(poolChain) \in 1 .. MaxBlock
    BY DEF BootInv, ChainOK, BootBounds, ChainBounded
  <2> QED BY <2>1 DEF PoolEvents
<1>2. owing \subseteq Debtors /\ model \in [Debtors -> {"none", "bare", "full"}] /\ boot \in BootRecs
  BY DEF BootInv, ChainOK, BootOK
<1>3. /\ boot.at \in {"down", "logs", "subgraph", "filter", "accounts", "reserves", "up"}
      /\ boot.event \in DOMAIN EventNames /\ {boot.todo, boot.kept, boot.rows} \subseteq SUBSET Debtors
  BY <1>2 DEF BootRecs
<1>4. /\ boot.start \in 0 .. MaxBlock /\ boot.client \in 1 .. LogClients
      /\ boot.attempt \in 1 .. RpcAttempts
  BY DEF BootBounds, SweepBounded
<1>5. boot.seeded \in 0 .. Cardinality(Debtors)
  <2>1. boot.seeded \in Nat /\ boot.rows \in SUBSET Debtors /\ boot.todo \in SUBSET Debtors
    BY <1>2 DEF BootRecs
  <2>2. /\ Cardinality(boot.rows) \in Nat /\ Cardinality(boot.todo) \in Nat /\ Cardinality(Debtors) \in Nat
    BY <2>1, DebtorsCounted
  <2> QED BY <2>1, <2>2 DEF BootBounds, SeedsCounted
<1>6. snapshot \in [age: 0 .. FileTtl + 1, full: SUBSET Debtors]
  BY BoundsAreNumbers DEF BootInv, FilesOK, BootBounds, AgesBounded, BoundNumbers
<1>7. /\ scan.from \in 0 .. MaxBlock /\ scan.to \in Nat /\ scan.to <= MaxBlock
      /\ discovery.block <= MaxBlock /\ scan.to \in 0 .. MaxBlock /\ MaxBlock \in Nat /\ FileTtl \in Nat
  <2>1. /\ Len(poolChain) \in 1 .. MaxBlock /\ MaxBlock \in Nat /\ scan.to \in Nat
        /\ scan.to <= Len(poolChain) /\ discovery.block \in Nat /\ discovery.block <= scan.to
    BY BoundsAreNumbers DEF BootInv, ScanOK, FilesOK, BootBounds, ChainBounded, BoundNumbers
  <2> QED BY <2>1, BoundsAreNumbers DEF BootBounds, ChainBounded, BoundNumbers
<1>8. discovery \in [age: 0 .. FileTtl + 1, block: 0 .. MaxBlock, withDebt: SUBSET Debtors]
  BY <1>7 DEF BootInv, FilesOK, BootBounds, AgesBounded
<1>9. scan \in [from: 0 .. MaxBlock, to: 0 .. MaxBlock, source: {"logs", "subgraph"}]
  BY <1>7 DEF BootInv, ScanOK
<1> QED BY <1>1, <1>2, <1>3, <1>4, <1>5, <1>6, <1>8, <1>9 DEF BootstrapTypeOK

(* The types of Bootstrap: among them that a sweep never counts an account *)
(* twice as seeded (partialBootstrapSweep.ts:488-508), whatever the batches*)
(* and the rows that fail.                                                 *)
THEOREM BootstrapTypeCorrect == BootstrapSpec => []BootstrapTypeOK
<1>1. BootstrapInit => BootInv /\ BootBounds
  BY BootInitOK, BootBoundsInit
<1>2. BootInv /\ BootBounds /\ [BootstrapNext]_bootstrapVars => (BootInv /\ BootBounds)'
  BY BootStep, BootBoundsStep
<1> QED BY <1>1, <1>2, BootBoundsTyped, PTL DEF BootstrapSpec

-----------------------------------------------------------------------------
(* ArbScan with the bounds of its run: no time is past the last tick.      *)

ArbClock == now \in 0 .. Times /\ \A s \in Signatures : signed[s] \in -1 .. Times
ArbFlags ==
    /\ warm \subseteq MirrorPools /\ stopped \in BOOLEAN
    /\ poll \in {"armed", "gas", "running", "off"}
CandidatesBounded == \A w \in QuoteWorkers : worker[w].since \in 0 .. Times

ArbBounds == ArbClock /\ ArbFlags /\ CandidatesBounded

LEMMA TimesTyped == Times \in Nat /\ QuoteWindow \in Nat
BY ArbScanAssumption

LEMMA RestSince == Resting \in WorkerRecs /\ Resting.since = 0
BY RestTyped DEF Resting

LEMMA ArbBoundsInit == ArbInit => ArbBounds
<1> SUFFICES ASSUME ArbInit PROVE ArbBounds
  OBVIOUS
<1>1. ArbClock
  BY TimesTyped DEF ArbInit, ArbClock
<1>2. ArbFlags
  BY DEF ArbInit, ArbFlags
<1>3. CandidatesBounded
  BY TimesTyped, RestSince DEF ArbInit, CandidatesBounded
<1> QED BY <1>1, <1>2, <1>3 DEF ArbBounds

LEMMA PrunedBounded ==
    ASSUME ArbInv, ArbBounds
    PROVE  PrunedSigned \in [Signatures -> Int] /\ \A s \in Signatures : PrunedSigned[s] \in -1 .. Times
BY TimesTyped DEF ArbInv, ArbTypes, ArbBounds, ArbClock, PrunedSigned

(* A worker that goes on keeps the time of its candidate, or has none.     *)
LEMMA ProbeKeepsTime ==
    ASSUME NEW r \in WorkerRecs
    PROVE  /\ NextProbe(r).since \in {r.since, 0}
           /\ \A at \in ArbPlaces : [r EXCEPT !.at = at].since = r.since
           /\ [r EXCEPT !.quotes = 1].since = r.since
<1>1. CASE r.probe < Probes
  BY <1>1 DEF NextProbe, WorkerRecs
<1>2. CASE ~(r.probe < Probes) /\ r.best # 0
  BY <1>2 DEF NextProbe, WorkerRecs
<1>3. CASE ~(r.probe < Probes) /\ r.best = 0
  BY <1>3, RestSince DEF NextProbe, WorkerRecs
<1> QED BY <1>1, <1>2, <1>3 DEF WorkerRecs

LEMMA WorkerBounded ==
    ASSUME ArbInv, ArbBounds, NEW w \in QuoteWorkers, NEW r, Becomes(w, r), r.since \in 0 .. Times
    PROVE  CandidatesBounded'
BY DEF ArbInv, ArbTypes, ArbBounds, CandidatesBounded, Becomes

LEMMA WorkersBounded ==
    ASSUME ArbInv, ArbBounds, NEW w \in QuoteWorkers,
           \/ TakeRoute(w) \/ QuoteAnswers(w) \/ QuoteFails(w) \/ Simulated(w) \/ PriceAnswers(w)
           \/ PriceThrows(w) \/ Evaluated(w) \/ EvaluationThrows(w)
    PROVE  CandidatesBounded'
<1> DEFINE r == worker[w]
<1>1. r \in WorkerRecs /\ r.since \in 0 .. Times /\ 0 \in 0 .. Times
  BY TimesTyped DEF ArbInv, ArbTypes, ArbBounds, CandidatesBounded
<1>2. NextProbe(r).since \in 0 .. Times /\ Resting.since \in 0 .. Times
  BY <1>1, ProbeKeepsTime, RestSince
<1>3. CASE TakeRoute(w)
  <2>1. [Resting EXCEPT !.at = "quote", !.route = Head(routesLeft)].since = 0
    BY RestSince DEF WorkerRecs
  <2> QED BY <1>1, <1>3, <2>1, WorkerBounded DEF TakeRoute
<1>4. CASE QuoteAnswers(w) \/ Simulated(w)
  <2>1. /\ [r EXCEPT !.quotes = 1].since \in 0 .. Times
        /\ [r EXCEPT !.at = "simulate"].since \in 0 .. Times
        /\ [r EXCEPT !.at = "price"].since \in 0 .. Times
    BY <1>1 DEF WorkerRecs
  <2>2. \/ Becomes(w, [r EXCEPT !.quotes = 1]) \/ Becomes(w, [r EXCEPT !.at = "simulate"])
        \/ Becomes(w, [r EXCEPT !.at = "price"]) \/ Becomes(w, NextProbe(r))
    <3>1. CASE QuoteAnswers(w)
      BY <3>1 DEF QuoteAnswers
    <3>2. CASE Simulated(w)
      BY <3>2 DEF Simulated
    <3> QED BY <1>4, <3>1, <3>2
  <2> QED BY <1>2, <2>1, <2>2, WorkerBounded
<1>5. CASE QuoteFails(w) \/ PriceThrows(w) \/ Evaluated(w) \/ EvaluationThrows(w)
  <2>1. Becomes(w, NextProbe(r)) \/ Becomes(w, Resting)
    BY <1>5 DEF QuoteFails, PriceThrows, Evaluated, EvaluationThrows
  <2> QED BY <1>2, <2>1, WorkerBounded
<1>6. CASE PriceAnswers(w)
  <2>1. CASE Becomes(w, NextProbe(r))
    BY <1>2, <2>1, WorkerBounded
  <2>2. ASSUME NEW revenue \in 1 .. 2,
               Becomes(w, NextProbe([r EXCEPT !.best = r.probe, !.since = now, !.revenue = revenue]))
        PROVE  CandidatesBounded'
    <3> DEFINE q == [r EXCEPT !.best = r.probe, !.since = now, !.revenue = revenue]
    <3>1. r.probe \in 0 .. Probes /\ revenue \in 0 .. 2 /\ now \in Nat
      BY <1>1, ArbScanAssumption DEF WorkerRecs, ArbInv, ArbTypes
    <3>2. q \in WorkerRecs
      BY ONLY <1>1, <3>1 DEF WorkerRecs
    <3>3. q.since = now
      BY <1>1 DEF WorkerRecs
    <3>4. NextProbe(q).since \in {now, 0}
      BY <3>2, <3>3, ProbeKeepsTime
    <3>5. NextProbe(q).since \in 0 .. Times
      BY <1>1, <3>4 DEF ArbBounds, ArbClock
    <3> HIDE DEF q
    <3>6. Becomes(w, NextProbe(q))
      BY <2>2 DEF q
    <3> QED BY <3>5, <3>6, WorkerBounded
  <2>3. ASSUME NEW revenue \in 1 .. 2,
               Becomes(w, NextProbe(IF r.best = 0 \/ revenue > r.revenue
                                    THEN [r EXCEPT !.best = r.probe, !.since = now, !.revenue = revenue]
                                    ELSE r))
        PROVE  CandidatesBounded'
    <3>1. CASE r.best = 0 \/ revenue > r.revenue
      BY <2>2, <2>3, <3>1
    <3>2. CASE ~(r.best = 0 \/ revenue > r.revenue)
      BY <2>1, <2>3, <3>2
    <3> QED BY <3>1, <3>2
  <2> QED BY <1>6, <2>1, <2>3 DEF PriceAnswers
<1> QED BY <1>3, <1>4, <1>5, <1>6

LEMMA ArbBoundsStep == ArbInv /\ ArbBounds /\ [ArbNext]_arbVars => ArbBounds'
<1> SUFFICES ASSUME ArbInv, ArbBounds, [ArbNext]_arbVars PROVE ArbBounds'
  OBVIOUS
<1>1. ArbClock /\ ArbFlags /\ CandidatesBounded /\ Times \in Nat
  BY TimesTyped DEF ArbBounds
<1>2. CASE UNCHANGED arbVars
  BY <1>1, <1>2 DEF arbVars, ArbBounds, ArbClock, ArbFlags, CandidatesBounded
<1>3. ASSUME ClockTicks \/ PruneTimers \/ Drain \/ StopScanner \/ PollStarts \/ GasPriceRead \/ PollEnds
             \/ \E pool \in MirrorPools : MirrorLog(pool)
      PROVE  ArbBounds'
  <2>1. UNCHANGED worker
    BY <1>3 DEF ClockTicks, PruneTimers, Drain, StopScanner, PollStarts, GasPriceRead, PollEnds, MirrorLog
  <2>2. ArbFlags'
    BY <1>1, <1>3
       DEF ArbFlags, ClockTicks, PruneTimers, Drain, StopScanner, PollStarts, GasPriceRead, PollEnds, MirrorLog
  <2>3. now' \in 0 .. Times
    BY <1>1, <1>3
       DEF ArbClock, ClockTicks, PruneTimers, Drain, StopScanner, PollStarts, GasPriceRead, PollEnds, MirrorLog
  <2>4. \/ signed' = signed \/ signed' = PrunedSigned \/ signed' = [s \in Signatures |-> -1]
    BY <1>3
       DEF ClockTicks, PruneTimers, Drain, StopScanner, PollStarts, GasPriceRead, PollEnds, MirrorLog
  <2>5. \A s \in Signatures : signed'[s] \in -1 .. Times
    BY <1>1, <2>4, PrunedBounded DEF ArbClock
  <2> QED BY <1>1, <2>1, <2>2, <2>3, <2>5 DEF ArbBounds, ArbClock, CandidatesBounded
<1>4. ASSUME NEW w \in QuoteWorkers,
             \/ TakeRoute(w) \/ QuoteAnswers(w) \/ QuoteFails(w) \/ Simulated(w)
             \/ PriceThrows(w) \/ Evaluated(w)
      PROVE  ArbBounds'
  <2>1. UNCHANGED <<now, warm, poll, signed, stopped>>
    BY <1>4 DEF TakeRoute, QuoteAnswers, QuoteFails, Simulated, PriceThrows, Evaluated
  <2> QED BY <1>1, <1>4, <2>1, WorkersBounded DEF ArbBounds, ArbClock, ArbFlags
<1>5. ASSUME NEW w \in QuoteWorkers, EvaluationThrows(w) PROVE ArbBounds'
  <2>1. UNCHANGED <<warm, signed, stopped>> /\ now' \in 0 .. Times /\ poll' \in {poll, "armed"}
    BY <1>1, <1>5 DEF EvaluationThrows, ArbClock
  <2> QED BY <1>1, <1>5, <2>1, WorkersBounded DEF ArbBounds, ArbClock, ArbFlags
<1>6. ASSUME NEW w \in QuoteWorkers, PriceAnswers(w) PROVE ArbBounds'
  <2>1. UNCHANGED <<now, warm, poll, stopped>>
    BY <1>6 DEF PriceAnswers
  <2>2. \/ signed' = signed \/ signed' = PrunedSigned \/ signed' = [PrunedSigned EXCEPT ![Sig(w)] = now]
    BY <1>6 DEF PriceAnswers
  <2>3. \A s \in Signatures : signed'[s] \in -1 .. Times
    BY <1>1, <2>2, PrunedBounded DEF ArbClock
  <2> QED BY <1>1, <1>6, <2>1, <2>3, WorkersBounded DEF ArbBounds, ArbClock, ArbFlags
<1> QED BY <1>2, <1>3, <1>4, <1>5, <1>6 DEF ArbNext

LEMMA ArbBoundsTyped == ArbInv /\ ArbBounds => ArbTypeOK
<1> SUFFICES ASSUME ArbInv, ArbBounds PROVE ArbTypeOK
  OBVIOUS
<1>1. ArbTypes /\ ArbClock /\ ArbFlags /\ CandidatesBounded
  BY DEF ArbInv, ArbBounds
<1>2. ToSet(routesLeft) \subseteq ToSet(Routes)
  BY <1>1 DEF ArbTypes, ToSet
<1>3. worker \in [QuoteWorkers -> [at: {"idle", "quote", "simulate", "price", "evaluate"},
            route: ToSet(Routes), probe: 1 .. Probes, quotes: 0 .. 1, best: 0 .. Probes,
            since: 0 .. Times, revenue: 0 .. 2]]
  <2> SUFFICES ASSUME NEW w \in QuoteWorkers
               PROVE  worker[w] \in [at: {"idle", "quote", "simulate", "price", "evaluate"},
                        route: ToSet(Routes), probe: 1 .. Probes, quotes: 0 .. 1, best: 0 .. Probes,
                        since: 0 .. Times, revenue: 0 .. 2]
    BY <1>1 DEF ArbTypes
  <2>1. worker[w] \in WorkerRecs /\ worker[w].since \in 0 .. Times
    BY <1>1 DEF ArbTypes, CandidatesBounded
  <2>2. {0, 1} = 0 .. 1
    OBVIOUS
  <2> QED BY <2>1, <2>2 DEF WorkerRecs, ArbPlaces
<1>4. signed \in [Signatures -> -1 .. Times]
  BY <1>1 DEF ArbTypes, ArbClock
<1>5. /\ Len(queue) <= QueueLimit /\ \A i \in DOMAIN queue : queue[i].sig \in Signatures
      /\ \A id \in seenIds : id.sig \in Signatures
  <2>1. \A i \in DOMAIN queue : queue[i] \in Identities
    BY <1>1 DEF ArbTypes
  <2> QED BY <1>1, <2>1 DEF ArbTypes, Identities, SeenRecs
<1> QED BY <1>1, <1>2, <1>3, <1>4, <1>5 DEF ArbTypeOK, ArbClock, ArbFlags

(* The types of ArbScan: the queue never outgrows its limit                *)
(* (arbitrageOpportunityQueue.ts:24-37), and neither a candidate nor a     *)
(* signature is of a time past the last tick.                             *)
THEOREM ArbTypeCorrect == ArbSpec => []ArbTypeOK
<1>1. ArbInit => ArbInv /\ ArbBounds
  BY ArbInitOK, ArbBoundsInit
<1>2. ArbInv /\ ArbBounds /\ [ArbNext]_arbVars => (ArbInv /\ ArbBounds)'
  BY ArbStep, ArbBoundsStep
<1> QED BY <1>1, <1>2, ArbBoundsTyped, PTL DEF ArbSpec

-----------------------------------------------------------------------------
(* WsTransport: a provider has one set of watchers at most, which can be   *)
(* stopped; somebody is listened to while the source runs, and what is left*)
(* behind when it does not run starts nothing.                             *)
WatcherSets == [open: 0 .. 1, held: 0 .. 1, heads: BOOLEAN]

WatchersOK(w) ==
    /\ w \in [Providers -> WatcherSets]
    /\ \A p \in Providers : w[p].open = w[p].held

TransportTypes ==
    /\ sourcePhase \in {"new", "started", "stopped"} /\ answering \subseteq Providers
    /\ WatchersOK(watchers) /\ primaryName \in Providers \cup {"primary"}
    /\ fresh \subseteq Providers /\ beating \subseteq Providers
    /\ armed \in [Providers -> 0 .. MaxTimers] /\ batch \in [Providers -> Seq(PoolLogs)]

KeysOK ==
    /\ recentKeys \in Seq(PoolLogs) /\ Len(recentKeys) <= DedupeCapacity
    /\ reported \subseteq PoolLogs /\ ToSet(recentKeys) \subseteq reported

Listens == \E p \in Providers : watchers[p].open = 1
AtRest == beating = {} /\ \A p \in Providers : watchers[p].open = 0 /\ armed[p] = 0

SourceInv ==
    /\ TransportTypes /\ KeysOK
    /\ IF sourcePhase = "started" THEN Listens ELSE AtRest

LEMMA LeastIndex ==
    ASSUME NEW S, S \subseteq Nat, S # {}
    PROVE  Min(S) \in S
<1> DEFINE R == {p \in Nat \X Nat : p[1] < p[2]}
<1>1. IsWellFoundedOn(R, Nat)
  BY NatLessThanWellFounded DEF OpToRel
<1>2. PICK x \in S : \A y \in S : ~ (<<y, x>> \in R)
  BY <1>1, WFMin
<1>3. ASSUME NEW y \in S PROVE x <= y
  <2>1. x \in Nat /\ y \in Nat /\ ~ (<<y, x>> \in R)
    BY <1>2
  <2>2. ~ (y < x)
    BY <2>1
  <2> QED BY <2>1, <2>2
<1> QED BY <1>3 DEF Min

LEMMA AlternateProvides ==
    ASSUME NEW p \in Providers
    PROVE  Alternate(p) \in Providers
<1> DEFINE others == {i \in DOMAIN Endpoints : Endpoints[i].url # Endpoint(p).url}
           crossVendor == {i \in others : Endpoints[i].host # Endpoint(p).host}
           chosen == IF crossVendor # {} THEN crossVendor ELSE others
<1>1. DOMAIN Endpoints \subseteq Nat
  BY TransportAssumption
<1>2. Alternate(p) = IF others = {} THEN p ELSE Endpoints[Min(chosen)].name
  BY DEF Alternate
<1>3. chosen \subseteq DOMAIN Endpoints /\ (others # {} => chosen # {})
  OBVIOUS
<1> HIDE DEF others, chosen
<1>4. others # {} => Min(chosen) \in DOMAIN Endpoints
  BY <1>1, <1>3, LeastIndex
<1> QED BY <1>2, <1>4 DEF Providers

(* subscribeProvider after stopProviderSubscriptions: one set of watchers. *)
LEMMA UnsubscribedOK ==
    ASSUME NEW w, WatchersOK(w), NEW p \in Providers
    PROVE  /\ WatchersOK(Unsubscribed(w, p)) /\ Unsubscribed(w, p)[p].open = 0
           /\ \A q \in Providers \ {p} : Unsubscribed(w, p)[q] = w[q]
<1>1. w[p].open \in {0, 1} /\ w[p].open = w[p].held
  BY DEF WatchersOK, WatcherSets
<1>2. w[p].open - w[p].held = 0
  BY <1>1
<1> DEFINE closed == [open |-> w[p].open - w[p].held, held |-> 0, heads |-> FALSE]
<1>3. closed \in WatcherSets /\ closed.open = 0 /\ closed.held = 0
  BY <1>2 DEF WatcherSets
<1>4. Unsubscribed(w, p) = [w EXCEPT ![p] = closed]
  BY DEF Unsubscribed
<1> HIDE DEF closed
<1> QED BY <1>3, <1>4 DEF WatchersOK

LEMMA SubscribedOK ==
    ASSUME NEW w, WatchersOK(w), NEW p \in Providers, NEW heads \in BOOLEAN
    PROVE  /\ WatchersOK(Subscribed(w, p, heads)) /\ Subscribed(w, p, heads)[p].open = 1
           /\ Subscribed(w, p, heads)[p] \in WatcherSets
           /\ Subscribed(w, p, heads)[p].open = Subscribed(w, p, heads)[p].held
<1> DEFINE u == Unsubscribed(w, p)
           opened == [open |-> u[p].open + 1, held |-> u[p].held + 1, heads |-> heads]
<1>1. WatchersOK(u) /\ u[p].open = 0 /\ u[p].held = 0
  BY UnsubscribedOK DEF WatchersOK
<1>2. Subscribed(w, p, heads) = [u EXCEPT ![p] = opened]
  BY DEF Subscribed
<1>3. opened \in WatcherSets /\ opened.open = 1 /\ opened.held = 1
  BY <1>1 DEF WatcherSets
<1> HIDE DEF u, opened
<1> QED BY <1>1, <1>2, <1>3 DEF WatchersOK

LEMMA RearmedOK ==
    ASSUME TransportTypes, NEW p \in Providers
    PROVE  Rearmed(p) \in [Providers -> 0 .. MaxTimers]
BY TransportAssumption DEF TransportTypes, Rearmed

(* FixedSizeDedupe.add.                                                    *)
LEMMA RememberedOK ==
    ASSUME KeysOK, NEW log \in PoolLogs
    PROVE  /\ Remembered(log) \in Seq(PoolLogs) /\ Len(Remembered(log)) <= DedupeCapacity
           /\ ToSet(Remembered(log)) \subseteq reported \cup {log}
<1> DEFINE kept == IF Len(recentKeys) < DedupeCapacity THEN recentKeys ELSE Tail(recentKeys)
<1>1. recentKeys \in Seq(PoolLogs) /\ Len(recentKeys) \in Nat /\ Len(recentKeys) <= DedupeCapacity
      /\ DedupeCapacity \in Nat \ {0}
  BY TransportAssumption DEF KeysOK
<1>2. kept \in Seq(PoolLogs) /\ Len(kept) < DedupeCapacity /\ ToSet(kept) \subseteq ToSet(recentKeys)
  <2>1. CASE Len(recentKeys) < DedupeCapacity
    BY <1>1, <2>1
  <2>2. CASE Len(recentKeys) >= DedupeCapacity
    <3>1. recentKeys # <<>> /\ kept = Tail(recentKeys)
      BY <1>1, <2>2
    <3>2. /\ Tail(recentKeys) \in Seq(PoolLogs) /\ Len(Tail(recentKeys)) = Len(recentKeys) - 1
          /\ \A i \in 1 .. Len(recentKeys) - 1 :
                Tail(recentKeys)[i] = recentKeys[i + 1] /\ i + 1 \in 1 .. Len(recentKeys)
      BY <1>1, <3>1
    <3> HIDE DEF kept
    <3> QED BY <1>1, <3>1, <3>2 DEF ToSet
  <2> QED BY <1>1, <2>1, <2>2
<1> HIDE DEF kept
<1>3. /\ Append(kept, log) \in Seq(PoolLogs) /\ Len(Append(kept, log)) <= DedupeCapacity
      /\ ToSet(Append(kept, log)) \subseteq ToSet(kept) \cup {log}
  <2>1. /\ Append(kept, log) \in Seq(PoolLogs) /\ Len(Append(kept, log)) = Len(kept) + 1
        /\ \A i \in 1 .. Len(kept) + 1 : Append(kept, log)[i] = IF i = Len(kept) + 1 THEN log ELSE kept[i]
    BY <1>2
  <2>2. Len(kept) \in Nat
    BY <1>2
  <2> QED BY <1>1, <1>2, <2>1, <2>2 DEF ToSet
<1>4. Remembered(log) = IF log \in ToSet(recentKeys) THEN recentKeys ELSE Append(kept, log)
  BY DEF Remembered, kept
<1>5. ToSet(recentKeys) \subseteq reported
  BY DEF KeysOK
<1> QED BY <1>1, <1>2, <1>3, <1>4, <1>5

LEMMA SourceInit == TransportInit => SourceInv
<1> SUFFICES ASSUME TransportInit PROVE SourceInv
  OBVIOUS
<1>1. Closed \in WatcherSets /\ Closed.open = 0 /\ Closed.held = 0
  BY DEF Closed, WatcherSets
<1>2. WatchersOK(watchers) /\ \A p \in Providers : watchers[p].open = 0
  BY <1>1 DEF TransportInit, WatchersOK
<1>3. TransportTypes /\ AtRest
  BY <1>2, TransportAssumption DEF TransportInit, TransportTypes, AtRest
<1>4. KeysOK
  BY TransportAssumption DEF TransportInit, KeysOK, ToSet
<1> QED BY <1>3, <1>4 DEF TransportInit, SourceInv

-----------------------------------------------------------------------------
(* The steps, each with the step of EventSource that it is.                *)
LEMMA StartStep ==
    ASSUME SourceInv, StartSource
    PROVE  SourceInv' /\ Abstract!Begin
<1>1. Providers # {}
  BY TransportAssumption DEF Providers
<1>2. \A p \in Providers : watchers'[p] = [open |-> 1, held |-> 1, heads |-> p = primaryName]
  BY DEF StartSource
<1>3. WatchersOK(watchers') /\ \A p \in Providers : watchers'[p].open = 1
  BY <1>2 DEF StartSource, WatchersOK, WatcherSets
<1>4. /\ sourcePhase = "new" /\ sourcePhase' = "started" /\ beating' = Providers
      /\ UNCHANGED <<answering, primaryName, fresh, armed, batch, recentKeys, reported>>
  BY DEF StartSource
<1>5. TransportTypes' /\ KeysOK'
  BY <1>3, <1>4 DEF SourceInv, TransportTypes, KeysOK
<1>6. Listens'
  BY <1>1, <1>3 DEF Listens
<1>7. {p \in Providers : watchers'[p].open > 0} = Providers
  BY <1>3
<1> QED BY <1>4, <1>5, <1>6, <1>7 DEF SourceInv, Abstract!Begin

(* Nothing that the detection sees.                                        *)
Unseen == UNCHANGED <<sourcePhase, watchers, batch, reported>>

LEMMA UnseenStutters == Unseen => UNCHANGED Abstract!sourceVars
BY DEF Unseen, Abstract!sourceVars

LEMMA UnseenStep ==
    ASSUME SourceInv, NEW p \in Providers,
           EndpointTurns(p) \/ WatcherError(p) \/ FallsSilent(p) \/ HeartbeatMissed(p)
    PROVE  SourceInv' /\ Unseen
<1>1. /\ Unseen /\ UNCHANGED <<primaryName, beating, recentKeys>>
      /\ answering' \subseteq Providers /\ fresh' \subseteq Providers
  BY DEF SourceInv, TransportTypes, Unseen, EndpointTurns, WatcherError, FallsSilent, HeartbeatMissed
<1>2. armed' = armed \/ (sourcePhase = "started" /\ armed' = Rearmed(p))
  BY DEF SourceInv, AtRest, EndpointTurns, WatcherError, FallsSilent, HeartbeatMissed
<1>3. armed' \in [Providers -> 0 .. MaxTimers]
  BY <1>2, RearmedOK DEF SourceInv, TransportTypes
<1>4. TransportTypes' /\ KeysOK'
  BY <1>1, <1>3 DEF SourceInv, TransportTypes, KeysOK, Unseen, WatchersOK
<1>5. IF sourcePhase' = "started" THEN Listens' ELSE AtRest'
  BY <1>1, <1>2 DEF SourceInv, Listens, AtRest, Unseen
<1> QED BY <1>1, <1>4, <1>5 DEF SourceInv

LEMMA DeliverStep ==
    ASSUME SourceInv, NEW p \in Providers, NEW logs \in Batches, LogsArrive(p, logs)
    PROVE  SourceInv' /\ Abstract!TakeIn(p)
<1>1. /\ watchers[p].open > 0 /\ batch[p] = <<>> /\ fresh' = fresh \cup {p}
      /\ batch' = [batch EXCEPT ![p] = logs]
      /\ UNCHANGED <<sourcePhase, answering, watchers, primaryName, beating, armed, recentKeys, reported>>
  BY DEF LogsArrive
<1>2. logs \in Seq(PoolLogs) /\ ToSet(logs) \subseteq PoolLogs
  BY TransportAssumption DEF ToSet
<1>3. SourceInv'
  BY <1>1, <1>2 DEF SourceInv, TransportTypes, WatchersOK, KeysOK, Listens, AtRest
<1>4. \A q \in Providers : batch'[q] = IF q = p THEN logs ELSE batch[q]
  BY <1>1 DEF SourceInv, TransportTypes
<1>5. ToSet(batch[p]) = {}
  BY <1>1 DEF ToSet
<1>6. [q \in Providers |-> ToSet(batch'[q])] =
        [[q \in Providers |-> ToSet(batch[q])] EXCEPT ![p] = @ \cup ToSet(logs)]
  BY <1>4, <1>5
<1>7. p \in {q \in Providers : watchers[q].open > 0}
  BY <1>1
<1> QED BY <1>1, <1>2, <1>3, <1>6, <1>7 DEF Abstract!TakeIn

LEMMA TailSet ==
    ASSUME NEW S, NEW s \in Seq(S), s # <<>>
    PROVE  /\ Head(s) \in ToSet(s) /\ Head(s) \in S /\ Tail(s) \in Seq(S)
           /\ ToSet(Tail(s)) \in {ToSet(s), ToSet(s) \ {Head(s)}}
<1>1. Len(s) \in Nat /\ Len(s) >= 1 /\ Head(s) = s[1]
  BY EmptySeq
<1>2. /\ Tail(s) \in Seq(S) /\ Len(Tail(s)) = Len(s) - 1
      /\ \A i \in 1 .. Len(s) - 1 : Tail(s)[i] = s[i + 1]
  BY <1>1
<1>3. ToSet(Tail(s)) \subseteq ToSet(s)
  <2>1. \A i \in 1 .. Len(s) - 1 : i + 1 \in 1 .. Len(s)
    BY <1>1
  <2> QED BY <1>2, <2>1 DEF ToSet
<1>4. ToSet(s) \ {Head(s)} \subseteq ToSet(Tail(s))
  <2>1. SUFFICES ASSUME NEW i \in 1 .. Len(s), s[i] # s[1] PROVE s[i] \in ToSet(Tail(s))
    BY <1>1 DEF ToSet
  <2>2. i - 1 \in 1 .. Len(s) - 1 /\ i = (i - 1) + 1
    BY <1>1, <2>1
  <2>3. Tail(s)[i - 1] = s[i]
    BY <1>2, <2>2
  <2>4. i - 1 \in DOMAIN Tail(s)
    BY <1>1, <1>2, <2>2
  <2> QED BY <2>3, <2>4 DEF ToSet
<1>5. Head(s) \in ToSet(s) /\ Head(s) \in S
  BY <1>1 DEF ToSet
<1> QED BY <1>2, <1>3, <1>4, <1>5

LEMMA ReportStep ==
    ASSUME SourceInv, NEW p \in Providers, ReportLog(p)
    PROVE  SourceInv' /\ Abstract!Report(p)
<1> DEFINE log == Head(batch[p])
<1>1. /\ batch[p] # <<>> /\ batch' = [batch EXCEPT ![p] = Tail(batch[p])]
      /\ recentKeys' = Remembered(log)
      /\ reported' = IF log \in ToSet(recentKeys) THEN reported ELSE reported \cup {log}
      /\ UNCHANGED <<sourcePhase, answering, watchers, primaryName, fresh, beating, armed>>
  BY DEF ReportLog
<1>2. /\ batch[p] \in Seq(PoolLogs) /\ KeysOK /\ TransportTypes
      /\ IF sourcePhase = "started" THEN Listens ELSE AtRest
  BY DEF SourceInv, TransportTypes
<1>3. /\ log \in ToSet(batch[p]) /\ log \in PoolLogs /\ Tail(batch[p]) \in Seq(PoolLogs)
      /\ ToSet(Tail(batch[p])) \in {ToSet(batch[p]), ToSet(batch[p]) \ {log}}
  BY <1>1, <1>2, TailSet
<1> HIDE DEF log
<1>4. reported' = reported \cup {log}
  BY <1>1, <1>2 DEF KeysOK
<1>5. KeysOK'
  BY <1>1, <1>2, <1>3, <1>4, RememberedOK DEF KeysOK
<1>6. TransportTypes'
  BY <1>1, <1>2, <1>3 DEF TransportTypes, WatchersOK
<1>7. SourceInv'
  BY <1>1, <1>2, <1>5, <1>6 DEF SourceInv, Listens, AtRest
<1> DEFINE pending == [q \in Providers |-> ToSet(batch[q])]
<1>8. \A q \in Providers : batch'[q] = IF q = p THEN Tail(batch[p]) ELSE batch[q]
  BY <1>1, <1>2 DEF TransportTypes
<1>9. pending' = [pending EXCEPT ![p] = @ \ {log}] \/ pending' = pending
  <2>1. CASE ToSet(Tail(batch[p])) = ToSet(batch[p])
    BY <1>8, <2>1
  <2>2. CASE ToSet(Tail(batch[p])) = ToSet(batch[p]) \ {log}
    BY <1>8, <2>2
  <2> QED BY <1>3, <2>1, <2>2
<1>10. log \in pending[p]
  BY <1>3
<1> QED BY <1>1, <1>4, <1>7, <1>9, <1>10 DEF Abstract!Report

(* A change of the watchers of a source that runs.                         *)
LEMMA WatchersMove ==
    ASSUME SourceInv, sourcePhase = "started", WatchersOK(watchers'), Listens',
           UNCHANGED <<sourcePhase, answering, fresh, batch, recentKeys, reported>>,
           primaryName' \in Providers \cup {"primary"}, beating' \subseteq Providers,
           armed' \in [Providers -> 0 .. MaxTimers]
    PROVE  SourceInv' /\ Abstract!Move
<1>1. SourceInv'
  BY DEF SourceInv, TransportTypes, KeysOK
<1>2. {p \in Providers : watchers'[p].open > 0} \in (SUBSET Providers) \ {{}}
  BY DEF Listens
<1> QED BY <1>1, <1>2 DEF Abstract!Move

LEMMA ReconnectStep ==
    ASSUME SourceInv, NEW p \in Providers, Reconnect(p)
    PROVE  SourceInv' /\ Abstract!Move
<1> DEFINE alternate == Alternate(p)
           closed == Unsubscribed(watchers, p)
<1>1. alternate \in Providers
  BY AlternateProvides
<1>2. WatchersOK(watchers) /\ armed \in [Providers -> 0 .. MaxTimers] /\ beating \subseteq Providers
      /\ primaryName \in Providers \cup {"primary"}
  BY DEF SourceInv, TransportTypes
<1>3. /\ armed[p] > 0 /\ armed' = [armed EXCEPT ![p] = @ - 1]
      /\ watchers' = Subscribed(closed, alternate, alternate = "primary")
      /\ beating' = beating \cup {alternate}
      /\ UNCHANGED <<sourcePhase, answering, primaryName, fresh, batch, recentKeys, reported>>
  BY DEF Reconnect
<1>4. WatchersOK(closed)
  BY <1>2, UnsubscribedOK
<1> HIDE DEF alternate, closed
<1>5. (alternate = "primary") \in BOOLEAN
  OBVIOUS
<1>6. WatchersOK(watchers') /\ watchers'[alternate].open = 1
  BY <1>1, <1>3, <1>4, <1>5, SubscribedOK
<1>7. Listens'
  BY <1>1, <1>6 DEF Listens
<1>8. sourcePhase = "started"
  BY <1>3 DEF SourceInv, AtRest
<1>9. armed' \in [Providers -> 0 .. MaxTimers]
  BY <1>2, <1>3, TransportAssumption
<1> QED BY <1>1, <1>2, <1>3, <1>6, <1>7, <1>8, <1>9, WatchersMove

LEMMA PromoteStep ==
    ASSUME SourceInv, NEW best \in Providers, PromoteBestProvider(best)
    PROVE  SourceInv' /\ Abstract!Move
<1>1. /\ sourcePhase = "started" /\ primaryName' = best /\ beating' = Providers
      /\ watchers' = [p \in Providers |-> Subscribed(watchers, p, p = best)[p]]
      /\ UNCHANGED <<sourcePhase, answering, fresh, armed, batch, recentKeys, reported>>
  BY DEF PromoteBestProvider
<1>2. WatchersOK(watchers) /\ armed \in [Providers -> 0 .. MaxTimers]
  BY DEF SourceInv, TransportTypes
<1>3. ASSUME NEW p \in Providers
      PROVE  watchers'[p] \in WatcherSets /\ watchers'[p].open = watchers'[p].held /\ watchers'[p].open = 1
  <2>1. watchers'[p] = Subscribed(watchers, p, p = best)[p] /\ (p = best) \in BOOLEAN
    BY <1>1
  <2> DEFINE heads == p = best
  <2> HIDE DEF heads
  <2>2. heads \in BOOLEAN /\ watchers'[p] = Subscribed(watchers, p, heads)[p]
    BY <2>1 DEF heads
  <2>3. /\ Subscribed(watchers, p, heads)[p].open = 1 /\ Subscribed(watchers, p, heads)[p] \in WatcherSets
        /\ Subscribed(watchers, p, heads)[p].open = Subscribed(watchers, p, heads)[p].held
    BY <1>2, <2>2, SubscribedOK
  <2> QED BY ONLY <2>2, <2>3
<1>4. WatchersOK(watchers') /\ Listens'
  BY <1>1, <1>3 DEF WatchersOK, Listens
<1> QED BY <1>1, <1>2, <1>4, WatchersMove

LEMMA StopStep ==
    ASSUME SourceInv, StopAll
    PROVE  SourceInv' /\ Abstract!End
<1>1. /\ sourcePhase = "started" /\ sourcePhase' = "stopped"
      /\ fresh' = {} /\ beating' = {} /\ recentKeys' = <<>>
      /\ armed' = [p \in Providers |-> 0]
      /\ watchers' = [p \in Providers |-> [Closed EXCEPT !.open = watchers[p].open - watchers[p].held]]
      /\ UNCHANGED <<answering, primaryName, batch, reported>>
  BY DEF StopAll
<1>2. WatchersOK(watchers) /\ KeysOK /\ TransportTypes
  BY DEF SourceInv, TransportTypes
<1>3. ASSUME NEW p \in Providers
      PROVE  watchers'[p] \in WatcherSets /\ watchers'[p].open = 0 /\ watchers'[p].held = 0
  <2>1. watchers[p].open \in {0, 1} /\ watchers[p].open = watchers[p].held
    BY <1>2 DEF WatchersOK, WatcherSets
  <2>2. watchers[p].open - watchers[p].held = 0
    BY <2>1
  <2>3. watchers'[p] = [open |-> 0, held |-> 0, heads |-> FALSE]
    BY <1>1, <2>2 DEF Closed
  <2> QED BY <2>3 DEF WatcherSets
<1>4. WatchersOK(watchers')
  BY <1>1, <1>3 DEF WatchersOK
<1>5. KeysOK'
  BY <1>1, <1>2, TransportAssumption DEF KeysOK, ToSet
<1>6. TransportTypes' /\ AtRest'
  BY <1>1, <1>2, <1>3, <1>4, TransportAssumption DEF TransportTypes, AtRest
<1>7. {p \in Providers : watchers'[p].open > 0} = {}
  BY <1>3
<1> QED BY <1>1, <1>5, <1>6, <1>7 DEF SourceInv, Abstract!End

LEMMA SourceStep ==
    ASSUME SourceInv, [TransportNext]_transportVars
    PROVE  SourceInv' /\ [Abstract!Next]_(Abstract!sourceVars)
<1>1. CASE UNCHANGED transportVars
  <2>1. SourceInv' /\ Unseen
    BY <1>1 DEF transportVars, SourceInv, TransportTypes, WatchersOK, KeysOK, Listens, AtRest, Unseen
  <2> QED BY <2>1, UnseenStutters
<1>2. CASE StartSource
  BY <1>2, StartStep DEF Abstract!Next
<1>3. CASE StopAll
  BY <1>3, StopStep DEF Abstract!Next
<1>4. ASSUME NEW p \in Providers, ReportLog(p) \/ \E logs \in Batches : LogsArrive(p, logs)
      PROVE  SourceInv' /\ [Abstract!Next]_(Abstract!sourceVars)
  BY <1>4, ReportStep, DeliverStep DEF Abstract!Next
<1>5. ASSUME NEW p \in Providers, Reconnect(p) \/ PromoteBestProvider(p)
      PROVE  SourceInv' /\ [Abstract!Next]_(Abstract!sourceVars)
  BY <1>5, ReconnectStep, PromoteStep DEF Abstract!Next
<1>6. ASSUME NEW p \in Providers,
             EndpointTurns(p) \/ WatcherError(p) \/ FallsSilent(p) \/ HeartbeatMissed(p)
      PROVE  SourceInv' /\ [Abstract!Next]_(Abstract!sourceVars)
  BY <1>6, UnseenStep, UnseenStutters
<1> QED BY <1>1, <1>2, <1>3, <1>4, <1>5, <1>6 DEF TransportNext

LEMMA SourceInitMaps == TransportInit => Abstract!Init
<1> SUFFICES ASSUME TransportInit PROVE Abstract!Init
  OBVIOUS
<1>1. {p \in Providers : watchers[p].open > 0} = {}
  BY DEF TransportInit, Closed
<1>2. [p \in Providers |-> ToSet(batch[p])] = [p \in Providers |-> {}]
  BY DEF TransportInit, ToSet
<1> QED BY <1>1, <1>2 DEF TransportInit, Abstract!Init

(* The steps of EventSource: from its start to its stop the source listens *)
(* to somebody and then to nobody, and a log taken in leaves only by being *)
(* reported, whatever reconnects, promotions and late timers do and for    *)
(* any endpoints (MultiWsEventSource.ts:225-266,284-325,367-396).          *)
THEOREM SourceKeepsSteps == TransportSpec => Abstract!Steps
<1>1. TransportInit => SourceInv /\ Abstract!Init
  BY SourceInit, SourceInitMaps
<1>2. SourceInv /\ [TransportNext]_transportVars => SourceInv' /\ [Abstract!Next]_(Abstract!sourceVars)
  BY SourceStep
<1> QED BY <1>1, <1>2, PTL DEF TransportSpec, Abstract!Steps

(* A provider has one set of open watchers at most, which the source can   *)
(* stop, and a full dedupe makes room (MultiWsEventSource.ts:46-70,        *)
(* 411-418).                                                               *)
THEOREM TransportTypeCorrect == TransportSpec => []TransportTypeOK
<1>1. TransportInit => SourceInv
  BY SourceInit
<1>2. SourceInv /\ [TransportNext]_transportVars => SourceInv'
  BY SourceStep
<1>3. SourceInv => TransportTypeOK
  <2> SUFFICES ASSUME SourceInv PROVE TransportTypeOK
    OBVIOUS
  <2>1. watchers \in [Providers -> WatcherSets]
    BY DEF SourceInv, TransportTypes, WatchersOK
  <2>2. \A p \in Providers : batch[p] \in Seq(PoolLogs)
    BY DEF SourceInv, TransportTypes
  <2>3. \A s \in Seq(PoolLogs) : ToSet(s) \subseteq PoolLogs
    BY DEF ToSet
  <2> QED BY <2>1, <2>2, <2>3 DEF SourceInv, TransportTypes, WatchersOK, WatcherSets, KeysOK, TransportTypeOK
<1> QED BY <1>1, <1>2, <1>3, PTL DEF TransportSpec

-----------------------------------------------------------------------------
(* Shadow: the cap and the budget.  The counter of positions is taken      *)
(* modulo a product of rates, of which only the range matters.             *)
LEMMA CounterInRange ==
    ASSUME NEW counted \in Nat
    PROVE  counted % (SampleRate * RampRate) \in 0 .. SampleRate * RampRate
<1> DEFINE rate == SampleRate * RampRate
<1>1. rate \in Nat \ {0}
  BY SMT, ShadowAssumption
<1> HIDE DEF rate
<1>2. counted % rate \in 0 .. rate
  BY <1>1
<1> QED BY <1>2 DEF rate

(* The false negatives of a bucket are some of its samples.                *)
BucketOK(b) ==
    /\ DOMAIN b = {"count", "missed"}
    /\ b.count \in 0 .. MaxCounted /\ b.missed \in Nat /\ b.missed <= b.count

ShadowInv ==
    /\ ShadowTypeOK
    /\ DOMAIN buckets = BOOLEAN /\ \A e \in BOOLEAN : BucketOK(buckets[e])

(* A read that starts below the cap, and one that ends.                    *)
LEMMA FlyingOK ==
    ASSUME ShadowInv, NEW v \in Verdicts,
           \/ flying' = flying
           \/ flying[v] > 0 /\ flying' = [flying EXCEPT ![v] = @ - 1]
           \/ InFlight < MaxConcurrency /\ flying' = [flying EXCEPT ![v] = @ + 1]
    PROVE  flying' \in [Verdicts -> 0 .. MaxConcurrency] /\ InFlight' <= MaxConcurrency
<1>1. flying \in [Verdicts -> 0 .. MaxConcurrency] /\ InFlight <= MaxConcurrency
  BY DEF ShadowInv, ShadowTypeOK
<1>2. MaxConcurrency \in Nat
  BY ShadowAssumption
<1>3. flying["quiet"] \in 0 .. MaxConcurrency /\ flying["alarmed"] \in 0 .. MaxConcurrency
  BY <1>1 DEF Verdicts
<1>4. CASE v = "quiet"
  <2>1. flying'["quiet"] \in 0 .. MaxConcurrency /\ flying'["alarmed"] = flying["alarmed"]
    BY <1>1, <1>2, <1>3, <1>4 DEF Verdicts, InFlight
  <2> QED BY <1>1, <1>2, <1>3, <1>4, <2>1 DEF Verdicts, InFlight
<1>5. CASE v = "alarmed"
  <2>1. flying'["alarmed"] \in 0 .. MaxConcurrency /\ flying'["quiet"] = flying["quiet"]
    BY <1>1, <1>2, <1>3, <1>5 DEF Verdicts, InFlight
  <2> QED BY <1>1, <1>2, <1>3, <1>5, <2>1 DEF Verdicts, InFlight
<1> QED BY <1>4, <1>5 DEF Verdicts

LEMMA ShadowInitOK == ShadowInit => ShadowInv
<1> SUFFICES ASSUME ShadowInit PROVE ShadowInv
  OBVIOUS
<1>1. /\ 0 \in 0 .. MaxPerDay /\ 0 \in 0 .. MaxConcurrency /\ 0 \in 0 .. MaxCounted
      /\ 0 \in 0 .. Days /\ 1 \in 1 .. Days
  BY ShadowAssumption
<1>2. 0 \in 0 .. SampleRate * RampRate
  BY SMT, ShadowAssumption
<1>3. flying["quiet"] = 0 /\ flying["alarmed"] = 0
  BY DEF ShadowInit, Verdicts
<1>4. \A e \in BOOLEAN : BucketOK(buckets[e])
  BY <1>1 DEF ShadowInit, BucketOK
<1>5. ShadowTypeOK
  BY <1>1, <1>2, <1>3, <1>4, ShadowAssumption DEF ShadowInit, ShadowTypeOK, InFlight, BucketOK
<1> QED BY <1>4, <1>5 DEF ShadowInv, ShadowInit

LEMMA ShadowStep == ShadowInv /\ [ShadowNext]_shadowVars => ShadowInv'
<1> SUFFICES ASSUME ShadowInv, [ShadowNext]_shadowVars PROVE ShadowInv'
  OBVIOUS
<1>1. /\ day \in 1 .. Days /\ dayKey \in 0 .. Days /\ ramping \in BOOLEAN
      /\ samplesToday \in 0 .. MaxPerDay /\ sampleCounter \in Nat
      /\ sampleCounter \in 0 .. SampleRate * RampRate
      /\ MaxPerDay \in Nat \ {0} /\ Days \in Nat \ {0} /\ MaxCounted \in Nat
  BY ShadowAssumption DEF ShadowInv, ShadowTypeOK
<1>2. DOMAIN buckets = BOOLEAN /\ \A e \in BOOLEAN : BucketOK(buckets[e])
  BY DEF ShadowInv
<1>3. ASSUME NEW v \in Verdicts, MaybeSample(v) PROVE ShadowInv'
  <2>1. sampleCounter' \in 0 .. SampleRate * RampRate
    BY <1>1, <1>3, CounterInRange DEF MaybeSample
  <2>2. dayKey' \in 0 .. Days /\ samplesToday' \in 0 .. MaxPerDay
    BY <1>1, <1>3 DEF MaybeSample
  <2>3. \/ flying' = flying
        \/ InFlight < MaxConcurrency /\ flying' = [flying EXCEPT ![v] = @ + 1]
    BY <1>3 DEF MaybeSample
  <2>4. flying' \in [Verdicts -> 0 .. MaxConcurrency] /\ InFlight' <= MaxConcurrency
    BY <2>3, FlyingOK
  <2>5. UNCHANGED <<day, ramping, buckets>>
    BY <1>3 DEF MaybeSample
  <2> QED BY <1>1, <1>2, <2>1, <2>2, <2>4, <2>5 DEF ShadowInv, ShadowTypeOK, BucketOK
<1>4. ASSUME NEW v \in Verdicts, SampleAnswers(v) PROVE ShadowInv'
  <2>1. flying' \in [Verdicts -> 0 .. MaxConcurrency] /\ InFlight' <= MaxConcurrency
    BY <1>4, FlyingOK DEF SampleAnswers
  <2>2. PICK e \in BOOLEAN, missed \in {0, 1} :
            /\ buckets[e].count < MaxCounted
            /\ buckets' = [buckets EXCEPT ![e] = [count |-> buckets[e].count + 1,
                                                  missed |-> buckets[e].missed + missed]]
    BY <1>4 DEF SampleAnswers
  <2>3. BucketOK([count |-> buckets[e].count + 1, missed |-> buckets[e].missed + missed])
    BY <1>1, <1>2, <2>2 DEF BucketOK
  <2>4. DOMAIN buckets' = BOOLEAN /\ \A d \in BOOLEAN : BucketOK(buckets'[d])
    BY <1>2, <2>2, <2>3
  <2>5. UNCHANGED <<day, ramping, dayKey, samplesToday, sampleCounter>>
    BY <1>4 DEF SampleAnswers
  <2> QED BY <1>1, <2>1, <2>4, <2>5 DEF ShadowInv, ShadowTypeOK, BucketOK
<1>5. ASSUME NEW v \in Verdicts, SampleFails(v) PROVE ShadowInv'
  <2>1. flying' \in [Verdicts -> 0 .. MaxConcurrency] /\ InFlight' <= MaxConcurrency
    BY <1>5, FlyingOK DEF SampleFails
  <2>2. UNCHANGED <<day, ramping, dayKey, samplesToday, sampleCounter, buckets>>
    BY <1>5 DEF SampleFails
  <2> QED BY <1>1, <1>2, <2>1, <2>2 DEF ShadowInv, ShadowTypeOK, BucketOK
<1>6. CASE DayPasses \/ RampEnds \/ UNCHANGED shadowVars
  <2>1. /\ UNCHANGED <<dayKey, samplesToday, sampleCounter, flying, buckets>>
        /\ day' \in 1 .. Days /\ ramping' \in BOOLEAN
    <3>1. CASE DayPasses
      BY <1>1, <3>1 DEF DayPasses
    <3>2. CASE RampEnds
      BY <1>1, <3>2 DEF RampEnds
    <3>3. CASE UNCHANGED shadowVars
      BY <1>1, <3>3 DEF shadowVars
    <3> QED BY <1>6, <3>1, <3>2, <3>3
  <2>2. flying' \in [Verdicts -> 0 .. MaxConcurrency] /\ InFlight' <= MaxConcurrency
    BY <2>1 DEF ShadowInv, ShadowTypeOK, InFlight
  <2> QED BY <1>1, <1>2, <2>1, <2>2 DEF ShadowInv, ShadowTypeOK, BucketOK
<1> QED BY <1>3, <1>4, <1>5, <1>6 DEF ShadowNext

(* However samples start, answer and fail, across days and the end of the  *)
(* ramp: no more reads in flight than shadowMaxConcurrency, no more samples*)
(* in a day than shadowMaxSamplesPerDay, and in a bucket no more misses    *)
(* than samples (shadowValidator.ts:143,186-190,217).                      *)
THEOREM ShadowCapsHold == ShadowSpec => []ShadowTypeOK
<1>1. ShadowInv => ShadowTypeOK
  BY DEF ShadowInv
<1> QED BY <1>1, ShadowInitOK, ShadowStep, PTL DEF ShadowSpec

-----------------------------------------------------------------------------
(* PegPrices, for any prices, heartbeats and number of refreshes in flight.*)
Prices == [PegAssets -> Worths \cup {0}]
Feeds == [from: {"none", "chainlink", "aave"}, round: 0 .. Hours]
Fills == [at: {"idle", "prices", "peg"}, targets: SUBSET PegAssets, since: 0 .. Hours,
          held: Worths \cup {0}]

(* There is a price of USDbC only where there is one of USDC, and a fill   *)
(* that kept the price of USDC kept a real one.  Without the first, a      *)
(* position would be judged with a USDbC price and no reference.           *)
PegBacked(prices) == prices["usdbc"] # 0 => prices["usdc"] # 0
HeldBacked ==
    \A s \in Slots : fill[s].at = "peg" => worth["usdc"] # 0 /\ fill[s].held # 0

PegInv == PegTypeOK /\ PegBacked(worth) /\ HeldBacked /\ JudgedAtPeg

-----------------------------------------------------------------------------
(* The peg *)

LEMMA PegAssetsApart == {"usdc", "usdbc"} \subseteq PegAssets /\ "usdc" # "usdbc"
BY DEF PegAssets

LEMMA WorthsPositive == 0 \notin Worths /\ Worths \subseteq Nat
BY PegPricesAssumption

(* A peg to a price that there is backs USDbC and leaves USDC alone. *)
LEMMA PegKeeps ==
    ASSUME NEW prices \in Prices, NEW peg \in Worths \cup {0}, prices["usdc"] # 0
    PROVE  /\ WithPeg(prices, peg) \in Prices
           /\ PegBacked(WithPeg(prices, peg))
           /\ WithPeg(prices, peg)["usdc"] = prices["usdc"]
           /\ WithPeg(prices, peg)["usdbc"] = peg
BY PegAssetsApart DEF Prices, WithPeg, PegBacked

LEMMA PeggedKeeps ==
    ASSUME NEW prices \in Prices, prices["usdc"] # 0
    PROVE  /\ Pegged(prices) \in Prices
           /\ PegBacked(Pegged(prices))
           /\ Pegged(prices)["usdc"] = prices["usdc"]
           /\ Pegged(prices)["usdbc"] = prices["usdc"]
<1>1. prices["usdc"] \in Worths \cup {0}
  BY PegAssetsApart DEF Prices
<1> QED
  BY <1>1, PegKeeps DEF Pegged

(* What a recomputation does to the prices, and what it judges with. *)
LEMMA RecomputeKeeps ==
    ASSUME NEW holds, NEW prices \in Prices, PegBacked(prices), NEW feed \in Feeds, NEW clock,
           Recompute(holds, prices, feed, clock)
    PROVE  /\ worth' \in Prices /\ PegBacked(worth') /\ worth'["usdc"] = prices["usdc"]
           /\ JudgedAtPeg' /\ judged' \in [peg: Worths \cup {0}, ref: Worths \cup {0}]
<1> DEFINE synced == Synced(prices)
           peg == Materialized(synced, feed, clock)
<1>1. /\ synced \in Prices /\ PegBacked(synced) /\ synced["usdc"] = prices["usdc"]
      /\ synced["usdbc"] \in {0, synced["usdc"]}
  BY PeggedKeeps DEF Synced, PegBacked
<1>2. /\ peg \in Prices /\ PegBacked(peg) /\ peg["usdc"] = prices["usdc"]
      /\ peg["usdbc"] \in {0, peg["usdc"]}
  <2>1. CASE Healthy(synced, feed, clock)
    BY <2>1, <1>1, PeggedKeeps DEF Materialized, Healthy
  <2>2. CASE ~Healthy(synced, feed, clock)
    BY <2>2, <1>1 DEF Materialized
  <2> QED
    BY <2>1, <2>2
<1>3. CASE ~pricesWarm
  BY <1>3, WorthsPositive DEF Recompute, NotJudged, JudgedAtPeg
<1>4. CASE pricesWarm
  <2>1. worth' = peg
    BY <1>4 DEF Recompute
  <2>2. Effective("usdbc", peg, feed, clock) \in {0, peg["usdc"]}
    BY <1>2, PegAssetsApart DEF Effective
  <2>3. peg["usdc"] \in Worths \cup {0}
    BY <1>2, PegAssetsApart DEF Prices
  <2>4. judged' = NotJudged \/ judged' = [peg |-> peg["usdc"], ref |-> peg["usdc"]]
    <3>1. CASE judged' = NotJudged
      BY <3>1
    <3>2. CASE judged' # NotJudged
      <4>1. /\ judged' = [peg |-> Effective("usdbc", peg, feed, clock), ref |-> peg["usdc"]]
            /\ Effective("usdbc", peg, feed, clock) # 0
        BY <3>2, <1>4 DEF Recompute
      <4> QED
        BY <4>1, <2>2
    <3> QED
      BY <3>1, <3>2
  <2> QED
    BY <2>1, <2>3, <2>4, <1>2 DEF NotJudged, JudgedAtPeg
<1> QED
  BY <1>3, <1>4

-----------------------------------------------------------------------------
(* Every step keeps the invariant *)

LEMMA PegInitInv == PegInit => PegInv
<1> SUFFICES ASSUME PegInit PROVE PegInv
  OBVIOUS
<1>1. PegTypeOK
  <2>1. 0 \in 0 .. Hours
    BY PegPricesAssumption
  <2>2. reserves \subseteq PegAssets
    BY DEF PegInit, GapFillAssets, PegAssets
  <2>3. NoGapFill \in Fills
    BY <2>1 DEF NoGapFill, Fills
  <2> QED
    BY <2>1, <2>2, <2>3 DEF PegInit, PegTypeOK, NotJudged, Fills
<1>2. PegBacked(worth) /\ HeldBacked /\ JudgedAtPeg
  BY PegAssetsApart DEF PegInit, PegBacked, HeldBacked, JudgedAtPeg, NoGapFill, NotJudged
<1> QED
  BY <1>1, <1>2 DEF PegInv

(* The end of a fill leaves the others as they are. *)
LEMMA FillEndsKeeps ==
    ASSUME PegTypeOK, NEW s \in Slots, FillEnds(s), startup \in {"fill", "live"}
    PROVE  /\ fill' \in [Slots -> Fills] /\ startup' \in {"fill", "live"}
           /\ \A x \in Slots : fill'[x].at = "peg" => x # s /\ fill'[x] = fill[x]
<1>1. NoGapFill \in Fills /\ NoGapFill.at = "idle"
  BY PegPricesAssumption DEF NoGapFill, Fills
<1> QED
  BY <1>1 DEF FillEnds, PegTypeOK, Fills

LEMMA FetchingTyped ==
    ASSUME PegTypeOK, NEW targets \in SUBSET PegAssets
    PROVE  Fetching(targets) \in Fills /\ Fetching(targets).at = "prices"
BY DEF Fetching, Fills, PegTypeOK

LEMMA FeedsReadKeeps == PegInv /\ FeedsRead => PegInv'
<1> SUFFICES ASSUME PegInv, FeedsRead PROVE PegInv'
  OBVIOUS
<1> USE DEF PegInv
<1>1. reserves' \subseteq PegAssets
  BY PegAssetsApart DEF FeedsRead, PegTypeOK
<1>2. /\ worth' \in Prices /\ PegBacked(worth') /\ usdcFeed' \in Feeds /\ pricesWarm' \in BOOLEAN
      /\ worth["usdc"] # 0 => worth'["usdc"] # 0
  <2>1. CASE UNCHANGED <<pricesWarm, worth, usdcFeed>>
    BY <2>1 DEF PegTypeOK, Prices, Feeds, PegBacked
  <2>2. ASSUME NEW w \in Worths, NEW round \in 0 .. hour,
               worth' = [worth EXCEPT !["usdc"] = w],
               usdcFeed' = [from |-> "chainlink", round |-> round], pricesWarm' \in BOOLEAN
        PROVE  /\ worth' \in Prices /\ PegBacked(worth') /\ usdcFeed' \in Feeds
               /\ worth["usdc"] # 0 => worth'["usdc"] # 0
    <3>1. round \in 0 .. Hours
      BY PegPricesAssumption DEF PegTypeOK
    <3> QED
      BY <2>2, <3>1, PegAssetsApart, WorthsPositive DEF PegTypeOK, Prices, Feeds, PegBacked
  <2> QED
    BY <2>1, <2>2 DEF FeedsRead
<1>3. /\ startup' \in {"fill", "live"} /\ fill' \in [Slots -> Fills]
      /\ \A s \in Slots : fill'[s].at = "peg" => fill'[s] = fill[s]
  <2>1. Needed(reserves', worth') \subseteq PegAssets
    BY <1>1 DEF Needed
  <2>2. Fetching(Needed(reserves', worth')) \in Fills /\ Fetching(Needed(reserves', worth')).at = "prices"
    BY <2>1, FetchingTyped
  <2>3. fill \in [Slots -> Fills] /\ "boot" \in Slots
    BY DEF PegTypeOK, Fills, Slots
  <2>4. CASE Needed(reserves', worth') = {}
    BY <2>3, <2>4 DEF FeedsRead
  <2>5. CASE Needed(reserves', worth') # {}
    <3> DEFINE new == Fetching(Needed(reserves', worth'))
    <3>1. fill' = [fill EXCEPT !["boot"] = new] /\ startup' = "fill"
      BY <2>5 DEF FeedsRead
    <3>2. new \in Fills /\ new.at # "peg"
      BY <2>2
    <3> HIDE DEF new
    <3> QED
      BY <3>1, <3>2, <2>3
  <2> QED
    BY <2>4, <2>5
<1> QED
  BY <1>1, <1>2, <1>3 DEF FeedsRead, PegTypeOK, Prices, Feeds, Fills, HeldBacked, JudgedAtPeg

LEMMA PricesFetchedKeeps ==
    ASSUME PegInv, NEW s \in Slots, PricesFetched(s)
    PROVE  PegInv'
<1> USE DEF PegInv
<1>1. startup \in {"fill", "live"}
  BY DEF PricesFetched, Running
<1>2. PICK answer \in [fill[s].targets \ {"usdbc"} -> Worths \cup {0}] :
        PricesFetched(s)!2!(answer)
  BY DEF PricesFetched
<1> DEFINE filled == Filled(answer)
           feed == IF "usdc" \in DOMAIN answer /\ answer["usdc"] # 0
                   THEN [from |-> "aave", round |-> 0] ELSE usdcFeed
           healthy == Healthy(filled, feed, fill[s].since)
           pegged == "usdbc" \in fill[s].targets /\ healthy
<1>3. /\ filled \in Prices /\ PegBacked(filled)
      /\ worth["usdc"] # 0 => filled["usdc"] # 0
  BY PegAssetsApart DEF Filled, PegTypeOK, Prices, PegBacked
<1>4. /\ worth' \in Prices /\ PegBacked(worth') /\ worth'["usdc"] = filled["usdc"]
  <2>1. CASE pegged
    BY <2>1, <1>2, <1>3, PeggedKeeps DEF Healthy
  <2>2. CASE ~pegged
    BY <2>2, <1>2, <1>3
  <2> QED
    BY <2>1, <2>2
<1>5. usdcFeed' \in Feeds
  BY <1>2, PegPricesAssumption DEF PegTypeOK, Feeds
<1>6. /\ fill' \in [Slots -> Fills] /\ startup' \in {"fill", "live"}
      /\ \A x \in Slots : fill'[x].at = "peg" => worth'["usdc"] # 0 /\ fill'[x].held # 0
  <2>1. CASE "usdbc" \in fill[s].targets /\ ~healthy /\ filled["usdc"] # 0
    <3>1. fill' = [fill EXCEPT ![s].at = "peg", ![s].held = filled["usdc"]] /\ startup' = startup
      BY <2>1, <1>2
    <3>2. filled["usdc"] \in Worths \cup {0}
      BY <1>3, PegAssetsApart DEF Prices
    <3>3. worth'["usdc"] # 0 /\ filled["usdc"] # 0
      BY <2>1, <1>4
    <3> HIDE DEF filled, feed, healthy, pegged
    <3>4. fill \in [Slots -> Fills]
      BY DEF PegTypeOK, Fills
    <3>5. [fill[s] EXCEPT !.at = "peg", !.held = filled["usdc"]] \in Fills
      BY <3>2, <3>4 DEF Fills
    <3>6. fill' = [fill EXCEPT ![s] = [fill[s] EXCEPT !.at = "peg", !.held = filled["usdc"]]]
      BY <3>1
    <3>7. fill' \in [Slots -> Fills]
      BY <3>4, <3>5, <3>6
    <3>8. fill'[s].held = filled["usdc"]
      BY <3>4, <3>6 DEF Fills
    <3>9. \A x \in Slots \ {s} : fill'[x] = fill[x]
      BY <3>4, <3>6
    <3>10. \A x \in Slots \ {s} : fill[x].at = "peg" => fill[x].held # 0
      BY DEF HeldBacked
    <3> QED
      BY <3>1, <3>3, <3>7, <3>8, <3>9, <3>10, <1>1
  <2>2. CASE ~("usdbc" \in fill[s].targets /\ ~healthy /\ filled["usdc"] # 0)
    <3>1. FillEnds(s)
      BY <2>2, <1>2
    <3> QED
      BY <3>1, <1>1, <1>3, <1>4, FillEndsKeeps DEF HeldBacked
  <2> QED
    BY <2>1, <2>2
<1>7. UNCHANGED <<hour, pricesWarm, reserves, judged>>
  BY DEF PricesFetched
<1> QED
  BY <1>4, <1>5, <1>6, <1>7 DEF PegTypeOK, Prices, Feeds, Fills, HeldBacked, JudgedAtPeg

LEMMA PegFetchedKeeps ==
    ASSUME PegInv, NEW s \in Slots, PegFetched(s)
    PROVE  PegInv'
<1> USE DEF PegInv
<1>1. startup \in {"fill", "live"} /\ FillEnds(s)
  BY DEF PegFetched, Running
<1>2. worth["usdc"] # 0 /\ fill[s].held \in Worths \cup {0}
  BY DEF PegFetched, HeldBacked, PegTypeOK
<1>3. worth' \in Prices /\ PegBacked(worth') /\ worth'["usdc"] = worth["usdc"]
  BY <1>2, PegKeeps DEF PegFetched, PegTypeOK, Prices
<1> QED
  BY <1>1, <1>3, FillEndsKeeps
  DEF PegFetched, PegTypeOK, Prices, Feeds, Fills, HeldBacked, JudgedAtPeg

LEMMA RefreshKeeps ==
    ASSUME PegInv, NEW s \in Refreshes, RefreshStarts(s) \/ RefreshThrows(s)
    PROVE  PegInv'
<1> USE DEF PegInv
<1>1. s \in Slots
  BY DEF Slots
<1>2. CASE RefreshStarts(s)
  <2> DEFINE new == Fetching(GapFillAssets \cap reserves)
  <2>1. new \in Fills /\ new.at # "peg"
    BY FetchingTyped DEF PegTypeOK
  <2>2. fill' = [fill EXCEPT ![s] = new]
    BY <1>2 DEF RefreshStarts
  <2> HIDE DEF new
  <2>3. UNCHANGED <<hour, startup, pricesWarm, reserves, worth, usdcFeed, judged>>
    BY <1>2 DEF RefreshStarts
  <2>4. fill' \in [Slots -> Fills] /\ HeldBacked'
    BY <1>1, <2>1, <2>2, <2>3 DEF PegTypeOK, Fills, HeldBacked
  <2> QED
    BY <2>3, <2>4 DEF PegTypeOK, Fills, PegBacked, JudgedAtPeg
<1>3. CASE RefreshThrows(s)
  BY <1>1, <1>3, FillEndsKeeps
  DEF RefreshThrows, PegTypeOK, Fills, PegBacked, HeldBacked, JudgedAtPeg
<1> QED
  BY <1>2, <1>3

LEMMA UsdcUpdatedKeeps ==
    ASSUME PegInv, NEW w \in Worths, NEW round \in 0 .. hour, NEW holds,
           UsdcUpdated(w, round, holds)
    PROVE  PegInv'
<1> USE DEF PegInv
<1> DEFINE moved == [worth EXCEPT !["usdc"] = w]
           prices == Pegged(moved)
<1>1. round \in 0 .. Hours
  BY PegPricesAssumption DEF PegTypeOK
<1>2. usdcFeed' \in Feeds
  BY <1>1 DEF UsdcUpdated, Feeds
<1>3. moved \in Prices /\ moved["usdc"] # 0
  BY PegAssetsApart, WorthsPositive DEF PegTypeOK, Prices
<1>4. prices \in Prices /\ PegBacked(prices) /\ prices["usdc"] # 0
  BY <1>3, PeggedKeeps
<1>5. /\ worth' \in Prices /\ PegBacked(worth') /\ worth'["usdc"] # 0
      /\ JudgedAtPeg' /\ judged' \in [peg: Worths \cup {0}, ref: Worths \cup {0}]
  <2>1. CASE {"usdc", "usdbc"} \cap holds = {}
    BY <2>1, <1>4 DEF UsdcUpdated, JudgedAtPeg, PegTypeOK
  <2>2. CASE {"usdc", "usdbc"} \cap holds # {}
    <3>1. Recompute(holds, prices, usdcFeed', round)
      BY <2>2 DEF UsdcUpdated
    <3> HIDE DEF prices
    <3> QED
      BY <3>1, <1>2, <1>4, RecomputeKeeps
  <2> QED
    BY <2>1, <2>2
<1> QED
  BY <1>2, <1>5 DEF UsdcUpdated, PegTypeOK, Prices, Feeds, Fills, HeldBacked

LEMMA PositionTouchedKeeps ==
    ASSUME PegInv, NEW holds, PositionTouched(holds)
    PROVE  PegInv'
<1> USE DEF PegInv
<1>1. worth \in Prices /\ usdcFeed \in Feeds
  BY DEF PegTypeOK, Prices, Feeds
<1>2. Recompute(holds, worth, usdcFeed, hour)
  BY DEF PositionTouched
<1>3. /\ worth' \in Prices /\ PegBacked(worth') /\ worth'["usdc"] = worth["usdc"]
      /\ JudgedAtPeg' /\ judged' \in [peg: Worths \cup {0}, ref: Worths \cup {0}]
  BY <1>1, <1>2, RecomputeKeeps
<1> QED
  BY <1>3 DEF PositionTouched, PegTypeOK, Prices, HeldBacked

LEMMA PegNextInv == PegInv /\ [PegNext]_pegVars => PegInv'
<1> SUFFICES ASSUME PegInv, [PegNext]_pegVars PROVE PegInv'
  OBVIOUS
<1>1. CASE UNCHANGED pegVars
  BY <1>1 DEF PegInv, pegVars, PegTypeOK, PegBacked, HeldBacked, JudgedAtPeg
<1>2. CASE HourPasses
  BY <1>2, PegPricesAssumption
  DEF HourPasses, PegInv, PegTypeOK, PegBacked, HeldBacked, JudgedAtPeg
<1>3. CASE StartFails
  BY <1>3 DEF StartFails, PegInv, PegTypeOK, PegBacked, HeldBacked, JudgedAtPeg
<1>4. ASSUME NEW a \in PegAssets, RegisterReserve(a) PROVE PegInv'
  BY <1>4 DEF RegisterReserve, PegInv, PegTypeOK, PegBacked, HeldBacked, JudgedAtPeg
<1> QED
  BY <1>1, <1>2, <1>3, <1>4, FeedsReadKeeps, PricesFetchedKeeps, PegFetchedKeeps,
     RefreshKeeps, UsdcUpdatedKeeps, PositionTouchedKeeps
  DEF PegNext

-----------------------------------------------------------------------------
(* The results *)

(* The prices, the feed, the fills and the judgements are what their types *)
(* say, and no price of USDbC is without its reference, in every state of  *)
(* localPositionModel.ts's price maps.                                     *)
THEOREM PegInvariant == PegSpec => []PegInv
<1>1. PegInit => PegInv
  BY PegInitInv
<1>2. PegInv /\ [PegNext]_pegVars => PegInv'
  BY PegNextInv
<1> QED
  BY <1>1, <1>2, PTL DEF PegSpec

(* A position with USDbC is judged at the price of USDC of that moment,    *)
(* however many refreshes and gap fills are in flight                      *)
(* (localPositionModel.ts:320, aaveOraclePrice.ts:283-295).                *)
THEOREM PositionsJudgedAtPeg == PegSpec => []JudgedAtPeg
<1>1. PegInv => JudgedAtPeg
  BY DEF PegInv
<1> QED
  BY <1>1, PegInvariant, PTL

-----------------------------------------------------------------------------
(* The composition: a step of one part is a step of its component, and one *)
(* that leaves every other component alone.                                *)

PartSteps ==
    /\ [WatchNext]_watchVars
    /\ [TransportNext]_transportVars
    /\ [DetectionNext]_detectionVars
    /\ [OracleNext]_oracleVars
    /\ [BootstrapNext]_bootstrapVars
    /\ [LifecycleNext]_lifeVars
    /\ [ArbNext]_arbVars
    /\ [NearNext]_nearVars
    /\ [ShadowNext]_shadowVars
    /\ [ProfitNext]_profitVars
    /\ [PegNext]_pegVars

LEMMA PartsStep == [MonitorsNext]_allVars => PartSteps
<1> SUFFICES ASSUME [MonitorsNext]_allVars PROVE PartSteps
  OBVIOUS
<1>1. CASE UNCHANGED allVars
  BY <1>1 DEF allVars, PartSteps
<1>2. CASE Others("watchlist") /\ WatchNext
  BY <1>2 DEF Others, PartSteps
<1>3. CASE Others("transport") /\ TransportNext
  BY <1>3 DEF Others, PartSteps
<1>4. CASE Others("detection") /\ DetectionNext
  BY <1>4 DEF Others, PartSteps
<1>5. CASE Others("oracle") /\ OracleNext
  BY <1>5 DEF Others, PartSteps
<1>6. CASE Others("bootstrap") /\ BootstrapNext
  BY <1>6 DEF Others, PartSteps
<1>7. CASE Others("lifecycle") /\ LifecycleNext
  BY <1>7 DEF Others, PartSteps
<1>8. CASE Others("arbitrage") /\ ArbNext
  BY <1>8 DEF Others, PartSteps
<1>9. CASE Others("near") /\ NearNext
  BY <1>9 DEF Others, PartSteps
<1>10. CASE Others("shadow") /\ ShadowNext
  BY <1>10 DEF Others, PartSteps
<1>11. CASE Others("profit") /\ ProfitNext
  BY <1>11 DEF Others, PartSteps
<1>12. CASE Others("pegs") /\ PegNext
  BY <1>12 DEF Others, PartSteps
<1> QED BY <1>1, <1>2, <1>3, <1>4, <1>5, <1>6, <1>7, <1>8, <1>9, <1>10, <1>11, <1>12 DEF MonitorsNext

LEMMA PartsInit ==
    MonitorsInit => /\ WatchInit /\ TransportInit /\ DetectionInit /\ OracleInit /\ BootstrapInit
                    /\ LifecycleInit /\ ArbInit /\ NearInit /\ ShadowInit /\ ProfitInit /\ PegInit
BY DEF MonitorsInit

(* Each part of the composition keeps the specification of its component, *)
(* whichever part acts: what is proved of a component holds of the whole.  *)
THEOREM PartsKeepSpecs ==
    MonitorsSpec => /\ WatchSpec /\ TransportSpec /\ DetectionSpec /\ OracleSpec /\ BootstrapSpec
                    /\ LifecycleSpec /\ ArbSpec /\ NearSpec /\ ShadowSpec /\ ProfitSpec /\ PegSpec
<1>1. MonitorsSpec => WatchSpec
  <2>1. MonitorsInit => WatchInit
    BY PartsInit
  <2>2. [MonitorsNext]_allVars => [WatchNext]_watchVars
    BY PartsStep DEF PartSteps
  <2> QED BY <2>1, <2>2, PTL DEF MonitorsSpec, WatchSpec
<1>2. MonitorsSpec => TransportSpec
  <2>1. MonitorsInit => TransportInit
    BY PartsInit
  <2>2. [MonitorsNext]_allVars => [TransportNext]_transportVars
    BY PartsStep DEF PartSteps
  <2> QED BY <2>1, <2>2, PTL DEF MonitorsSpec, TransportSpec
<1>3. MonitorsSpec => DetectionSpec
  <2>1. MonitorsInit => DetectionInit
    BY PartsInit
  <2>2. [MonitorsNext]_allVars => [DetectionNext]_detectionVars
    BY PartsStep DEF PartSteps
  <2> QED BY <2>1, <2>2, PTL DEF MonitorsSpec, DetectionSpec
<1>4. MonitorsSpec => OracleSpec
  <2>1. MonitorsInit => OracleInit
    BY PartsInit
  <2>2. [MonitorsNext]_allVars => [OracleNext]_oracleVars
    BY PartsStep DEF PartSteps
  <2> QED BY <2>1, <2>2, PTL DEF MonitorsSpec, OracleSpec
<1>5. MonitorsSpec => BootstrapSpec
  <2>1. MonitorsInit => BootstrapInit
    BY PartsInit
  <2>2. [MonitorsNext]_allVars => [BootstrapNext]_bootstrapVars
    BY PartsStep DEF PartSteps
  <2> QED BY <2>1, <2>2, PTL DEF MonitorsSpec, BootstrapSpec
<1>6. MonitorsSpec => LifecycleSpec
  <2>1. MonitorsInit => LifecycleInit
    BY PartsInit
  <2>2. [MonitorsNext]_allVars => [LifecycleNext]_lifeVars
    BY PartsStep DEF PartSteps
  <2> QED BY <2>1, <2>2, PTL DEF MonitorsSpec, LifecycleSpec
<1>7. MonitorsSpec => ArbSpec
  <2>1. MonitorsInit => ArbInit
    BY PartsInit
  <2>2. [MonitorsNext]_allVars => [ArbNext]_arbVars
    BY PartsStep DEF PartSteps
  <2> QED BY <2>1, <2>2, PTL DEF MonitorsSpec, ArbSpec
<1>8. MonitorsSpec => NearSpec
  <2>1. MonitorsInit => NearInit
    BY PartsInit
  <2>2. [MonitorsNext]_allVars => [NearNext]_nearVars
    BY PartsStep DEF PartSteps
  <2> QED BY <2>1, <2>2, PTL DEF MonitorsSpec, NearSpec
<1>9. MonitorsSpec => ShadowSpec
  <2>1. MonitorsInit => ShadowInit
    BY PartsInit
  <2>2. [MonitorsNext]_allVars => [ShadowNext]_shadowVars
    BY PartsStep DEF PartSteps
  <2> QED BY <2>1, <2>2, PTL DEF MonitorsSpec, ShadowSpec
<1>10. MonitorsSpec => ProfitSpec
  <2>1. MonitorsInit => ProfitInit
    BY PartsInit
  <2>2. [MonitorsNext]_allVars => [ProfitNext]_profitVars
    BY PartsStep DEF PartSteps
  <2> QED BY <2>1, <2>2, PTL DEF MonitorsSpec, ProfitSpec
<1>11. MonitorsSpec => PegSpec
  <2>1. MonitorsInit => PegInit
    BY PartsInit
  <2>2. [MonitorsNext]_allVars => [PegNext]_pegVars
    BY PartsStep DEF PartSteps
  <2> QED BY <2>1, <2>2, PTL DEF MonitorsSpec, PegSpec
<1> QED BY <1>1, <1>2, <1>3, <1>4, <1>5, <1>6, <1>7, <1>8, <1>9, <1>10, <1>11

(* The types of all the parts, in every state of the composition.          *)
THEOREM MonitorsTypeCorrect == MonitorsSpec => []MonitorsTypeOK
<1>1. PegSpec => []PegTypeOK
  <2>1. PegInv => PegTypeOK
    BY DEF PegInv
  <2> QED BY <2>1, PegInvariant, PTL
<1>2. /\ WatchTypeOK /\ TransportTypeOK /\ DetectionTypeOK /\ OracleTypeOK /\ BootstrapTypeOK
      /\ LifecycleTypeOK /\ ArbTypeOK /\ NearTypeOK /\ ShadowTypeOK /\ ProfitTypeOK /\ PegTypeOK
      => MonitorsTypeOK
  BY DEF MonitorsTypeOK
<1> QED BY <1>1, <1>2, PartsKeepSpecs, WatchTypeCorrect, TransportTypeCorrect, CacheStaysBounded,
           OracleTypeCorrect, BootstrapTypeCorrect, LifecycleTypeCorrect, ArbTypeCorrect, TracksBounded,
           ShadowCapsHold, ProfitTypeCorrect, PTL

(* What the components promise, all at once in every behaviour of the      *)
(* composition.                                                            *)
THEOREM MonitorsKeepPromises ==
    MonitorsSpec => /\ [](ReplayCovers /\ IndexMatches /\ OraclePromise /\ SweepMissesNone)
                    /\ [](SoleUnlessContended /\ ApprovedIsAccounted /\ KeptPaysOff)
                    /\ [](AnswerIsBest /\ JudgedAtPeg)
                    /\ NewEntriesUnread /\ OverfullIsRecent /\ UrgentHasFallen /\ Abstract!Steps
BY PartsKeepSpecs, ReplaysCover, IndexAlwaysMatches, OraclePromiseKept, SweepComplete, SoleHolder,
   ApprovedAccounted, KeptCandidatesPayOff, AnswersAreBest, PositionsJudgedAtPeg, EntriesUnread,
   OverfullRecent, UrgentOnlyIfFallen, SourceKeepsSteps, PTL
=============================================================================
