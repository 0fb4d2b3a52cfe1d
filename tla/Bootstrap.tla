------------------------------ MODULE Bootstrap ------------------------------
(***************************************************************************)
(* src/src/monitors/partialBootstrapSweep.ts with its snapshot store and   *)
(* its discovery cache: how a process finds who owes and seeds the model.  *)
(*                                                                         *)
(* A row of a multicall fails on its own.  Both files live longer than the *)
(* process, which may stop at any await.  The figures of the coverage, the *)
(* delays between attempts and what happens to a seeded position later are *)
(* left out.  A definition D_Bug is a mutant of D.                         *)
(***************************************************************************)
EXTENDS Integers, Sequences, SequencesExt, FiniteSets

CONSTANTS
    Debtors,
    Holders,       \* those of them whose reserves touch the allowlist
    HasAllowlist,
    EventNames,    \* BOOTSTRAP_EVENT_NAMES
    History,       \* the pool's events, one a block, before the first process
    MaxBlock,      \* bound: blocks
    LookbackBlocks,
    ChunkBlocks,
    LogClients,    \* how many logDiscoveryClients there are
    RpcAttempts,   \* GETLOGS_ATTEMPTS_PER_RPC
    HasSubgraph,
    BatchSize,     \* accountBatchSize, reserveDataBatchSize
    CacheEnabled,
    ForceRefresh,  \* BOOTSTRAP_FORCE_REFRESH
    FileTtl        \* cacheTtlHours, in ticks

ASSUME BootstrapAssumption ==
    /\ Holders \subseteq Debtors /\ IsFiniteSet(Debtors)
    /\ {HasAllowlist, HasSubgraph, CacheEnabled, ForceRefresh} \subseteq BOOLEAN
    /\ EventNames \in Seq(ToSet(EventNames)) \ {<<>>} /\ Len(History) \in 1 .. MaxBlock
    /\ {ChunkBlocks, LogClients, RpcAttempts, BatchSize} \subseteq Nat \ {0}
    /\ {LookbackBlocks, FileTtl, MaxBlock} \subseteq Nat
    /\ History \in Seq([name: ToSet(EventNames), account: Debtors])

VARIABLES
    poolChain,   \* the chain: the event of each block
    owing,       \* the chain: who has debt
    boot,        \* the process: where its sweep is
    model,       \* its positions: none, without balances, with them
    snapshot,    \* the file of BootstrapSnapshotStore
    discovery,   \* the file of BootstrapDiscoveryCacheStore
    scan,        \* history: the blocks and the source of the last discovery,
    steady,      \*   who has owed ever since it began,
    unread       \*   and whose row failed since

processVars == <<boot, model>>
scanVars == <<scan, steady, unread>>
bootstrapVars == <<poolChain, owing, boot, model, snapshot, discovery, scan, steady, unread>>

NoPositions == [a \in Debtors |-> "none"]
NoSnapshot == [age |-> FileTtl + 1, full |-> {}]
NoDiscovery == [age |-> FileTtl + 1, block |-> 0, withDebt |-> {}]
Down == [at |-> "down", event |-> 1, start |-> 0, client |-> 1, attempt |-> 1,
         todo |-> {}, kept |-> {}, rows |-> {}, seeded |-> 0]

BootstrapTypeOK ==
    /\ poolChain \in UNION {[1 .. n -> [name: ToSet(EventNames), account: Debtors]] : n \in 1 .. MaxBlock}
    /\ owing \subseteq Debtors /\ model \in [Debtors -> {"none", "bare", "full"}]
    /\ boot.at \in {"down", "logs", "subgraph", "filter", "accounts", "reserves", "up"}
    /\ boot.start \in 0 .. MaxBlock /\ boot.event \in DOMAIN EventNames
    /\ boot.client \in 1 .. LogClients /\ boot.attempt \in 1 .. RpcAttempts
    /\ {boot.todo, boot.kept, boot.rows} \subseteq SUBSET Debtors
    /\ boot.seeded \in 0 .. Cardinality(Debtors)
    /\ snapshot \in [age: 0 .. FileTtl + 1, full: SUBSET Debtors]
    /\ discovery \in [age: 0 .. FileTtl + 1, block: 0 .. MaxBlock, withDebt: SUBSET Debtors]
    /\ scan \in [from: 0 .. MaxBlock, to: 0 .. MaxBlock, source: {"logs", "subgraph"}]

BootstrapInit ==
    /\ poolChain = History /\ owing \in SUBSET Debtors
    /\ boot = Down /\ model = NoPositions /\ snapshot = NoSnapshot /\ discovery = NoDiscovery
    /\ scan = [from |-> 0, to |-> 0, source |-> "logs"] /\ steady = {} /\ unread = {}

-----------------------------------------------------------------------------
(* The chain, time, and the end of a process *)

(* A Borrow leaves debt, a Repay may end it; others change nothing here.   *)
PoolEvent(name, a) ==
    /\ Len(poolChain) < MaxBlock
    /\ poolChain' = Append(poolChain, [name |-> name, account |-> a])
    /\ owing' \in CASE name = "Borrow" -> {owing \cup {a}}
                    [] name = "Repay" -> {owing, owing \ {a}}
                    [] OTHER -> {owing}
    /\ steady' = steady \cap owing'
    /\ UNCHANGED <<processVars, snapshot, discovery, scan, unread>>

FilesAge ==
    LET Older(file) == [file EXCEPT !.age = IF @ <= FileTtl THEN @ + 1 ELSE @]
    IN  snapshot' = Older(snapshot) /\ discovery' = Older(discovery)
    /\ UNCHANGED <<poolChain, owing, processVars, scanVars>>

Ends == boot' = Down /\ model' = NoPositions

(* A write that is cut off leaves a file that does not parse: no file.     *)
Writing(file) ==
    /\ boot.todo = {} /\ boot.at = (IF file = "discovery" THEN "filter" ELSE "accounts")

Stops ==
    /\ boot.at # "down" /\ Ends
    /\ discovery' \in {discovery} \cup (IF Writing("discovery") THEN {NoDiscovery} ELSE {})
    /\ snapshot' \in {snapshot} \cup (IF CacheEnabled /\ Writing("snapshot") THEN {NoSnapshot} ELSE {})
    /\ UNCHANGED <<poolChain, owing, scanVars>>

-----------------------------------------------------------------------------
(* runPartialBootstrapSweep *)

FromSnapshot ==
    /\ boot.at = "down" /\ CacheEnabled /\ snapshot.age <= FileTtl
    /\ boot' = [Down EXCEPT !.at = "up"]
    /\ model' = [a \in Debtors |-> IF a \in snapshot.full THEN "full" ELSE "none"]
    /\ UNCHANGED <<poolChain, owing, snapshot, discovery, scanVars>>

ChainHead == Len(poolChain)
Known == ~ForceRefresh /\ discovery.age <= FileTtl /\ discovery.block = ChainHead

FromDiscovery ==
    /\ boot.at = "down" /\ ~(CacheEnabled /\ snapshot.age <= FileTtl) /\ Known
    /\ boot' = [Down EXCEPT !.at = "accounts", !.todo = discovery.withDebt]
    /\ UNCHANGED <<poolChain, owing, model, snapshot, discovery, scanVars>>

FromLogs ==
    /\ boot.at = "down" /\ ~(CacheEnabled /\ snapshot.age <= FileTtl) /\ ~Known
    /\ LET from == IF ChainHead > LookbackBlocks THEN ChainHead - LookbackBlocks ELSE 0
       IN  /\ boot' = [Down EXCEPT !.at = "logs", !.start = from]
           /\ scan' = [from |-> from, to |-> ChainHead, source |-> "logs"]
    /\ steady' = owing /\ unread' = {}
    /\ UNCHANGED <<poolChain, owing, model, snapshot, discovery>>

(* discoverUsersFromPoolLogs: event by event, chunk by chunk.              *)
ChunkEnd == IF boot.start + ChunkBlocks - 1 > scan.to THEN scan.to ELSE boot.start + ChunkBlocks - 1

NextChunk_SkipsOne(b) ==
    IF b.start + ChunkBlocks + 1 <= scan.to THEN [b EXCEPT !.start = @ + ChunkBlocks + 1]
    ELSE IF b.event < Len(EventNames) THEN [b EXCEPT !.event = @ + 1, !.start = scan.from]
    ELSE [b EXCEPT !.at = "filter"]

NextChunk(b) ==
    IF b.start + ChunkBlocks <= scan.to THEN [b EXCEPT !.start = @ + ChunkBlocks]
    ELSE IF b.event < Len(EventNames) THEN [b EXCEPT !.event = @ + 1, !.start = scan.from]
    ELSE [b EXCEPT !.at = "filter"]

LogsAnswer ==
    /\ boot.at = "logs"
    /\ LET hits == {b \in DOMAIN poolChain : b \in boot.start .. ChunkEnd
                                            /\ poolChain[b].name = EventNames[boot.event]}
       IN  boot' = NextChunk([boot EXCEPT !.todo = @ \cup {poolChain[b].account : b \in hits},
                                          !.client = 1, !.attempt = 1])
    /\ UNCHANGED <<poolChain, owing, model, snapshot, discovery, scanVars>>

(* getLogsWithRpcRotation: an error that a retry may cure.                 *)
LogsRetried ==
    /\ boot.at = "logs" /\ (boot.attempt < RpcAttempts \/ boot.client < LogClients)
    /\ boot' = IF boot.attempt < RpcAttempts THEN [boot EXCEPT !.attempt = @ + 1]
               ELSE [boot EXCEPT !.attempt = 1, !.client = @ + 1]
    /\ UNCHANGED <<poolChain, owing, model, snapshot, discovery, scanVars>>

(* One that it may not, or no attempt is left: what was found is dropped.  *)
LogsFail ==
    /\ boot.at = "logs"
    /\ IF HasSubgraph THEN boot' = [Down EXCEPT !.at = "subgraph"] /\ UNCHANGED model ELSE Ends
    /\ UNCHANGED <<poolChain, owing, snapshot, discovery, scanVars>>

(* listBorrowerAddresses: all pages, as late as the index is.              *)
SubgraphAnswers ==
    /\ boot.at = "subgraph"
    /\ \E listed \in SUBSET Debtors : boot' = [boot EXCEPT !.at = "filter", !.todo = listed]
    /\ scan' = [scan EXCEPT !.source = "subgraph"]
    /\ UNCHANGED <<poolChain, owing, model, snapshot, discovery, steady, unread>>

(* A subgraph or a multicall that throws ends start() and the process.     *)
SweepThrows ==
    /\ boot.at \in {"subgraph", "filter", "accounts", "reserves"} /\ Ends
    /\ UNCHANGED <<poolChain, owing, snapshot, discovery, scanVars>>

NextBatches ==
    IF boot.todo = {} THEN {}
    ELSE kSubset(Min({BatchSize, Cardinality(boot.todo)}), boot.todo)

(* filterAccountsWithDebt: a row that failed has no debt.                  *)
FilterBatch ==
    /\ boot.at = "filter"
    /\ \E batch \in NextBatches : \E failed \in SUBSET batch :
        /\ boot' = [boot EXCEPT !.todo = @ \ batch, !.kept = @ \cup ((batch \ failed) \cap owing)]
        /\ unread' = unread \cup failed
    /\ UNCHANGED <<poolChain, owing, model, snapshot, discovery, scan, steady>>

SaveDiscovery ==
    /\ boot.at = "filter" /\ boot.todo = {}
    /\ discovery' = [age |-> 0, block |-> scan.to, withDebt |-> boot.kept]
    /\ boot' = [Down EXCEPT !.at = "accounts", !.todo = boot.kept]
    /\ UNCHANGED <<poolChain, owing, model, snapshot, scanVars>>

(* seedModelFromOnChain: the accounts of a batch, then their reserves.     *)
AccountRows ==
    /\ boot.at = "accounts"
    /\ \E batch \in NextBatches : \E failed \in SUBSET batch :
        /\ boot' = [boot EXCEPT !.at = "reserves", !.todo = @ \ batch, !.rows = (batch \ failed) \cap owing]
        /\ unread' = unread \cup failed
    /\ UNCHANGED <<poolChain, owing, model, snapshot, discovery, scan, steady>>

(* Without its reserves an account touches no allowlist; without an        *)
(* allowlist it is seeded with no balances.                                *)
ReserveRows ==
    /\ boot.at = "reserves"
    /\ \E failed \in SUBSET boot.rows :
        LET taken == IF HasAllowlist THEN (boot.rows \ failed) \cap Holders ELSE boot.rows
        IN  /\ model' = [a \in Debtors |-> IF a \notin taken THEN model[a]
                                           ELSE IF a \in failed THEN "bare" ELSE "full"]
            /\ boot' = [boot EXCEPT !.at = "accounts", !.rows = {}, !.seeded = @ + Cardinality(taken)]
            /\ unread' = unread \cup failed
    /\ UNCHANGED <<poolChain, owing, snapshot, discovery, scan, steady>>

(* buildSnapshotFromModel exports the positions that have balances.        *)
SaveSnapshot ==
    /\ boot.at = "accounts" /\ boot.todo = {}
    /\ snapshot' = IF CacheEnabled /\ boot.seeded > 0
                   THEN [age |-> 0, full |-> {a \in Debtors : model[a] = "full"}] ELSE snapshot
    /\ boot' = [Down EXCEPT !.at = "up"]
    /\ UNCHANGED <<poolChain, owing, model, discovery, scanVars>>

BootstrapNext ==
    \/ \E name \in ToSet(EventNames), a \in Debtors : PoolEvent(name, a)
    \/ FilesAge \/ Stops
    \/ FromSnapshot \/ FromDiscovery \/ FromLogs
    \/ LogsAnswer \/ LogsRetried \/ LogsFail \/ SubgraphAnswers \/ SweepThrows
    \/ FilterBatch \/ SaveDiscovery \/ AccountRows \/ ReserveRows \/ SaveSnapshot

BootstrapSpec == BootstrapInit /\ [][BootstrapNext]_bootstrapVars

-----------------------------------------------------------------------------
(* Properties *)

(* When a sweep of the logs ends, or a later process starts from a file of *)
(* it, the model has the balances of everybody whom an event of the scanned*)
(* blocks names and who has owed ever since, but for the rows that failed  *)
(* and the allowlist: over all chunks, events, retries, clients, files and *)
(* restarts (partialBootstrapSweep.ts:120-210,373-399,536-566).            *)
SweepMissesNone ==
    boot.at = "up" /\ scan.source = "logs" =>
        \A b \in DOMAIN poolChain :
            LET a == poolChain[b].account
            IN  b \in scan.from .. scan.to /\ a \in steady \ unread /\ (HasAllowlist => a \in Holders)
                    => model[a] = "full"
=============================================================================
