--------------------------- MODULE EventIngestion ---------------------------
(***************************************************************************)
(* src/src/monitors/wsEventLayer.ts with its checkpoint store, the clock   *)
(* and the bootstrap that eventPurityStack.ts puts around it: how the pool *)
(* logs of the chain get into the local position model, over a websocket   *)
(* that drops and through gap fills over HTTP, and what is left of that    *)
(* after a restart.                                                        *)
(*                                                                         *)
(* The logs are those of one account that has debt and that the bootstrap  *)
(* sweep finds; they are numbered in chain order.  What a log does to the  *)
(* balances of the account is not modelled, only how often it was counted. *)
(* Chainlink logs share the deduplication and nothing else, and are left   *)
(* out.  A flashblock announces logs of the block after the head; there    *)
(* are no reorgs (handleViemLog does not look at log.removed).             *)
(* The store is one register.                                              *)
(* A definition D_Bug is a mutant of D.                                    *)
(***************************************************************************)
EXTENDS Integers, FiniteSets, SequencesExt

CONSTANTS
    BlockOf,    \* the block of each log, in chain order
    Numbered,   \* the logs whose pending copy carries its block number
    MaxBlock,   \* bound: the last block of the chain
    Fills,      \* bound: slots for gap fills that run at the same time
    StartupFill,
    Chunk,      \* DEFAULT_CHUNK
    DedupCap,   \* MAX_DEDUP
    Lookback,   \* bootstrapLookbackDays, in blocks
    RoleSets,   \* what a connection can end up subscribed to
    MaxDrops,   \* bound: connections lost
    MaxCrashes  \* bound: restarts

Logs == DOMAIN BlockOf
Roles == {"pending", "confirmed", "clock"}

ASSUME EventIngestionAssumption ==
    /\ MaxBlock \in Nat
    /\ BlockOf \in Seq(1 .. MaxBlock)
    /\ \A l, m \in DOMAIN BlockOf : l <= m => BlockOf[l] <= BlockOf[m]
    /\ Numbered \subseteq DOMAIN BlockOf
    /\ StartupFill \in Fills
    /\ Chunk \in Nat \ {0}
    /\ DedupCap \in Nat \ {0}
    /\ Lookback \in Nat
    /\ RoleSets \subseteq SUBSET Roles
    /\ MaxDrops \in Nat
    /\ MaxCrashes \in Nat

VARIABLES
    head,       \* the chain: its last block
    mined,      \* the chain: how many logs its blocks have
    announced,  \* the chain: how many logs flashblocks have announced
    checkpoint, \* PositionCheckpointStore: lastProcessedBlock
    snapshot,   \* BootstrapSnapshotStore: its block, or NoBlock
    phase,      \* the process: "off", "bootstrap" (start() fills gaps), "running"
    base,       \* block up to which the seeded balances reflect the chain
    lookFrom,   \* bootstrapFromBlock
    caughtUp,   \* history: the head that the gap fill of start() reached
    seen,       \* seen and seenOrder
    applied,    \* per log: how often applyAaveEvent counted it
    since,      \* history, per log: keys marked since it was counted
    fills,      \* the calls of runBootstrapOrGapFill()
    socket,     \* "down", "open", "live" (subscribed)
    roles,      \* what the socket is subscribed to
    wire,       \* messages of the socket that are not handled yet
    handlers,   \* logs whose confirmed copy is in onEvent()
    refreshing, \* the block of the index refresh in flight, or NoBlock
    drops, crashes

chainVars == <<head, mined, announced>>
storeVars == <<checkpoint, snapshot>>
seedVars == <<phase, base, lookFrom, caughtUp>>
modelVars == <<seen, applied, since>>
socketVars == <<socket, roles, wire>>
budgetVars == <<drops, crashes>>
vars == <<chainVars, storeVars, seedVars, modelVars, fills, socketVars, handlers, refreshing,
          budgetVars>>

NoBlock == -1
Blocks == 0 .. MaxBlock
Keys == (Blocks \X Logs)

IdleFill == [pc |-> "idle", last |-> 0, to |-> 0, next |-> 0, todo |-> {}, log |-> 0]

FillRecords ==
    [pc: {"idle", "head", "fetch", "logs", "event"}, last: 0 .. MaxBlock + 1,
     to: Blocks, next: 0 .. MaxBlock + 1, todo: SUBSET Logs, log: Logs \cup {0}]

IngestionTypeOK ==
    /\ head \in Blocks /\ mined \in 0 .. announced /\ announced \in 0 .. Len(BlockOf)
    /\ checkpoint \in 0 .. MaxBlock + 1
    /\ snapshot \in Blocks \cup {NoBlock}
    /\ phase \in {"off", "bootstrap", "running"}
    /\ base \in Blocks /\ lookFrom \in Blocks
    /\ caughtUp \in Blocks \cup {NoBlock}
    /\ seen \in Seq(Keys) /\ Len(seen) <= DedupCap /\ IsInjective(seen)
    /\ applied \in [Logs -> Nat]
    /\ since \in [Logs -> 0 .. DedupCap]
    /\ fills \in [Fills -> FillRecords]
    /\ socket \in {"down", "open", "live"} /\ roles \subseteq Roles
    /\ wire \in Seq({"pending", "confirmed"} \X Logs)
    /\ handlers \subseteq Logs
    /\ refreshing \in 0 .. MaxBlock + 1 \cup {NoBlock}
    /\ drops \in 0 .. MaxDrops /\ crashes \in 0 .. MaxCrashes

Init ==
    /\ head \in Blocks
    /\ mined = Cardinality({l \in Logs : BlockOf[l] <= head}) /\ announced = mined
    /\ checkpoint = 0 /\ snapshot = NoBlock
    /\ phase = "off" /\ base = 0 /\ lookFrom = 0 /\ caughtUp = NoBlock
    /\ seen = <<>>
    /\ applied = [l \in Logs |-> 0] /\ since = [l \in Logs |-> 0]
    /\ fills = [f \in Fills |-> IdleFill]
    /\ socket = "down" /\ roles = {} /\ wire = <<>>
    /\ handlers = {} /\ refreshing = NoBlock
    /\ drops = 0 /\ crashes = 0

-----------------------------------------------------------------------------
(* Deduplication and application *)

LogsIn(from, to) == {l \in Logs : from <= BlockOf[l] /\ BlockOf[l] <= to}
IsFirst(l, S) == l \in S /\ \A m \in S : l <= m
SmallerOf(m, n) == IF m <= n THEN m ELSE n

(* ingestionDedupKey; a missing block number is read as 0.                 *)
KeyOf_NoIndex(source, l) == <<BlockOf[l], 1>>
KeyOf(source, l) ==
    <<IF source = "pending" /\ l \notin Numbered THEN 0 ELSE BlockOf[l], l>>

HasSeen(key) == Contains(seen, key)

MarkSeen_EvictsEarly(key) ==
    seen' = LET order == Append(seen, key)
            IN  IF Len(order) >= DedupCap THEN Tail(order) ELSE order

MarkSeen(key) ==
    seen' = LET order == Append(seen, key)
            IN  IF Len(order) > DedupCap THEN Tail(order) ELSE order

(* markSeen and applyAaveEvent: nothing is awaited between them.           *)
Apply(source, l) ==
    /\ MarkSeen(KeyOf(source, l))
    /\ applied' = [applied EXCEPT ![l] = @ + 1]
    /\ since' = [m \in Logs |-> IF m = l THEN 0 ELSE SmallerOf(since[m] + 1, DedupCap)]

-----------------------------------------------------------------------------
(* The chain and the websocket's server *)

Announce ==
    /\ announced < Len(BlockOf)
    /\ BlockOf[announced + 1] = head + 1
    /\ announced' = announced + 1
    /\ wire' = IF "pending" \in roles THEN Append(wire, <<"pending", announced + 1>>) ELSE wire
    /\ UNCHANGED <<head, mined, storeVars, seedVars, modelVars, fills, socket, roles, handlers,
                   refreshing, budgetVars>>

Mine ==
    /\ head < MaxBlock
    /\ \A l \in LogsIn(head + 1, head + 1) : l <= announced
    /\ head' = head + 1
    /\ mined' = announced
    /\ wire' = IF "confirmed" \in roles
               THEN wire \o [i \in 1 .. announced - mined |-> <<"confirmed", mined + i>>]
               ELSE wire
    /\ UNCHANGED <<announced, storeVars, seedVars, modelVars, fills, socket, roles, handlers,
                   refreshing, budgetVars>>

Drop ==
    /\ drops < MaxDrops
    /\ socket # "down"
    /\ drops' = drops + 1
    /\ socket' = "down" /\ roles' = {} /\ wire' = <<>>
    /\ UNCHANGED <<chainVars, storeVars, seedVars, modelVars, fills, handlers, refreshing, crashes>>

-----------------------------------------------------------------------------
(* runBootstrapOrGapFill *)

Set(f, r) == fills' = [fills EXCEPT ![f] = r]
Pc(f, pc) == fills[f].pc = pc

(* The call, up to the checkpoint it loads.                                *)
BeginFill(f) ==
    /\ Pc(f, "idle")
    /\ Set(f, [IdleFill EXCEPT !.pc = "head", !.last = checkpoint])

From(f) == IF fills[f].last > 0 THEN fills[f].last + 1 ELSE lookFrom

ChunkTo_Unclipped(f) == fills[f].next + Chunk - 1
ChunkTo(f) == SmallerOf(fills[f].next + Chunk - 1, fills[f].to)

(* The call returns.  That of start() lets start() go on to the websocket. *)
EndFill(f, reached) ==
    /\ Set(f, IdleFill)
    /\ IF phase = "bootstrap" THEN phase' = "running" /\ caughtUp' = reached
                              ELSE UNCHANGED <<phase, caughtUp>>
    /\ UNCHANGED <<base, lookFrom>>

ReadHead(f) ==
    /\ Pc(f, "head")
    /\ \/ /\ From(f) > head
          /\ EndFill(f, head)
       \/ /\ From(f) <= head
          /\ Set(f, [fills[f] EXCEPT !.pc = "fetch", !.to = head, !.next = From(f)])
          /\ UNCHANGED seedVars
    /\ UNCHANGED <<chainVars, storeVars, modelVars, socketVars, handlers, refreshing, budgetVars>>

FetchLogs(f) ==
    /\ Pc(f, "fetch")
    /\ Set(f, [fills[f] EXCEPT !.pc = "logs", !.todo = LogsIn(fills[f].next, ChunkTo(f))])
    /\ UNCHANGED <<chainVars, storeVars, seedVars, modelVars, socketVars, handlers, refreshing,
                   budgetVars>>

SkipSeen(f, l) ==
    /\ Pc(f, "logs") /\ IsFirst(l, fills[f].todo)
    /\ HasSeen(KeyOf("gap-fill", l))
    /\ Set(f, [fills[f] EXCEPT !.todo = @ \ {l}])
    /\ UNCHANGED <<chainVars, storeVars, seedVars, modelVars, socketVars, handlers, refreshing,
                   budgetVars>>

TakeLog_Unchecked(f, l) ==
    /\ Pc(f, "logs") /\ IsFirst(l, fills[f].todo)
    /\ Apply("gap-fill", l)
    /\ Set(f, [fills[f] EXCEPT !.pc = "event", !.todo = @ \ {l}, !.log = l])
    /\ UNCHANGED <<chainVars, storeVars, seedVars, socketVars, handlers, refreshing, budgetVars>>

TakeLog(f, l) ==
    /\ Pc(f, "logs") /\ IsFirst(l, fills[f].todo)
    /\ ~HasSeen(KeyOf("gap-fill", l))
    /\ Apply("gap-fill", l)
    /\ Set(f, [fills[f] EXCEPT !.pc = "event", !.todo = @ \ {l}, !.log = l])
    /\ UNCHANGED <<chainVars, storeVars, seedVars, socketVars, handlers, refreshing, budgetVars>>

(* onEvent() resolves: the log's own block is the new checkpoint.          *)
LogDone(f) ==
    /\ Pc(f, "event")
    /\ checkpoint' = BlockOf[fills[f].log]
    /\ Set(f, [fills[f] EXCEPT !.pc = "logs", !.log = 0])
    /\ UNCHANGED <<chainVars, snapshot, seedVars, modelVars, socketVars, handlers, refreshing,
                   budgetVars>>

ChunkDone(f) ==
    /\ Pc(f, "logs") /\ fills[f].todo = {}
    /\ checkpoint' = ChunkTo(f)
    /\ \/ /\ ChunkTo(f) >= fills[f].to
          /\ EndFill(f, fills[f].to)
       \/ /\ ChunkTo(f) < fills[f].to
          /\ Set(f, [fills[f] EXCEPT !.pc = "fetch", !.next = @ + Chunk])
          /\ UNCHANGED seedVars
    /\ UNCHANGED <<chainVars, snapshot, modelVars, socketVars, handlers, refreshing, budgetVars>>

(* One of the awaits throws: unhandled and logged when the connect started *)
(* the call; it makes start() fail, and the process exit, otherwise.       *)
AbortFill(f) ==
    /\ ~Pc(f, "idle")
    /\ phase = "running"
    /\ Set(f, IdleFill)
    /\ UNCHANGED <<chainVars, storeVars, seedVars, modelVars, socketVars, handlers, refreshing,
                   budgetVars>>

-----------------------------------------------------------------------------
(* The connection *)

(* "open": the gap fill of this connection starts beside those that run.   *)
Connect(f) ==
    /\ phase = "running" /\ socket = "down"
    /\ socket' = "open"
    /\ BeginFill(f)
    /\ UNCHANGED <<chainVars, storeVars, seedVars, modelVars, roles, wire, handlers, refreshing,
                   budgetVars>>

(* Subscriptions may fail one by one, or not be asked for.                 *)
Subscribe ==
    /\ socket = "open"
    /\ socket' = "live"
    /\ roles' \in RoleSets
    /\ UNCHANGED <<chainVars, storeVars, seedVars, modelVars, fills, wire, handlers, refreshing,
                   budgetVars>>

(* handleRawLog, up to its first await.  Only a confirmed copy has more to *)
(* do after onEvent().                                                     *)
Deliver ==
    /\ wire # <<>>
    /\ LET source == wire[1][1]
           l      == wire[1][2]
       IN  \/ HasSeen(KeyOf(source, l)) /\ UNCHANGED <<modelVars, handlers>>
           \/ /\ ~HasSeen(KeyOf(source, l))
              /\ Apply(source, l)
              /\ handlers' = IF source = "confirmed" THEN handlers \cup {l} ELSE handlers
    /\ wire' = Tail(wire)
    /\ UNCHANGED <<chainVars, storeVars, seedVars, fills, socket, roles, refreshing, budgetVars>>

HandlerDone(l) ==
    /\ l \in handlers
    /\ handlers' = handlers \ {l}
    /\ checkpoint' = BlockOf[l]
    /\ UNCHANGED <<chainVars, snapshot, seedVars, modelVars, fills, socketVars, refreshing,
                   budgetVars>>

HandlerThrows(l) ==
    /\ l \in handlers
    /\ handlers' = handlers \ {l}
    /\ UNCHANGED <<chainVars, storeVars, seedVars, modelVars, fills, socketVars, refreshing,
                   budgetVars>>

(* handleFlashblockTick, every reserveIndexRefreshBlocks-th time: the      *)
(* clock is a flashblock of the next block or a head.                      *)
StartRefresh ==
    /\ "clock" \in roles
    /\ refreshing = NoBlock
    /\ refreshing' \in {head, head + 1}
    /\ UNCHANGED <<chainVars, storeVars, seedVars, modelVars, fills, socketVars, handlers,
                   budgetVars>>

RefreshDone ==
    /\ refreshing # NoBlock
    /\ \/ checkpoint' = refreshing
       \/ UNCHANGED checkpoint   \* the store throws
    /\ refreshing' = NoBlock
    /\ UNCHANGED <<chainVars, snapshot, seedVars, modelVars, fills, socketVars, handlers, budgetVars>>
-----------------------------------------------------------------------------
(* Start and crash of the process *)

(* EventPurityStack.start(), up to the checkpoint that the gap fill of     *)
(* WsEventLayer.start() loads.                                             *)
Boot ==
    /\ phase = "off"
    /\ phase' = "bootstrap"
    /\ lookFrom' = IF head > Lookback THEN head - Lookback ELSE 0
    /\ BeginFill(StartupFill)
    /\ UNCHANGED <<chainVars, checkpoint, caughtUp, modelVars, socketVars, handlers, refreshing,
                   budgetVars>>

(* The sweep finds no fresh snapshot: it seeds the position from the chain *)
(* and saves the snapshot.                                                 *)
BootFromChain ==
    /\ Boot
    /\ base' = head
    /\ snapshot' = head

(* The sweep finds a snapshot that is less than cacheTtlHours old.         *)
BootFromSnapshot ==
    /\ Boot
    /\ snapshot # NoBlock
    /\ base' = snapshot
    /\ UNCHANGED snapshot

(* Also a start() that fails.  The stores remain.                          *)
Crash ==
    /\ crashes < MaxCrashes
    /\ phase # "off"
    /\ crashes' = crashes + 1
    /\ phase' = "off" /\ base' = 0 /\ lookFrom' = 0 /\ caughtUp' = NoBlock
    /\ seen' = <<>>
    /\ applied' = [l \in Logs |-> 0] /\ since' = [l \in Logs |-> 0]
    /\ fills' = [f \in Fills |-> IdleFill]
    /\ socket' = "down" /\ roles' = {} /\ wire' = <<>>
    /\ handlers' = {} /\ refreshing' = NoBlock
    /\ UNCHANGED <<chainVars, storeVars, drops>>

Next ==
    \/ Announce \/ Mine \/ Drop
    \/ BootFromChain \/ BootFromSnapshot \/ Crash
    \/ Subscribe \/ Deliver \/ StartRefresh \/ RefreshDone
    \/ \E f \in Fills :
          \/ ReadHead(f) \/ FetchLogs(f) \/ LogDone(f) \/ ChunkDone(f)
          \/ AbortFill(f) \/ Connect(f)
          \/ \E l \in Logs : SkipSeen(f, l) \/ TakeLog(f, l)
    \/ \E l \in Logs : HandlerDone(l) \/ HandlerThrows(l)

Spec == Init /\ [][Next]_vars

-----------------------------------------------------------------------------
(* Properties *)

(* What a gap fill has got past is in the model, however live logs, other  *)
(* gap fills and the eviction of old keys interleave with it: every log    *)
(* after the checkpoint it loaded, up to the end of its last full chunk    *)
(* (wsEventLayer.ts:110-139).                                              *)
FillCovers ==
    \A f \in Fills : fills[f].pc \in {"fetch", "logs"} =>
        LET past == IF Pc(f, "logs") /\ fills[f].todo = {} THEN ChunkTo(f) ELSE fills[f].next - 1
            low  == IF fills[f].last > 0 THEN fills[f].last + 1 ELSE lookFrom
        IN  \A l \in LogsIn(low, past) : applied[l] >= 1

(* A log whose copies all carry its block number is counted again only     *)
(* after DedupCap other keys were marked, whether the copies come from the *)
(* two streams, from a reconnect or from gap fills that overlap            *)
(* (wsEventLayer.ts:182-201).                                              *)
DedupWindow ==
    [][\A l \in Numbered :
          (applied[l] >= 1 /\ applied'[l] > applied[l]) => since[l] >= DedupCap]_vars

(* Gap fills and live logs, late or overtaken as they may be, never write  *)
(* a checkpoint beyond the head, from which a later gap fill would leave   *)
(* out blocks that nobody has read; only the clock's index refresh does    *)
(* (wsEventLayer.ts:121-134, 165, eventPurityStack.ts:586).                *)
CheckpointNotAhead ==
    [][checkpoint' # checkpoint => (checkpoint' <= head \/ checkpoint' = refreshing)]_vars

Reflected(l) == applied[l] + (IF BlockOf[l] <= base THEN 1 ELSE 0)

(* Violated: after a restart, the seeds and the gap fill of start() have   *)
(* every log up to the head that the gap fill read.                        *)
RestartLosesNothing ==
    caughtUp # NoBlock => \A l \in LogsIn(1, caughtUp) : BlockOf[l] >= lookFrom => Reflected(l) >= 1
=============================================================================
