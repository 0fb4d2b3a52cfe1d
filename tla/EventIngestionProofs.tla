------------------------ MODULE EventIngestionProofs ------------------------
(* Proofs about EventIngestion, for any chain, any number of gap fills, any*)
(* window and any number of drops and restarts.                            *)
EXTENDS EventIngestion, FiniteSetTheorems, SequenceTheorems, TLAPS

Working(f) == fills[f].pc \in {"fetch", "logs", "event"}
InChunk(f) == fills[f].pc \in {"logs", "event"}

(* What a gap fill has got past, at each of its steps.                     *)
Past(f) == IF InChunk(f) THEN ChunkTo(f) ELSE fills[f].next - 1
Left(f) == IF InChunk(f) THEN fills[f].todo ELSE {}

FillShape ==
    fills \in [Fills -> [pc: {"idle", "head", "fetch", "logs", "event"}, last: Nat,
                         to: Nat, next: Nat, todo: SUBSET Logs, log: Logs \cup {0}]]

StateShape ==
    /\ head \in Nat /\ checkpoint \in Nat /\ lookFrom \in Nat
    /\ refreshing \in Nat \cup {NoBlock}
    /\ wire \in Seq({"pending", "confirmed"} \X Logs)
    /\ handlers \subseteq Logs
    /\ mined \in Nat /\ announced \in Nat /\ mined <= announced /\ announced <= Len(BlockOf)

CountShape ==
    /\ seen \in Seq(Int \X Logs)
    /\ applied \in [Logs -> Nat]

(* Every key that is remembered stands for a log that was counted.         *)
SeenCounted == \A i \in 1 .. Len(seen) : applied[seen[i][2]] >= 1

(* A process that is off has no gap fill, so that lookFrom stays as it is  *)
(* while one runs.                                                         *)
OffIsIdle == phase = "off" => \A f \in Fills : Pc(f, "idle")

(* A gap fill is inside the range it read, what it has left is of its      *)
(* chunk, and everything else up to Past(f) was counted.                   *)
FillSound(f) ==
    /\ Working(f) => fills[f].next <= fills[f].to
    /\ Pc(f, "event") => fills[f].log \in Logs
    /\ Left(f) \subseteq LogsIn(fills[f].next, ChunkTo(f))
    /\ Working(f) => \A l \in LogsIn(From(f), Past(f)) : l \in Left(f) \/ applied[l] >= 1

FillsSound == \A f \in Fills : FillSound(f)

CountInv == CountShape /\ SeenCounted
IngestionInv == FillShape /\ StateShape /\ CountInv /\ OffIsIdle /\ FillsSound

-----------------------------------------------------------------------------
(* The chain and the count *)

LEMMA BlocksAreNats == \A l \in Logs : l \in Nat \ {0} /\ BlockOf[l] \in Nat
BY EventIngestionAssumption DEF Logs

LEMMA KeysTyped == \A l \in Logs : \A source : KeyOf(source, l) \in Int \X Logs /\ KeyOf(source, l)[2] = l
BY BlocksAreNats DEF KeyOf

(* Counting a log keeps the count's invariant and takes nothing back. *)
LEMMA ApplyCounts ==
    ASSUME CountInv, NEW source, NEW l \in Logs, Apply(source, l)
    PROVE  /\ CountInv'
           /\ applied'[l] >= 1
           /\ \A m \in Logs : applied'[m] >= applied[m]
<1> DEFINE key == KeyOf(source, l)
           order == Append(seen, key)
<1>1. key \in Int \X Logs /\ key[2] = l
  BY KeysTyped
<1>2. /\ applied' \in [Logs -> Nat]
      /\ applied'[l] >= 1
      /\ \A m \in Logs : applied'[m] >= applied[m]
  BY DEF Apply, CountInv, CountShape
<1> HIDE DEF key
<1>3. /\ order \in Seq(Int \X Logs) /\ Len(order) = Len(seen) + 1
      /\ \A i \in 1 .. Len(order) : order[i] = IF i <= Len(seen) THEN seen[i] ELSE key
  BY <1>1 DEF CountInv, CountShape
<1>4. \A i \in 1 .. Len(order) : order[i][2] \in Logs /\ applied'[order[i][2]] >= 1
  <2> SUFFICES ASSUME NEW i \in 1 .. Len(order)
               PROVE  order[i][2] \in Logs /\ applied'[order[i][2]] >= 1
    OBVIOUS
  <2>1. CASE i <= Len(seen)
    <3>1. order[i] = seen[i] /\ i \in 1 .. Len(seen)
      BY <1>3, <2>1 DEF CountInv, CountShape
    <3>2. seen[i] \in Int \X Logs
      BY <3>1 DEF CountInv, CountShape
    <3>3. seen[i][2] \in Logs /\ applied[seen[i][2]] >= 1 /\ applied[seen[i][2]] \in Nat
      BY <3>1, <3>2 DEF CountInv, CountShape, SeenCounted
    <3> QED BY <1>2, <3>1, <3>3
  <2>2. CASE ~(i <= Len(seen))
    BY <1>1, <1>2, <1>3, <2>2
  <2> QED BY <2>1, <2>2
<1>5. seen' = IF Len(order) > DedupCap THEN Tail(order) ELSE order
  BY DEF Apply, MarkSeen, key
<1>6. seen' \in Seq(Int \X Logs)
  BY <1>3, <1>5
<1>7. \A i \in 1 .. Len(seen') : applied'[seen'[i][2]] >= 1
  <2>1. CASE seen' = order
    BY <1>4, <2>1
  <2>2. CASE seen' = Tail(order)
    <3>1. \A i \in 1 .. Len(seen') : seen'[i] = order[i + 1] /\ i + 1 \in 1 .. Len(order)
      BY <1>3, <2>2
    <3> QED BY <1>4, <3>1
  <2> QED BY <1>5, <2>1, <2>2
<1> QED BY <1>2, <1>6, <1>7 DEF CountInv, CountShape, SeenCounted

LEMMA SeenWasCounted ==
    ASSUME CountInv, NEW source, NEW l \in Logs, HasSeen(KeyOf(source, l))
    PROVE  applied[l] >= 1
BY KeysTyped DEF CountInv, SeenCounted, HasSeen, Contains

(* A gap fill that does nothing stays sound while counts only grow. *)
LEMMA OthersStaySound ==
    ASSUME FillShape, CountShape, CountShape', NEW f \in Fills, FillSound(f),
           fills'[f] = fills[f], lookFrom' = lookFrom,
           \A m \in Logs : applied'[m] >= applied[m]
    PROVE  FillSound(f)'
<1>1. /\ From(f)' = From(f) /\ ChunkTo(f)' = ChunkTo(f) /\ Past(f)' = Past(f)
      /\ Left(f)' = Left(f) /\ (Working(f)' <=> Working(f))
  BY DEF From, ChunkTo, Past, Left, Working, InChunk
<1>2. ASSUME NEW l \in Logs, applied[l] >= 1 PROVE applied'[l] >= 1
  BY <1>2 DEF CountShape
<1> QED BY <1>1, <1>2 DEF FillSound, Pc, LogsIn

-----------------------------------------------------------------------------
(* One gap fill *)

LEMMA IdleIsSound ==
    ASSUME NEW f \in Fills, fills'[f].pc \in {"idle", "head"} PROVE FillSound(f)'
BY DEF FillSound, Working, Left, InChunk, Pc

LEMMA ReadHeadSound ==
    ASSUME IngestionInv, NEW f \in Fills, ReadHead(f) PROVE FillSound(f)'
<1>1. CASE From(f) > head /\ EndFill(f, head)
  BY <1>1, IdleIsSound DEF EndFill, Set, IdleFill, IngestionInv, FillShape
<1>2. CASE /\ From(f) <= head
           /\ Set(f, [fills[f] EXCEPT !.pc = "fetch", !.to = head, !.next = From(f)])
           /\ UNCHANGED seedVars
  <2>1. /\ fills'[f].pc = "fetch" /\ fills'[f].next = From(f) /\ fills'[f].to = head
        /\ fills'[f].last = fills[f].last
    BY <1>2 DEF Set, IngestionInv, FillShape
  <2>2. From(f)' = From(f) /\ From(f) \in Nat
    BY <1>2, <2>1 DEF From, seedVars, IngestionInv, FillShape, StateShape
  <2>3. LogsIn(From(f), From(f) - 1) = {}
    BY <2>2, BlocksAreNats DEF LogsIn
  <2> QED BY <1>2, <2>1, <2>2, <2>3 DEF FillSound, Working, Left, InChunk, Past, Pc, LogsIn
<1> QED BY <1>1, <1>2 DEF ReadHead

LEMMA FetchLogsSound ==
    ASSUME IngestionInv, NEW f \in Fills, FetchLogs(f) PROVE FillSound(f)'
<1>1. /\ fills'[f].pc = "logs" /\ fills'[f].next = fills[f].next /\ fills'[f].to = fills[f].to
      /\ fills'[f].last = fills[f].last /\ fills'[f].todo = LogsIn(fills[f].next, ChunkTo(f))
      /\ fills[f].pc = "fetch" /\ fills[f].next \in Nat /\ fills[f].to \in Nat
  BY DEF FetchLogs, Set, Pc, IngestionInv, FillShape
<1>2. /\ From(f)' = From(f) /\ ChunkTo(f)' = ChunkTo(f) /\ applied' = applied
  BY <1>1 DEF FetchLogs, From, ChunkTo, seedVars, modelVars
<1>3. fills[f].next <= fills[f].to
  BY <1>1 DEF IngestionInv, FillsSound, FillSound, Working
<1>4. \A l \in LogsIn(From(f), fills[f].next - 1) : applied[l] >= 1
  BY <1>1 DEF IngestionInv, FillsSound, FillSound, Working, Past, Left, InChunk
<1>5. \A l \in LogsIn(From(f), ChunkTo(f)) :
        l \in LogsIn(fills[f].next, ChunkTo(f)) \/ l \in LogsIn(From(f), fills[f].next - 1)
  BY <1>1, BlocksAreNats DEF LogsIn
<1> QED BY <1>1, <1>2, <1>3, <1>4, <1>5 DEF FillSound, Working, Left, InChunk, Past, Pc, LogsIn

LEMMA ChunkUnchanged ==
    ASSUME IngestionInv, NEW f \in Fills, InChunk(f), InChunk(f)', lookFrom' = lookFrom,
           fills'[f].next = fills[f].next, fills'[f].to = fills[f].to,
           fills'[f].last = fills[f].last, fills'[f].todo \subseteq fills[f].todo,
           Pc(f, "event")' => fills'[f].log \in Logs,
           \A l \in fills[f].todo \ fills'[f].todo : applied'[l] >= 1,
           CountShape', \A m \in Logs : applied'[m] >= applied[m]
    PROVE  FillSound(f)'
<1>1. From(f)' = From(f) /\ ChunkTo(f)' = ChunkTo(f)
  BY DEF From, ChunkTo
<1>2. /\ Working(f) /\ Left(f) = fills[f].todo /\ Left(f)' = fills'[f].todo
      /\ Past(f) = ChunkTo(f) /\ Past(f)' = ChunkTo(f)
  BY <1>1 DEF InChunk, Working, Left, Past
<1>3. /\ fills[f].next <= fills[f].to
      /\ fills[f].todo \subseteq LogsIn(fills[f].next, ChunkTo(f))
      /\ \A l \in LogsIn(From(f), ChunkTo(f)) : l \in fills[f].todo \/ applied[l] >= 1
  BY <1>2 DEF IngestionInv, FillsSound, FillSound
<1>4. \A l \in Logs : applied[l] >= 1 => applied'[l] >= 1
  BY DEF IngestionInv, CountInv, CountShape
<1>5. \A l \in LogsIn(From(f), ChunkTo(f)) : l \in fills'[f].todo \/ applied'[l] >= 1
  BY <1>3, <1>4 DEF LogsIn
<1>6. LogsIn(fills[f].next, ChunkTo(f))' = LogsIn(fills[f].next, ChunkTo(f))
  BY <1>1 DEF LogsIn
<1>7. LogsIn(From(f), Past(f))' = LogsIn(From(f), ChunkTo(f))
  BY <1>1, <1>2 DEF LogsIn
<1> QED BY <1>1, <1>2, <1>3, <1>5, <1>6, <1>7 DEF FillSound

LEMMA SkipSeenSound ==
    ASSUME IngestionInv, NEW f \in Fills, NEW l \in Logs, SkipSeen(f, l) PROVE FillSound(f)'
<1>1. /\ fills'[f].pc = "logs" /\ fills[f].pc = "logs" /\ fills'[f].todo = fills[f].todo \ {l}
      /\ fills'[f].next = fills[f].next /\ fills'[f].to = fills[f].to
      /\ fills'[f].last = fills[f].last
  BY DEF SkipSeen, Set, Pc, IngestionInv, FillShape
<1>2. applied[l] >= 1
  BY SeenWasCounted DEF SkipSeen, IngestionInv
<1>3. applied' = applied /\ CountShape' /\ lookFrom' = lookFrom
  BY DEF SkipSeen, modelVars, seedVars, IngestionInv, CountInv, CountShape
<1>4. \A m \in Logs : applied'[m] >= applied[m]
  BY <1>3 DEF CountShape
<1> QED BY <1>1, <1>2, <1>3, <1>4, ChunkUnchanged DEF InChunk, Pc

LEMMA TakeLogSound ==
    ASSUME IngestionInv, NEW f \in Fills, NEW l \in Logs, TakeLog(f, l) PROVE FillSound(f)'
<1>1. /\ fills'[f].pc = "event" /\ fills[f].pc = "logs" /\ fills'[f].todo = fills[f].todo \ {l}
      /\ fills'[f].next = fills[f].next /\ fills'[f].to = fills[f].to
      /\ fills'[f].last = fills[f].last /\ fills'[f].log = l
  BY DEF TakeLog, Set, Pc, IngestionInv, FillShape
<1>2. Apply("gap-fill", l) /\ lookFrom' = lookFrom
  BY DEF TakeLog, seedVars
<1>3. CountInv' /\ applied'[l] >= 1 /\ \A m \in Logs : applied'[m] >= applied[m]
  BY <1>2, ApplyCounts DEF IngestionInv
<1> QED BY <1>1, <1>2, <1>3, ChunkUnchanged DEF InChunk, Pc, CountInv

LEMMA LogDoneSound ==
    ASSUME IngestionInv, NEW f \in Fills, LogDone(f) PROVE FillSound(f)'
<1>1. /\ fills'[f].pc = "logs" /\ fills[f].pc = "event" /\ fills'[f].todo = fills[f].todo
      /\ fills'[f].next = fills[f].next /\ fills'[f].to = fills[f].to
      /\ fills'[f].last = fills[f].last
  BY DEF LogDone, Set, Pc, IngestionInv, FillShape
<1>2. applied' = applied /\ CountShape' /\ lookFrom' = lookFrom
  BY DEF LogDone, modelVars, seedVars, IngestionInv, CountInv, CountShape
<1>3. \A m \in Logs : applied'[m] >= applied[m]
  BY <1>2 DEF CountShape
<1> QED BY <1>1, <1>2, <1>3, ChunkUnchanged DEF InChunk, Pc

LEMMA ChunkDoneSound ==
    ASSUME IngestionInv, NEW f \in Fills, ChunkDone(f) PROVE FillSound(f)'
<1>1. CASE EndFill(f, fills[f].to)
  BY <1>1, IdleIsSound DEF EndFill, Set, IdleFill, IngestionInv, FillShape
<1>2. CASE /\ ChunkTo(f) < fills[f].to
           /\ Set(f, [fills[f] EXCEPT !.pc = "fetch", !.next = @ + Chunk])
           /\ UNCHANGED seedVars
  <2>1. /\ fills'[f].pc = "fetch" /\ fills'[f].next = fills[f].next + Chunk
        /\ fills'[f].to = fills[f].to /\ fills'[f].last = fills[f].last
        /\ fills[f].pc = "logs" /\ fills[f].todo = {}
        /\ fills[f].next \in Nat /\ fills[f].to \in Nat
    BY <1>2 DEF ChunkDone, Set, Pc, IngestionInv, FillShape
  <2>2. From(f)' = From(f) /\ applied' = applied
    BY <1>2, <2>1 DEF ChunkDone, From, seedVars, modelVars
  <2>3. ChunkTo(f) = fills[f].next + Chunk - 1
    BY <1>2, <2>1, EventIngestionAssumption DEF ChunkTo, SmallerOf
  <2>4. Chunk \in Nat /\ ChunkTo(f) < fills[f].to
    BY <1>2, EventIngestionAssumption
  <2> HIDE DEF ChunkTo
  <2>5. fills'[f].next <= fills'[f].to /\ fills'[f].next - 1 = ChunkTo(f)
    BY <2>1, <2>3, <2>4
  <2>6. \A l \in LogsIn(From(f), ChunkTo(f)) : applied[l] >= 1
    BY <2>1 DEF IngestionInv, FillsSound, FillSound, Working, Past, Left, InChunk
  <2>7. ~InChunk(f)' /\ Left(f)' = {} /\ Past(f)' = ChunkTo(f)
    BY <2>1, <2>5 DEF InChunk, Left, Past
  <2>8. LogsIn(From(f), Past(f))' = LogsIn(From(f), ChunkTo(f))
    BY <2>2, <2>7 DEF LogsIn
  <2>9. \A l \in LogsIn(From(f), Past(f))' : applied'[l] >= 1
    BY <2>2, <2>6, <2>8
  <2> QED BY <2>1, <2>5, <2>7, <2>9 DEF FillSound, Pc
<1> QED BY <1>1, <1>2 DEF ChunkDone

-----------------------------------------------------------------------------
(* The invariant *)

LEMMA StepKeepsCount ==
    ASSUME IngestionInv, Next
    PROVE  CountInv' /\ (Crash \/ \A m \in Logs : applied'[m] >= applied[m])
<1> USE DEF IngestionInv
<1>1. CASE modelVars' = modelVars
  BY <1>1 DEF modelVars, CountInv, CountShape, SeenCounted
<1>2. CASE \E l \in Logs : \E source : Apply(source, l)
  BY <1>2, ApplyCounts
<1>3. CASE Deliver
  <2>1. ASSUME ~(modelVars' = modelVars)
        PROVE  Apply(wire[1][1], wire[1][2]) /\ wire[1][2] \in Logs
    <3>1. wire[1] \in {"pending", "confirmed"} \X Logs
      BY <1>3 DEF Deliver, StateShape
    <3> QED BY <1>3, <2>1, <3>1 DEF Deliver, modelVars
  <2> QED BY <1>1, <1>2, <2>1
<1>4. CASE Crash
  BY <1>4 DEF Crash, CountInv, CountShape, SeenCounted
<1>5. ASSUME NEW f \in Fills, NEW l \in Logs, TakeLog(f, l)
      PROVE  \E m \in Logs : \E source : Apply(source, m)
  BY <1>5 DEF TakeLog
<1>6. CASE Announce \/ Mine \/ Drop \/ BootFromChain \/ BootFromSnapshot \/ Subscribe
           \/ StartRefresh \/ RefreshDone
  BY <1>1, <1>6 DEF Announce, Mine, Drop, BootFromChain, BootFromSnapshot, Boot, Subscribe,
                    StartRefresh, RefreshDone
<1>7. ASSUME NEW f \in Fills,
             \/ ReadHead(f) \/ FetchLogs(f) \/ LogDone(f) \/ ChunkDone(f) \/ AbortFill(f)
             \/ Connect(f) \/ \E l \in Logs : SkipSeen(f, l)
      PROVE  modelVars' = modelVars
  BY <1>7 DEF ReadHead, FetchLogs, LogDone, ChunkDone, AbortFill, Connect, SkipSeen
<1>8. CASE \E l \in Logs : HandlerDone(l) \/ HandlerThrows(l)
  BY <1>1, <1>8 DEF HandlerDone, HandlerThrows
<1> QED BY <1>1, <1>2, <1>3, <1>4, <1>5, <1>6, <1>7, <1>8 DEF Next

LEMMA StepKeepsState == IngestionInv /\ Next => StateShape'
<1> SUFFICES ASSUME IngestionInv, Next PROVE StateShape'
  OBVIOUS
<1> USE DEF IngestionInv, StateShape
<1>1. \A l \in Logs : BlockOf[l] \in Nat
  BY BlocksAreNats
<1>2. \A f \in Fills : ChunkTo(f) \in Nat
  <2> SUFFICES ASSUME NEW f \in Fills PROVE ChunkTo(f) \in Nat
    OBVIOUS
  <2>1. fills[f].next \in Nat /\ fills[f].to \in Nat /\ Chunk \in Nat \ {0}
    BY EventIngestionAssumption DEF FillShape
  <2> QED BY <2>1 DEF ChunkTo, SmallerOf
<1>3. CASE Announce
  <2>1. announced + 1 \in Logs /\ announced + 1 <= Len(BlockOf)
    BY <1>3, EventIngestionAssumption DEF Announce, Logs
  <2> QED BY <1>3, <2>1 DEF Announce, seedVars, storeVars
<1>4. CASE Mine
  <2> DEFINE new == [i \in 1 .. announced - mined |-> <<"confirmed", mined + i>>]
  <2>1. announced - mined \in Nat /\ mined \in Nat /\ announced \in Nat
    OBVIOUS
  <2>2. \A i \in 1 .. announced - mined : mined + i \in Logs
    BY EventIngestionAssumption DEF Logs
  <2>3. \A i \in 1 .. announced - mined :
          <<"confirmed", mined + i>> \in {"pending", "confirmed"} \X Logs
    BY <2>2
  <2>4. new \in [1 .. announced - mined -> {"pending", "confirmed"} \X Logs]
    BY <2>3
  <2> HIDE DEF new
  <2>5. new \in Seq({"pending", "confirmed"} \X Logs)
    BY <2>1, <2>4
  <2>6. wire' = IF "confirmed" \in roles THEN wire \o new ELSE wire
    BY <1>4 DEF Mine, new
  <2>7. wire' \in Seq({"pending", "confirmed"} \X Logs)
    BY <2>5, <2>6
  <2>8. head' \in Nat /\ mined' \in Nat /\ mined' <= announced'
    BY <1>4 DEF Mine
  <2> QED BY <1>4, <2>7, <2>8 DEF Mine, seedVars, storeVars
<1>5. CASE Drop \/ Subscribe
  <2> DEFINE M == {"pending", "confirmed"} \X Logs
  <2>1. <<>> \in Seq(M) /\ wire \in Seq(M)
    OBVIOUS
  <2> HIDE DEF M
  <2>2. wire' \in Seq(M)
    BY <1>5, <2>1 DEF Drop, Subscribe
  <2> QED BY <1>5, <2>2 DEF M, Drop, Subscribe, seedVars, storeVars, chainVars
<1>6. CASE StartRefresh
  BY <1>6 DEF StartRefresh, seedVars, storeVars, chainVars, socketVars
<1>7. CASE RefreshDone
  <2>1. checkpoint' \in Nat /\ refreshing' \in Nat \cup {NoBlock}
    BY <1>7 DEF RefreshDone
  <2> QED BY <1>7, <2>1 DEF RefreshDone, seedVars, chainVars, socketVars
<1>8. CASE Deliver
  BY <1>8 DEF Deliver, seedVars, storeVars, chainVars
<1>9. CASE BootFromChain \/ BootFromSnapshot
  <2>1. lookFrom' \in Nat
    BY <1>9, EventIngestionAssumption DEF BootFromChain, BootFromSnapshot, Boot
  <2> QED BY <1>9, <2>1 DEF BootFromChain, BootFromSnapshot, Boot, chainVars, socketVars
<1>10. CASE Crash
  BY <1>10 DEF Crash, chainVars, storeVars
<1>11. ASSUME NEW f \in Fills, ReadHead(f) \/ FetchLogs(f) \/ AbortFill(f) \/ Connect(f)
      PROVE  StateShape'
  BY <1>11 DEF ReadHead, FetchLogs, AbortFill, Connect, EndFill, seedVars, storeVars, chainVars,
              socketVars
<1>12. ASSUME NEW f \in Fills, LogDone(f) PROVE StateShape'
  <2>1. fills[f].log \in Logs
    BY <1>12 DEF LogDone, FillsSound, FillSound
  <2> QED BY <1>1, <1>12, <2>1 DEF LogDone, seedVars, chainVars, socketVars
<1>13. ASSUME NEW f \in Fills, ChunkDone(f) PROVE StateShape'
  <2>1. checkpoint' \in Nat /\ lookFrom' = lookFrom
    BY <1>2, <1>13 DEF ChunkDone, EndFill, seedVars
  <2> QED BY <1>13, <2>1 DEF ChunkDone, chainVars, socketVars
<1>14. ASSUME NEW f \in Fills, NEW l \in Logs, SkipSeen(f, l) \/ TakeLog(f, l)
       PROVE  StateShape'
  BY <1>14 DEF SkipSeen, TakeLog, seedVars, storeVars, chainVars, socketVars
<1>15. ASSUME NEW l \in Logs, HandlerDone(l) \/ HandlerThrows(l) PROVE StateShape'
  BY <1>1, <1>15 DEF HandlerDone, HandlerThrows, seedVars, storeVars, chainVars, socketVars
<1> QED BY <1>3, <1>4, <1>5, <1>6, <1>7, <1>8, <1>9, <1>10, <1>11, <1>12, <1>13, <1>14, <1>15
       DEF Next

LEMMA FillUpdated ==
    ASSUME FillShape, NEW f \in Fills, NEW r, Set(f, r),
           r \in [pc: {"idle", "head", "fetch", "logs", "event"}, last: Nat,
                  to: Nat, next: Nat, todo: SUBSET Logs, log: Logs \cup {0}]
    PROVE  FillShape'
BY DEF FillShape, Set

LEMMA StepKeepsFills == IngestionInv /\ Next => FillShape'
<1> SUFFICES ASSUME IngestionInv, Next PROVE FillShape'
  OBVIOUS
<1> USE DEF IngestionInv
<1> DEFINE Rec == [pc: {"idle", "head", "fetch", "logs", "event"}, last: Nat,
                   to: Nat, next: Nat, todo: SUBSET Logs, log: Logs \cup {0}]
<1>1. IdleFill \in Rec /\ [IdleFill EXCEPT !.pc = "head", !.last = checkpoint] \in Rec
  BY DEF IdleFill, StateShape
<1>2. \A f \in Fills : fills[f] \in Rec
  BY DEF FillShape
<1>3. CASE fills' = fills
  BY <1>3 DEF FillShape
<1>4. CASE Announce \/ Mine \/ Drop \/ Subscribe \/ Deliver \/ StartRefresh \/ RefreshDone
           \/ \E l \in Logs : HandlerDone(l) \/ HandlerThrows(l)
  BY <1>3, <1>4 DEF Announce, Mine, Drop, Subscribe, Deliver, StartRefresh, RefreshDone,
                    HandlerDone, HandlerThrows
<1>5. CASE BootFromChain \/ BootFromSnapshot
  BY <1>1, <1>5, EventIngestionAssumption, FillUpdated
     DEF BootFromChain, BootFromSnapshot, Boot, BeginFill
<1>6. CASE Crash
  BY <1>1, <1>6 DEF Crash, FillShape
<1>7. ASSUME NEW f \in Fills, Set(f, IdleFill) PROVE FillShape'
  BY <1>1, <1>7, FillUpdated
<1>8. ASSUME NEW f \in Fills, AbortFill(f) \/ Connect(f) PROVE FillShape'
  BY <1>1, <1>7, <1>8, FillUpdated DEF AbortFill, Connect, BeginFill
<1>9. ASSUME NEW f \in Fills, ReadHead(f) PROVE FillShape'
  <2>1. From(f) \in Nat /\ head \in Nat
    BY DEF From, FillShape, StateShape
  <2>2. [fills[f] EXCEPT !.pc = "fetch", !.to = head, !.next = From(f)] \in Rec
    BY <1>2, <2>1
  <2> QED BY <1>7, <1>9, <2>2, FillUpdated DEF ReadHead, EndFill
<1>10. ASSUME NEW f \in Fills, FetchLogs(f) PROVE FillShape'
  <2>1. LogsIn(fills[f].next, ChunkTo(f)) \in SUBSET Logs
    BY DEF LogsIn
  <2>2. [fills[f] EXCEPT !.pc = "logs", !.todo = LogsIn(fills[f].next, ChunkTo(f))] \in Rec
    BY <1>2, <2>1
  <2> QED BY <1>10, <2>2, FillUpdated DEF FetchLogs
<1>11. ASSUME NEW f \in Fills, NEW l \in Logs, SkipSeen(f, l) \/ TakeLog(f, l) PROVE FillShape'
  <2>1. /\ [fills[f] EXCEPT !.todo = @ \ {l}] \in Rec
        /\ [fills[f] EXCEPT !.pc = "event", !.todo = @ \ {l}, !.log = l] \in Rec
    BY <1>2
  <2> QED BY <1>11, <2>1, FillUpdated DEF SkipSeen, TakeLog
<1>12. ASSUME NEW f \in Fills, LogDone(f) PROVE FillShape'
  <2>1. [fills[f] EXCEPT !.pc = "logs", !.log = 0] \in Rec
    BY <1>2
  <2> QED BY <1>12, <2>1, FillUpdated DEF LogDone
<1>13. ASSUME NEW f \in Fills, ChunkDone(f) PROVE FillShape'
  <2>1. fills[f].next + Chunk \in Nat
    BY EventIngestionAssumption DEF FillShape
  <2>2. [fills[f] EXCEPT !.pc = "fetch", !.next = @ + Chunk] \in Rec
    BY <1>2, <2>1
  <2> QED BY <1>7, <1>13, <2>2, FillUpdated DEF ChunkDone, EndFill
<1> QED BY <1>4, <1>5, <1>6, <1>8, <1>9, <1>10, <1>11, <1>12, <1>13 DEF Next

LEMMA StepKeepsIdle == IngestionInv /\ Next => OffIsIdle'
<1> SUFFICES ASSUME IngestionInv, Next PROVE OffIsIdle'
  OBVIOUS
<1> USE DEF IngestionInv, OffIsIdle, Pc
<1>1. CASE phase' # "off"
  BY <1>1
<1>2. CASE phase' = "off" /\ phase = "off" /\ fills' = fills
  BY <1>2
<1>3. CASE Crash
  BY <1>3 DEF Crash, IdleFill
<1>4. CASE Announce \/ Mine \/ Drop \/ Subscribe \/ Deliver \/ StartRefresh \/ RefreshDone
           \/ \E l \in Logs : HandlerDone(l) \/ HandlerThrows(l)
  BY <1>1, <1>2, <1>4 DEF Announce, Mine, Drop, Subscribe, Deliver, StartRefresh, RefreshDone,
                          HandlerDone, HandlerThrows, seedVars
<1>5. CASE BootFromChain \/ BootFromSnapshot
  BY <1>5 DEF BootFromChain, BootFromSnapshot, Boot
<1>6. ASSUME NEW f \in Fills,
             \/ ReadHead(f) \/ FetchLogs(f) \/ LogDone(f) \/ ChunkDone(f)
             \/ \E l \in Logs : SkipSeen(f, l) \/ TakeLog(f, l)
      PROVE  phase' # "off"
  <2>1. phase # "off" /\ (phase' = phase \/ phase' = "running")
    BY <1>6 DEF ReadHead, FetchLogs, LogDone, ChunkDone, SkipSeen, TakeLog, EndFill, seedVars
  <2> QED BY <2>1
<1>7. ASSUME NEW f \in Fills, AbortFill(f) \/ Connect(f) PROVE phase' # "off"
  BY <1>7 DEF AbortFill, Connect, seedVars
<1> QED BY <1>1, <1>3, <1>4, <1>5, <1>6, <1>7 DEF Next

LEMMA StepKeepsSound == IngestionInv /\ Next => FillsSound'
<1> SUFFICES ASSUME IngestionInv, Next, NEW g \in Fills PROVE FillSound(g)'
  BY DEF FillsSound
<1>1. CountShape /\ FillShape /\ FillSound(g) /\ CountShape'
  BY StepKeepsCount DEF IngestionInv, CountInv, FillsSound
<1>2. CASE Crash
  BY <1>2, IdleIsSound DEF Crash, IdleFill
<1>3. ASSUME fills'[g] = fills[g], lookFrom' = lookFrom, ~Crash PROVE FillSound(g)'
  BY <1>1, <1>3, StepKeepsCount, OthersStaySound
<1>4. CASE BootFromChain \/ BootFromSnapshot
  <2>1. fills[g].pc = "idle"
    BY <1>4 DEF BootFromChain, BootFromSnapshot, Boot, IngestionInv, OffIsIdle, Pc
  <2>2. fills'[g].pc \in {"idle", "head"}
    BY <1>1, <1>4, <2>1, EventIngestionAssumption
       DEF BootFromChain, BootFromSnapshot, Boot, BeginFill, Set, IdleFill, FillShape
  <2> QED BY <2>2, IdleIsSound
<1>5. CASE (Announce \/ Mine \/ Drop \/ Subscribe \/ Deliver \/ StartRefresh \/ RefreshDone
            \/ \E l \in Logs : HandlerDone(l) \/ HandlerThrows(l)) /\ ~Crash
  BY <1>3, <1>5 DEF Announce, Mine, Drop, Subscribe, Deliver, StartRefresh, RefreshDone,
                    HandlerDone, HandlerThrows, seedVars
<1>6. ASSUME NEW f \in Fills, ~Crash,
             \/ ReadHead(f) \/ FetchLogs(f) \/ LogDone(f) \/ ChunkDone(f)
             \/ AbortFill(f) \/ Connect(f)
             \/ \E l \in Logs : SkipSeen(f, l) \/ TakeLog(f, l)
      PROVE  FillSound(g)'
  <2>1. lookFrom' = lookFrom /\ \E r : Set(f, r)
    BY <1>6 DEF ReadHead, FetchLogs, LogDone, ChunkDone, AbortFill, Connect, SkipSeen, TakeLog,
                EndFill, BeginFill, seedVars
  <2>2. CASE g # f
    <3>1. fills'[g] = fills[g]
      BY <1>1, <2>1, <2>2 DEF Set, FillShape
    <3> QED BY <1>3, <1>6, <2>1, <3>1
  <2>3. CASE g = f /\ (AbortFill(f) \/ Connect(f))
    <3>1. \/ Set(f, IdleFill)
          \/ Set(f, [IdleFill EXCEPT !.pc = "head", !.last = checkpoint])
      BY <2>3 DEF AbortFill, Connect, BeginFill
    <3>2. ASSUME NEW r, Set(f, r) PROVE fills'[g] = r
      BY <1>1, <2>3, <3>2 DEF Set, FillShape
    <3>3. /\ IdleFill.pc = "idle"
          /\ [IdleFill EXCEPT !.pc = "head", !.last = checkpoint].pc = "head"
      BY DEF IdleFill
    <3>4. \/ fills'[g] = IdleFill
          \/ fills'[g] = [IdleFill EXCEPT !.pc = "head", !.last = checkpoint]
      BY <3>1, <3>2
    <3>5. fills'[g].pc \in {"idle", "head"}
      BY <3>3, <3>4
    <3> QED BY <3>5, IdleIsSound
  <2>4. CASE g = f /\ ~(AbortFill(f) \/ Connect(f))
    BY <1>6, <2>4, ReadHeadSound, FetchLogsSound, LogDoneSound, ChunkDoneSound, SkipSeenSound,
       TakeLogSound
  <2> QED BY <2>2, <2>3, <2>4
<1> QED BY <1>2, <1>4, <1>5, <1>6 DEF Next

LEMMA InitHolds == Init => IngestionInv
<1> SUFFICES ASSUME Init PROVE IngestionInv
  OBVIOUS
<1>1. FillShape
  BY DEF Init, FillShape, IdleFill
<1>2. CountInv
  BY DEF Init, CountInv, CountShape, SeenCounted
<1>3. OffIsIdle
  BY DEF Init, OffIsIdle, Pc, IdleFill
<1>4. FillsSound
  BY DEF Init, FillsSound, FillSound, Working, Left, InChunk, Pc, IdleFill
<1>5. StateShape
  <2>1. mined \in Nat /\ mined <= Len(BlockOf)
    <3> DEFINE M == {l \in Logs : BlockOf[l] <= head}
    <3>1. Len(BlockOf) \in Nat /\ Logs = 1 .. Len(BlockOf)
      BY EventIngestionAssumption DEF Logs
    <3>2. IsFiniteSet(Logs) /\ Cardinality(Logs) = Len(BlockOf)
      BY <3>1, FS_Interval
    <3>3. M \subseteq Logs
      OBVIOUS
    <3> HIDE DEF M
    <3>4. Cardinality(M) \in Nat /\ Cardinality(M) <= Cardinality(Logs)
      BY <3>2, <3>3, FS_Subset, FS_CardinalityType
    <3>5. mined = Cardinality(M)
      BY DEF Init, M
    <3> QED BY <3>2, <3>4, <3>5
  <2>2. head \in Nat
    BY EventIngestionAssumption DEF Init, Blocks
  <2> QED BY <2>1, <2>2 DEF Init, StateShape, NoBlock
<1> QED BY <1>1, <1>2, <1>3, <1>4, <1>5 DEF IngestionInv

LEMMA IngestionInvHolds == Spec => []IngestionInv
<1>1. Init => IngestionInv
  BY InitHolds
<1>2. IngestionInv /\ [Next]_vars => IngestionInv'
  <2>1. CASE UNCHANGED vars
    <3> SUFFICES ASSUME IngestionInv, UNCHANGED vars PROVE IngestionInv'
      BY <2>1
    <3>1. FillsSound'
      <4> SUFFICES ASSUME NEW f \in Fills PROVE FillSound(f)'
        BY DEF FillsSound
      <4> QED BY OthersStaySound DEF vars, seedVars, modelVars, IngestionInv, CountInv,
                                     CountShape, FillsSound
    <3> QED BY <3>1 DEF vars, chainVars, storeVars, seedVars, modelVars, socketVars, IngestionInv,
                        FillShape, StateShape, CountInv, CountShape, SeenCounted, OffIsIdle, Pc
  <2>2. CASE Next
    BY <2>2, StepKeepsCount, StepKeepsState, StepKeepsFills, StepKeepsIdle, StepKeepsSound
       DEF IngestionInv
  <2> QED BY <2>1, <2>2
<1> QED BY <1>1, <1>2, PTL DEF Spec

-----------------------------------------------------------------------------
(* The deduplication window.  A numbered log that was counted less than    *)
(* DedupCap marks ago still has its key among the remembered ones, as far  *)
(* from the end as marks were made since.                                  *)

InWindow(l) ==
    applied[l] >= 1 /\ since[l] < DedupCap =>
        since[l] < Len(seen) /\ seen[Len(seen) - since[l]] = <<BlockOf[l], l>>

SeenInv ==
    /\ seen \in Seq(Keys) /\ Len(seen) <= DedupCap
    /\ \A i, j \in 1 .. Len(seen) : seen[i] = seen[j] => i = j
    /\ since \in [Logs -> 0 .. DedupCap]
    /\ \A l \in Numbered : InWindow(l)

LEMMA KeysAreKeys ==
    ASSUME NEW source, NEW l \in Logs
    PROVE  KeyOf(source, l) \in Keys /\ (l \in Numbered => KeyOf(source, l) = <<BlockOf[l], l>>)
<1>1. BlockOf[l] \in 1 .. MaxBlock /\ MaxBlock \in Nat
  BY EventIngestionAssumption DEF Logs
<1>2. BlockOf[l] \in Blocks /\ 0 \in Blocks
  BY <1>1 DEF Blocks
<1> QED BY <1>2 DEF KeyOf, Keys

(* A mark appends a new key and forgets at most the oldest. *)
LEMMA ApplySeen ==
    ASSUME CountShape, SeenInv, NEW source, NEW l \in Logs,
           ~HasSeen(KeyOf(source, l)), Apply(source, l)
    PROVE  SeenInv'
<1> DEFINE key == KeyOf(source, l)
           order == Append(seen, key)
           n == Len(seen)
<1>c. DedupCap \in Nat /\ DedupCap >= 1
  BY EventIngestionAssumption
<1>k. key \in Keys /\ (l \in Numbered => key = <<BlockOf[l], l>>)
  BY KeysAreKeys
<1>s. seen \in Seq(Keys) /\ n \in Nat /\ n <= DedupCap
  BY DEF SeenInv
<1>h. \A i \in 1 .. n : seen[i] # key
  BY DEF HasSeen, Contains
<1>d. /\ seen' = IF Len(order) > DedupCap THEN Tail(order) ELSE order
      /\ applied' = [applied EXCEPT ![l] = @ + 1]
      /\ since' = [m \in Logs |-> IF m = l THEN 0 ELSE SmallerOf(since[m] + 1, DedupCap)]
  BY DEF Apply, MarkSeen
<1> HIDE DEF key
<1>o. /\ order \in Seq(Keys) /\ Len(order) = n + 1
      /\ \A i \in 1 .. n : order[i] = seen[i]
      /\ order[n + 1] = key
  BY <1>k, <1>s
<1> HIDE DEF order, n
<1>1. \A i, j \in 1 .. n + 1 : order[i] = order[j] => i = j
  <2> SUFFICES ASSUME NEW i \in 1 .. n + 1, NEW j \in 1 .. n + 1, order[i] = order[j]
               PROVE  i = j
    OBVIOUS
  <2>1. \A a, b \in 1 .. n : seen[a] = seen[b] => a = b
    BY DEF SeenInv, n
  <2>2. i \in 1 .. n \/ i = n + 1
    BY <1>s
  <2>3. j \in 1 .. n \/ j = n + 1
    BY <1>s
  <2> QED BY <1>h, <1>o, <2>1, <2>2, <2>3
<1> DEFINE k == Len(seen')
<1>2. PICK d \in {0, 1} : /\ k = n + 1 - d /\ d = (IF n + 1 > DedupCap THEN 1 ELSE 0)
                          /\ seen' \in Seq(Keys)
                          /\ \A i \in 1 .. k : seen'[i] = order[i + d]
  <2>1. CASE n + 1 > DedupCap
    <3>1. /\ Tail(order) \in Seq(Keys) /\ Len(Tail(order)) = n
          /\ \A i \in 1 .. n : Tail(order)[i] = order[i + 1]
      BY <1>s, <1>o
    <3> QED BY <1>d, <1>o, <1>s, <2>1, <3>1
  <2>2. CASE ~(n + 1 > DedupCap)
    <3>1. seen' = order /\ Len(order) = n + 1
      BY <1>d, <1>o, <2>2
    <3>2. \A i \in 1 .. n + 1 : i + 0 = i
      BY <1>s
    <3> QED BY <1>o, <1>s, <2>2, <3>1, <3>2
  <2> QED BY <2>1, <2>2
<1> HIDE DEF k
<1>3. k \in Nat /\ k <= DedupCap /\ k >= 1
  BY <1>c, <1>s, <1>2
<1>4. \A i, j \in 1 .. k : seen'[i] = seen'[j] => i = j
  <2> SUFFICES ASSUME NEW i \in 1 .. k, NEW j \in 1 .. k, seen'[i] = seen'[j] PROVE i = j
    OBVIOUS
  <2>1. i + d \in 1 .. n + 1 /\ j + d \in 1 .. n + 1
    BY <1>2, <1>s
  <2>2. order[i + d] = order[j + d]
    BY <1>2
  <2>3. i + d = j + d
    BY <1>1, <2>1, <2>2
  <2> QED BY <2>3, <1>3
<1>5. since' \in [Logs -> 0 .. DedupCap]
  <2>1. \A m \in Logs : since[m] \in 0 .. DedupCap
    BY DEF SeenInv
  <2>2. \A m \in Logs : SmallerOf(since[m] + 1, DedupCap) \in 0 .. DedupCap
    BY <2>1, <1>c DEF SmallerOf
  <2> QED BY <1>d, <1>c, <2>2
<1>6. ASSUME NEW m \in Numbered, applied'[m] >= 1, since'[m] < DedupCap
      PROVE  since'[m] < k /\ seen'[k - since'[m]] = <<BlockOf[m], m>>
  <2>1. m \in Logs
    BY EventIngestionAssumption DEF Logs
  <2>2. CASE m = l
    <3>1. since'[m] = 0 /\ k - 0 = k
      BY <1>d, <1>3, <2>1, <2>2
    <3>2. seen'[k] = order[k + d] /\ k + d = n + 1
      BY <1>2, <1>3, <1>s
    <3>3. seen'[k] = <<BlockOf[m], m>>
      BY <3>2, <1>o, <1>k, <2>2
    <3> QED BY <1>3, <3>1, <3>3
  <2>3. CASE m # l
    <3> DEFINE w == since[m]
    <3>1. w \in 0 .. DedupCap /\ applied[m] >= 1
      BY <1>d, <1>6, <2>1, <2>3 DEF SeenInv, CountShape
    <3>2. since'[m] = SmallerOf(w + 1, DedupCap)
      BY <1>d, <2>1, <2>3
    <3>3. since'[m] = w + 1 /\ w + 1 < DedupCap
      BY <1>6, <1>c, <3>1, <3>2 DEF SmallerOf
    <3>4. w < n /\ seen[n - w] = <<BlockOf[m], m>>
      BY <1>c, <3>1, <3>3 DEF SeenInv, InWindow, n
    <3> HIDE DEF w
    <3>5. w + 1 < k /\ k - (w + 1) \in 1 .. k /\ k - (w + 1) + d = n - w /\ n - w \in 1 .. n
      BY <1>c, <1>s, <1>2, <3>1, <3>3, <3>4
    <3>6. seen'[k - (w + 1)] = order[n - w]
      BY <1>2, <3>5
    <3> QED BY <1>o, <3>3, <3>4, <3>5, <3>6
  <2> QED BY <2>2, <2>3
<1> QED BY <1>2, <1>3, <1>4, <1>5, <1>6 DEF SeenInv, InWindow, k

(* Counts change in three ways: not at all, by an application of a log     *)
(* whose key is not remembered, or by the loss of everything.              *)
LEMMA HowCountsChange ==
    ASSUME StateShape, Next
    PROVE  \/ modelVars' = modelVars
           \/ \E l \in Logs : \E source : ~HasSeen(KeyOf(source, l)) /\ Apply(source, l)
           \/ Crash
<1>1. CASE Deliver
  <2>1. wire[1] \in {"pending", "confirmed"} \X Logs
    BY <1>1 DEF Deliver, StateShape
  <2>2. wire[1][2] \in Logs
    BY <2>1
  <2> QED BY <1>1, <2>2 DEF Deliver, modelVars
<1>2. ASSUME NEW f \in Fills, NEW l \in Logs, TakeLog(f, l)
      PROVE  ~HasSeen(KeyOf("gap-fill", l)) /\ Apply("gap-fill", l)
  BY <1>2 DEF TakeLog
<1>3. CASE Announce \/ Mine \/ Drop \/ BootFromChain \/ BootFromSnapshot \/ Subscribe
           \/ StartRefresh \/ RefreshDone
  BY <1>3 DEF Announce, Mine, Drop, BootFromChain, BootFromSnapshot, Boot, Subscribe,
              StartRefresh, RefreshDone
<1>4. ASSUME NEW f \in Fills,
             \/ ReadHead(f) \/ FetchLogs(f) \/ LogDone(f) \/ ChunkDone(f) \/ AbortFill(f)
             \/ Connect(f) \/ \E l \in Logs : SkipSeen(f, l)
      PROVE  modelVars' = modelVars
  BY <1>4 DEF ReadHead, FetchLogs, LogDone, ChunkDone, AbortFill, Connect, SkipSeen
<1>5. CASE \E l \in Logs : HandlerDone(l) \/ HandlerThrows(l)
  BY <1>5 DEF HandlerDone, HandlerThrows
<1> QED BY <1>1, <1>2, <1>3, <1>4, <1>5 DEF Next

LEMMA StepKeepsSeen == StateShape /\ CountShape /\ SeenInv /\ [Next]_vars => SeenInv'
<1> SUFFICES ASSUME StateShape, CountShape, SeenInv, [Next]_vars PROVE SeenInv'
  OBVIOUS
<1>1. CASE modelVars' = modelVars
  BY <1>1 DEF modelVars, SeenInv, InWindow
<1>2. ASSUME NEW l \in Logs, NEW source, ~HasSeen(KeyOf(source, l)), Apply(source, l)
      PROVE  SeenInv'
  BY <1>2, ApplySeen
<1>3. CASE Crash
  <2>1. seen' = <<>> /\ applied' = [l \in Logs |-> 0] /\ since' = [l \in Logs |-> 0]
    BY <1>3 DEF Crash
  <2>2. DedupCap \in Nat /\ Numbered \subseteq Logs
    BY EventIngestionAssumption DEF Logs
  <2>3. seen' \in Seq(Keys) /\ Len(seen') = 0
    BY <2>1
  <2> QED BY <2>1, <2>2, <2>3 DEF SeenInv, InWindow
<1>4. CASE UNCHANGED vars
  BY <1>1, <1>4 DEF vars
<1> QED BY <1>1, <1>2, <1>3, <1>4, HowCountsChange

LEMMA SeenInvHolds == Spec => []SeenInv
<1>1. Init => SeenInv
  <2> SUFFICES ASSUME Init PROVE SeenInv
    OBVIOUS
  <2>1. seen = <<>> /\ applied = [l \in Logs |-> 0] /\ since = [l \in Logs |-> 0]
    BY DEF Init
  <2>2. DedupCap \in Nat /\ Numbered \subseteq Logs
    BY EventIngestionAssumption DEF Logs
  <2>3. seen \in Seq(Keys) /\ Len(seen) = 0
    BY <2>1
  <2> QED BY <2>1, <2>2, <2>3 DEF SeenInv, InWindow
<1>2. IngestionInv /\ SeenInv /\ [Next]_vars => SeenInv'
  BY StepKeepsSeen DEF IngestionInv, CountInv
<1> QED BY <1>1, <1>2, IngestionInvHolds, PTL DEF Spec

(* A numbered log is not counted again before DedupCap marks: until then   *)
(* its key is remembered and every path looks for it before it counts.     *)
THEOREM DedupWindowHolds == Spec => DedupWindow
<1>1. IngestionInv /\ SeenInv /\ [Next]_vars =>
        [\A l \in Numbered :
           (applied[l] >= 1 /\ applied'[l] > applied[l]) => since[l] >= DedupCap]_vars
  <2> SUFFICES ASSUME IngestionInv, SeenInv, Next, NEW l \in Numbered,
                      applied[l] >= 1, applied'[l] > applied[l]
               PROVE  since[l] >= DedupCap
    OBVIOUS
  <2>1. l \in Logs /\ DedupCap \in Nat
    BY EventIngestionAssumption DEF Logs
  <2>2. applied[l] \in Nat /\ since[l] \in 0 .. DedupCap
    BY <2>1 DEF IngestionInv, CountInv, CountShape, SeenInv
  <2>3. modelVars' # modelVars /\ ~Crash
    <3>1. applied' # applied
      BY <2>2
    <3>2. ~Crash
      BY <2>1, <2>2 DEF Crash
    <3> QED BY <3>1, <3>2 DEF modelVars
  <2>4. PICK m \in Logs : \E source : ~HasSeen(KeyOf(source, m)) /\ Apply(source, m)
    BY <2>3, HowCountsChange DEF IngestionInv
  <2>5. PICK source : ~HasSeen(KeyOf(source, m)) /\ Apply(source, m)
    BY <2>4
  <2>6. m = l
    BY <2>1, <2>2, <2>5 DEF Apply, IngestionInv, CountInv, CountShape
  <2>7. KeyOf(source, l) = <<BlockOf[l], l>>
    BY <2>1, KeysAreKeys
  <2>8. \A i \in 1 .. Len(seen) : seen[i] # <<BlockOf[l], l>>
    BY <2>5, <2>6, <2>7 DEF HasSeen, Contains
  <2>9. CASE since[l] < DedupCap
    <3>1. since[l] < Len(seen) /\ seen[Len(seen) - since[l]] = <<BlockOf[l], l>>
      BY <2>9 DEF SeenInv, InWindow
    <3>2. Len(seen) - since[l] \in 1 .. Len(seen)
      BY <2>2, <3>1 DEF SeenInv
    <3> QED BY <2>8, <3>1, <3>2
  <2> QED BY <2>1, <2>2, <2>9
<1> QED BY <1>1, IngestionInvHolds, SeenInvHolds, PTL DEF Spec, DedupWindow

-----------------------------------------------------------------------------
(* Nothing the process works on is ahead of the chain: what is announced   *)
(* is of the next block at most, and what is confirmed, handled or fetched *)
(* is of a block there is.                                                 *)

AnnouncedNext == \A l \in Logs : l <= announced => BlockOf[l] <= head + 1
HandledMined == \A l \in handlers : BlockOf[l] <= head
WireMined ==
    \A i \in 1 .. Len(wire) : wire[i][1] = "confirmed" => BlockOf[wire[i][2]] <= head
FillsMined ==
    \A f \in Fills : /\ Working(f) => fills[f].to <= head
                     /\ Pc(f, "event") => BlockOf[fills[f].log] <= head

BehindHead == AnnouncedNext /\ HandledMined /\ WireMined /\ FillsMined

LEMMA ChunkInRange ==
    ASSUME FillShape, NEW f \in Fills
    PROVE  ChunkTo(f) \in Nat /\ ChunkTo(f) <= fills[f].to
<1>1. fills[f].next \in Nat /\ fills[f].to \in Nat /\ Chunk \in Nat \ {0}
  BY EventIngestionAssumption DEF FillShape
<1> QED BY <1>1 DEF ChunkTo, SmallerOf

LEMMA HeadGrows == ASSUME StateShape, [Next]_vars PROVE head' = head \/ (head' = head + 1 /\ Mine)
BY DEF Next, Announce, Mine, Drop, BootFromChain, BootFromSnapshot, Boot, Crash, Subscribe, Deliver,
       StartRefresh, RefreshDone, ReadHead, FetchLogs, LogDone, ChunkDone, AbortFill, Connect,
       SkipSeen, TakeLog, HandlerDone, HandlerThrows, vars, chainVars

LEMMA StepKeepsAnnounced ==
    ASSUME StateShape, AnnouncedNext, [Next]_vars PROVE AnnouncedNext'
<1>1. CASE Announce
  <2>1. /\ head' = head /\ announced' = announced + 1 /\ announced \in Nat
        /\ BlockOf[announced + 1] = head + 1 /\ head \in Nat
    BY <1>1 DEF Announce, StateShape
  <2>2. \A l \in Logs : l \in Nat /\ (l <= announced + 1 => l <= announced \/ l = announced + 1)
    BY <2>1, BlocksAreNats
  <2> QED BY <2>1, <2>2 DEF AnnouncedNext
<1>2. CASE announced' = announced
  BY <1>2, HeadGrows, BlocksAreNats DEF AnnouncedNext, StateShape
<1> QED BY <1>1, <1>2
        DEF Next, Announce, Mine, Drop, BootFromChain, BootFromSnapshot, Boot, Crash, Subscribe,
            Deliver, StartRefresh, RefreshDone, ReadHead, FetchLogs, LogDone, ChunkDone, AbortFill,
            Connect, SkipSeen, TakeLog, HandlerDone, HandlerThrows, vars, chainVars

LEMMA StepKeepsHandled ==
    ASSUME StateShape, HandledMined, WireMined, [Next]_vars PROVE HandledMined'
<1>h. \A l \in Logs : BlockOf[l] <= head => BlockOf[l] <= head'
  BY HeadGrows, BlocksAreNats DEF StateShape
<1>1. CASE handlers' \subseteq handlers
  BY <1>1, <1>h DEF HandledMined, StateShape
<1>2. CASE Deliver
  <2>1. wire[1] \in {"pending", "confirmed"} \X Logs /\ 1 \in 1 .. Len(wire)
    BY <1>2 DEF Deliver, StateShape
  <2>2. wire[1][1] = "confirmed" => BlockOf[wire[1][2]] <= head
    BY <2>1 DEF WireMined
  <2>3. head' = head
    BY <1>2 DEF Deliver, chainVars
  <2> QED BY <1>1, <1>2, <2>2, <2>3 DEF Deliver, HandledMined
<1> QED BY <1>1, <1>2
        DEF Next, Announce, Mine, Drop, BootFromChain, BootFromSnapshot, Boot, Crash, Subscribe,
            StartRefresh, RefreshDone, ReadHead, FetchLogs, LogDone, ChunkDone, AbortFill,
            Connect, SkipSeen, TakeLog, HandlerDone, HandlerThrows, vars

LEMMA StepKeepsWire ==
    ASSUME StateShape, AnnouncedNext, WireMined, [Next]_vars PROVE WireMined'
<1> DEFINE M == {"pending", "confirmed"} \X Logs
<1>w. wire \in Seq(M) /\ head \in Nat
  BY DEF StateShape
<1>h. \A l \in Logs : BlockOf[l] <= head => BlockOf[l] <= head'
  BY HeadGrows, BlocksAreNats DEF StateShape
<1>m. \A i \in 1 .. Len(wire) : wire[i] \in M
  BY <1>w
<1>o. \A i \in 1 .. Len(wire) : wire[i][1] = "confirmed" => BlockOf[wire[i][2]] <= head'
  BY <1>h, <1>m DEF WireMined
<1>1. CASE wire' = wire
  BY <1>1, <1>o DEF WireMined
<1>2. CASE wire' = <<>>
  BY <1>2 DEF WireMined
<1>3. CASE Announce /\ wire' # wire
  <2> DEFINE new == <<"pending", announced + 1>>
  <2>1. wire' = Append(wire, new) /\ new[1] # "confirmed"
    BY <1>3 DEF Announce
  <2> HIDE DEF new
  <2>2. \A i \in 1 .. Len(wire') : (i \in 1 .. Len(wire) /\ wire'[i] = wire[i]) \/ wire'[i] = new
    BY <2>1, <1>w
  <2> QED BY <2>1, <2>2, <1>o DEF WireMined
<1>4. CASE Mine /\ wire' # wire
  <2> DEFINE new == [i \in 1 .. announced - mined |-> <<"confirmed", mined + i>>]
  <2>1. announced - mined \in Nat /\ mined \in Nat /\ announced \in Nat /\ announced <= Len(BlockOf)
    BY DEF StateShape
  <2>2. wire' = wire \o new /\ head' = head + 1
    BY <1>4 DEF Mine
  <2>3. \A i \in 1 .. announced - mined : mined + i \in Logs /\ mined + i <= announced
    BY <2>1, EventIngestionAssumption DEF Logs
  <2>4. \A i \in 1 .. announced - mined : new[i] \in M /\ BlockOf[new[i][2]] <= head'
    BY <2>2, <2>3 DEF AnnouncedNext
  <2>5. new \in [1 .. announced - mined -> M]
    BY <2>4
  <2> HIDE DEF new, M
  <2>6. new \in Seq(M) /\ Len(new) = announced - mined
    BY <2>1, <2>5
  <2>7. \A i \in 1 .. Len(wire') : \/ i \in 1 .. Len(wire) /\ wire'[i] = wire[i]
                                   \/ \E j \in 1 .. announced - mined : wire'[i] = new[j]
    <3> SUFFICES ASSUME NEW i \in 1 .. Len(wire'), ~(i \in 1 .. Len(wire))
                 PROVE  \E j \in 1 .. announced - mined : wire'[i] = new[j]
      BY <2>2, <2>6, <1>w
    <3>1. i - Len(wire) \in 1 .. announced - mined /\ wire'[i] = new[i - Len(wire)]
      BY <2>2, <2>6, <1>w
    <3> QED BY <3>1
  <2> QED BY <2>4, <2>7, <1>o DEF WireMined
<1>5. CASE Deliver
  <2>1. wire' = Tail(wire) /\ wire # <<>>
    BY <1>5 DEF Deliver
  <2> HIDE DEF M
  <2>2. \A i \in 1 .. Len(wire') : i + 1 \in 1 .. Len(wire) /\ wire'[i] = wire[i + 1]
    BY <2>1, <1>w
  <2> QED BY <2>2, <1>o DEF WireMined
<1> QED BY <1>1, <1>2, <1>3, <1>4, <1>5
        DEF Next, Drop, BootFromChain, BootFromSnapshot, Boot, Crash, Subscribe,
            StartRefresh, RefreshDone, ReadHead, FetchLogs, LogDone, ChunkDone, AbortFill,
            Connect, SkipSeen, TakeLog, HandlerDone, HandlerThrows, vars, socketVars

LEMMA StepKeepsFillsMined ==
    ASSUME IngestionInv, FillsMined, [Next]_vars PROVE FillsMined'
<1> SUFFICES ASSUME NEW g \in Fills
             PROVE  /\ Working(g)' => fills'[g].to <= head'
                    /\ Pc(g, "event")' => BlockOf[fills'[g].log] <= head'
  BY DEF FillsMined
<1> USE DEF IngestionInv
<1>h. head \in Nat /\ head' \in Nat /\ head <= head'
  BY HeadGrows DEF StateShape
<1>f. fills[g].to \in Nat /\ (Pc(g, "event") => BlockOf[fills[g].log] \in Nat)
  BY BlocksAreNats DEF FillShape, FillsSound, FillSound
<1>s. ASSUME NEW f \in Fills, NEW r, Set(f, r) PROVE fills'[g] = IF f = g THEN r ELSE fills[g]
  BY <1>s DEF Set, FillShape
<1>i. IdleFill.pc = "idle" /\ [IdleFill EXCEPT !.pc = "head", !.last = checkpoint].pc = "head"
  BY DEF IdleFill
<1>r. /\ [fills[g] EXCEPT !.pc = "fetch", !.to = head, !.next = From(g)].pc = "fetch"
      /\ [fills[g] EXCEPT !.pc = "fetch", !.to = head, !.next = From(g)].to = head
      /\ [fills[g] EXCEPT !.pc = "fetch", !.next = @ + Chunk].pc = "fetch"
      /\ [fills[g] EXCEPT !.pc = "fetch", !.next = @ + Chunk].to = fills[g].to
  BY DEF FillShape
<1>1. CASE fills'[g] = fills[g]
  BY <1>1, <1>h, <1>f DEF FillsMined, Working, Pc
<1>2. CASE fills'[g].pc \in {"idle", "head"}
  BY <1>2 DEF Working, Pc
<1>3. CASE ReadHead(g)
  <2>1. \/ Set(g, IdleFill)
        \/ Set(g, [fills[g] EXCEPT !.pc = "fetch", !.to = head, !.next = From(g)])
    BY <1>3 DEF ReadHead, EndFill
  <2>2. fills'[g].pc = "idle" \/ (fills'[g].pc = "fetch" /\ fills'[g].to = head)
    BY <2>1, <1>s, <1>i, <1>r
  <2> QED BY <1>2, <1>h, <2>2 DEF Pc
<1>4. CASE FetchLogs(g) \/ LogDone(g) \/ (\E l \in Logs : SkipSeen(g, l))
  <2>1. /\ fills'[g].pc # "event" /\ fills'[g].to = fills[g].to /\ Working(g)
    <3>1. fills[g].pc = "event" \/ fills[g].pc = "logs" \/ fills[g].pc = "fetch"
      BY <1>4 DEF FetchLogs, LogDone, SkipSeen, Pc
    <3>2. CASE FetchLogs(g)
      BY <3>1, <3>2 DEF FetchLogs, Set, FillShape, Working
    <3>3. CASE LogDone(g)
      BY <3>1, <3>3 DEF LogDone, Set, FillShape, Working
    <3>4. CASE \E l \in Logs : SkipSeen(g, l)
      BY <3>1, <3>4 DEF SkipSeen, Set, FillShape, Working, Pc
    <3> QED BY <1>4, <3>2, <3>3, <3>4
  <2> QED BY <2>1, <1>h, <1>f DEF FillsMined, Pc
<1>5. ASSUME NEW l \in Logs, TakeLog(g, l)
      PROVE  fills'[g].to <= head' /\ BlockOf[fills'[g].log] <= head'
  <2>1. fills[g].pc = "logs" /\ fills'[g].to = fills[g].to /\ fills'[g].log = l
        /\ l \in fills[g].todo
    BY <1>5 DEF TakeLog, Set, FillShape, Pc, IsFirst
  <2>2. fills[g].to <= head
    BY <2>1 DEF FillsMined, Working
  <2>3. l \in LogsIn(fills[g].next, ChunkTo(g))
    BY <2>1 DEF FillsSound, FillSound, Left, InChunk
  <2>4. BlockOf[l] <= ChunkTo(g) /\ ChunkTo(g) <= fills[g].to /\ BlockOf[l] \in Nat
        /\ ChunkTo(g) \in Nat
    BY <2>3, ChunkInRange, BlocksAreNats DEF LogsIn
  <2>5. BlockOf[l] <= head'
    BY <2>2, <2>4, <1>h, <1>f
  <2> QED BY <2>1, <2>2, <2>5, <1>h, <1>f
<1>6. CASE ChunkDone(g)
  <2>1. \/ Set(g, IdleFill)
        \/ Set(g, [fills[g] EXCEPT !.pc = "fetch", !.next = @ + Chunk])
    BY <1>6 DEF ChunkDone, EndFill
  <2>2. fills'[g].pc = "idle" \/ (fills'[g].pc = "fetch" /\ fills'[g].to = fills[g].to)
    BY <2>1, <1>s, <1>i, <1>r
  <2>3. fills[g].to <= head
    BY <1>6 DEF ChunkDone, FillsMined, Working, Pc
  <2> QED BY <1>2, <1>h, <1>f, <2>2, <2>3 DEF Pc
<1>7. ASSUME NEW f \in Fills,
             \/ ReadHead(f) \/ FetchLogs(f) \/ LogDone(f) \/ ChunkDone(f)
             \/ \E l \in Logs : SkipSeen(f, l) \/ TakeLog(f, l)
      PROVE  fills'[g] = fills[g] \/ f = g
  <2>1. \E r : Set(f, r)
    BY <1>7 DEF ReadHead, FetchLogs, LogDone, ChunkDone, SkipSeen, TakeLog, EndFill
  <2> QED BY <2>1 DEF Set, FillShape
<1>8. CASE Crash
  BY <1>2, <1>8 DEF Crash, IdleFill
<1>9. CASE \/ BootFromChain \/ BootFromSnapshot
           \/ \E f \in Fills : AbortFill(f) \/ Connect(f)
  <2>1. \E f \in Fills : BeginFill(f) \/ Set(f, IdleFill)
    BY <1>9, EventIngestionAssumption
       DEF BootFromChain, BootFromSnapshot, Boot, AbortFill, Connect
  <2>2. fills'[g] = fills[g] \/ fills'[g].pc \in {"idle", "head"}
    BY <2>1, <1>s, <1>i DEF BeginFill
  <2> QED BY <2>2, <1>1, <1>2
<1>10. CASE Announce \/ Mine \/ Drop \/ Subscribe \/ Deliver \/ StartRefresh \/ RefreshDone
            \/ UNCHANGED vars \/ \E l \in Logs : HandlerDone(l) \/ HandlerThrows(l)
  BY <1>1, <1>10 DEF Announce, Mine, Drop, Subscribe, Deliver, StartRefresh, RefreshDone, vars,
                     HandlerDone, HandlerThrows
<1> QED BY <1>1, <1>3, <1>4, <1>5, <1>6, <1>7, <1>8, <1>9, <1>10 DEF Next

(* The logs of the blocks there are when the chain is first seen are the   *)
(* first ones: a log among them that is of a later block would leave too   *)
(* few before it.                                                          *)
LEMMA InitBehindHead == Init => BehindHead
<1> SUFFICES ASSUME Init PROVE BehindHead
  OBVIOUS
<1>1. HandledMined /\ WireMined /\ FillsMined
  BY DEF Init, HandledMined, WireMined, FillsMined, Working, Pc, IdleFill
<1>2. ASSUME NEW l \in Logs, l <= announced, ~(BlockOf[l] <= head + 1) PROVE FALSE
  <2> DEFINE M == {m \in Logs : BlockOf[m] <= head}
  <2>1. head \in Nat /\ announced = Cardinality(M)
    BY EventIngestionAssumption DEF Init, Blocks
  <2>2. l \in Nat /\ l >= 1 /\ IsFiniteSet(1 .. l - 1) /\ Cardinality(1 .. l - 1) = l - 1
    <3>1. l \in Nat /\ l >= 1
      BY BlocksAreNats
    <3> QED BY <3>1, FS_Interval
  <2>3. ASSUME NEW m \in M PROVE m \in 1 .. l - 1
    <3>1. m \in Nat /\ m >= 1 /\ BlockOf[m] \in Nat /\ BlockOf[l] \in Nat
      BY BlocksAreNats
    <3>2. BlockOf[m] < BlockOf[l]
      BY <1>2, <2>1, <3>1
    <3>3. ~(l <= m)
      BY <3>1, <3>2, EventIngestionAssumption DEF Logs
    <3> QED BY <2>2, <3>1, <3>3
  <2> HIDE DEF M
  <2>4. Cardinality(M) <= l - 1 /\ Cardinality(M) \in Nat
    BY <2>2, <2>3, FS_Subset, FS_CardinalityType
  <2> QED BY <1>2, <2>1, <2>2, <2>4
<1> QED BY <1>1, <1>2 DEF BehindHead, AnnouncedNext

LEMMA BehindHeadHolds == Spec => []BehindHead
<1>1. IngestionInv /\ BehindHead /\ [Next]_vars => BehindHead'
  BY StepKeepsAnnounced, StepKeepsHandled, StepKeepsWire, StepKeepsFillsMined
     DEF BehindHead, IngestionInv
<1> QED BY <1>1, InitBehindHead, IngestionInvHolds, PTL DEF Spec

(* A checkpoint that a gap fill or a handler writes, however late, is a    *)
(* block of the chain: only the clock's refresh may name the next one.     *)
THEOREM CheckpointBehindHead == Spec => CheckpointNotAhead
<1>1. IngestionInv /\ BehindHead /\ [Next]_vars =>
        [checkpoint' # checkpoint => (checkpoint' <= head \/ checkpoint' = refreshing)]_vars
  <2> SUFFICES ASSUME IngestionInv, BehindHead, Next, checkpoint' # checkpoint
               PROVE  checkpoint' <= head \/ checkpoint' = refreshing
    OBVIOUS
  <2>1. ASSUME NEW f \in Fills, LogDone(f) PROVE checkpoint' <= head
    BY <2>1 DEF LogDone, BehindHead, FillsMined
  <2>2. ASSUME NEW f \in Fills, ChunkDone(f) PROVE checkpoint' <= head
    <3>1. fills[f].to <= head /\ checkpoint' = ChunkTo(f)
      BY <2>2 DEF ChunkDone, BehindHead, FillsMined, Working, Pc
    <3>2. ChunkTo(f) \in Nat /\ ChunkTo(f) <= fills[f].to /\ fills[f].to \in Nat /\ head \in Nat
      BY ChunkInRange DEF IngestionInv, FillShape, StateShape
    <3> QED BY <3>1, <3>2
  <2>3. ASSUME NEW l \in Logs, HandlerDone(l) PROVE checkpoint' <= head
    BY <2>3 DEF HandlerDone, BehindHead, HandledMined
  <2>4. CASE RefreshDone
    BY <2>4 DEF RefreshDone
  <2> QED BY <2>1, <2>2, <2>3, <2>4
          DEF Next, Announce, Mine, Drop, BootFromChain, BootFromSnapshot, Boot, Crash, Subscribe,
              Deliver, StartRefresh, ReadHead, FetchLogs, AbortFill, Connect, SkipSeen, TakeLog,
              HandlerThrows, storeVars
<1> QED BY <1>1, IngestionInvHolds, BehindHeadHolds, PTL DEF Spec, CheckpointNotAhead

-----------------------------------------------------------------------------
(* The bounds: no block number leaves the chain by more than the clock's   *)
(* one block.                                                              *)

StateBounded ==
    /\ head \in Blocks /\ checkpoint \in 0 .. MaxBlock + 1
    /\ snapshot \in Blocks \cup {NoBlock}
    /\ phase \in {"off", "bootstrap", "running"}
    /\ base \in Blocks /\ lookFrom \in Blocks /\ caughtUp \in Blocks \cup {NoBlock}
    /\ socket \in {"down", "open", "live"} /\ roles \subseteq Roles
    /\ refreshing \in 0 .. MaxBlock + 1 \cup {NoBlock}
    /\ drops \in 0 .. MaxDrops /\ crashes \in 0 .. MaxCrashes

FillBounded(r) == r.last <= MaxBlock + 1 /\ r.to <= MaxBlock /\ r.next <= MaxBlock + 1
FillsBounded == \A f \in Fills : FillBounded(fills[f])

Bounded == StateBounded /\ FillsBounded

LEMMA BlockBounds ==
    /\ MaxBlock \in Nat /\ NoBlock \notin Nat /\ Blocks = 0 .. MaxBlock
    /\ \A l \in Logs : BlockOf[l] \in 1 .. MaxBlock
BY EventIngestionAssumption DEF Logs, NoBlock, Blocks

LEMMA EndFillBounded ==
    ASSUME StateBounded, NEW f \in Fills, NEW r \in Blocks, EndFill(f, r)
    PROVE  /\ phase' \in {"off", "bootstrap", "running"} /\ caughtUp' \in Blocks \cup {NoBlock}
           /\ base' = base /\ lookFrom' = lookFrom
BY DEF EndFill, StateBounded

LEMMA StepKeepsBounds ==
    ASSUME IngestionInv, BehindHead, Bounded, Next PROVE StateBounded'
<1> USE BlockBounds DEF Bounded, StateBounded
<1>1. CASE Announce
  BY <1>1 DEF Announce, storeVars, seedVars, budgetVars
<1>2. CASE Mine
  <2>1. head' \in Blocks
    BY <1>2 DEF Mine
  <2> QED BY <1>2, <2>1 DEF Mine, storeVars, seedVars, budgetVars
<1>3. CASE Drop
  <2>1. drops' \in 0 .. MaxDrops
    BY <1>3, EventIngestionAssumption DEF Drop
  <2> QED BY <1>3, <2>1 DEF Drop, chainVars, storeVars, seedVars
<1>4. CASE BootFromChain \/ BootFromSnapshot
  <2>1. lookFrom' \in Blocks
    BY <1>4, EventIngestionAssumption DEF BootFromChain, BootFromSnapshot, Boot
  <2>2. base' \in Blocks /\ snapshot' \in Blocks \cup {NoBlock}
    BY <1>4 DEF BootFromChain, BootFromSnapshot
  <2>3. phase' = "bootstrap" /\ UNCHANGED <<chainVars, checkpoint, caughtUp, socketVars, refreshing,
                                            budgetVars>>
    BY <1>4 DEF BootFromChain, BootFromSnapshot, Boot
  <2> QED BY <2>1, <2>2, <2>3 DEF chainVars, socketVars, budgetVars
<1>5. CASE Crash
  <2>1. crashes' \in 0 .. MaxCrashes
    BY <1>5, EventIngestionAssumption DEF Crash
  <2>2. base' \in Blocks /\ lookFrom' \in Blocks /\ roles' \subseteq Roles
    BY <1>5 DEF Crash
  <2> QED BY <1>5, <2>1, <2>2 DEF Crash, chainVars, storeVars
<1>6. CASE Subscribe
  <2>1. roles' \subseteq Roles
    BY <1>6, EventIngestionAssumption DEF Subscribe
  <2> QED BY <1>6, <2>1 DEF Subscribe, chainVars, storeVars, seedVars, budgetVars
<1>7. CASE Deliver
  BY <1>7 DEF Deliver, chainVars, storeVars, seedVars, budgetVars
<1>8. CASE StartRefresh
  <2>1. refreshing' \in 0 .. MaxBlock + 1
    BY <1>8 DEF StartRefresh
  <2> QED BY <1>8, <2>1 DEF StartRefresh, chainVars, storeVars, seedVars, socketVars, budgetVars
<1>9. CASE RefreshDone
  <2>1. checkpoint' \in 0 .. MaxBlock + 1
    BY <1>9 DEF RefreshDone
  <2> QED BY <1>9, <2>1 DEF RefreshDone, chainVars, seedVars, socketVars, budgetVars
<1>10. ASSUME NEW f \in Fills, ReadHead(f) PROVE StateBounded'
  <2>1. \/ EndFill(f, head) \/ UNCHANGED seedVars
    BY <1>10 DEF ReadHead
  <2>2. /\ phase' \in {"off", "bootstrap", "running"} /\ caughtUp' \in Blocks \cup {NoBlock}
        /\ base' = base /\ lookFrom' = lookFrom
    BY <2>1, EndFillBounded DEF seedVars
  <2> QED BY <1>10, <2>2 DEF ReadHead, chainVars, storeVars, socketVars, budgetVars
<1>11. ASSUME NEW f \in Fills, ChunkDone(f) PROVE StateBounded'
  <2>1. fills[f].to \in Blocks
    BY <1>11 DEF IngestionInv, FillShape, FillsBounded, FillBounded
  <2>2. \/ EndFill(f, fills[f].to) \/ UNCHANGED seedVars
    BY <1>11 DEF ChunkDone
  <2>3. /\ phase' \in {"off", "bootstrap", "running"} /\ caughtUp' \in Blocks \cup {NoBlock}
        /\ base' = base /\ lookFrom' = lookFrom
    BY <2>1, <2>2, EndFillBounded DEF seedVars
  <2>4. checkpoint' \in 0 .. MaxBlock + 1
    BY <1>11, <2>1, ChunkInRange DEF ChunkDone, IngestionInv
  <2> QED BY <1>11, <2>3, <2>4 DEF ChunkDone, chainVars, socketVars, budgetVars
<1>12. ASSUME NEW f \in Fills, LogDone(f) PROVE StateBounded'
  <2>1. checkpoint' \in 0 .. MaxBlock + 1
    BY <1>12 DEF LogDone, IngestionInv, FillsSound, FillSound
  <2> QED BY <1>12, <2>1 DEF LogDone, chainVars, seedVars, socketVars, budgetVars
<1>13. ASSUME NEW f \in Fills, Connect(f) PROVE StateBounded'
  BY <1>13 DEF Connect, chainVars, storeVars, seedVars, budgetVars
<1>14. ASSUME NEW f \in Fills,
              FetchLogs(f) \/ AbortFill(f) \/ \E l \in Logs : SkipSeen(f, l) \/ TakeLog(f, l)
       PROVE  StateBounded'
  BY <1>14 DEF FetchLogs, AbortFill, SkipSeen, TakeLog, chainVars, storeVars, seedVars, socketVars,
               budgetVars
<1>15. ASSUME NEW l \in Logs, HandlerDone(l) \/ HandlerThrows(l) PROVE StateBounded'
  <2>1. checkpoint' \in 0 .. MaxBlock + 1
    BY <1>15 DEF HandlerDone, HandlerThrows, storeVars
  <2> QED BY <1>15, <2>1
          DEF HandlerDone, HandlerThrows, chainVars, storeVars, seedVars, socketVars, budgetVars
<1> QED BY <1>1, <1>2, <1>3, <1>4, <1>5, <1>6, <1>7, <1>8, <1>9, <1>10, <1>11, <1>12, <1>13, <1>14,
           <1>15 DEF Next

LEMMA StepKeepsFillBounds ==
    ASSUME IngestionInv, BehindHead, Bounded, Next PROVE FillsBounded'
<1> SUFFICES ASSUME NEW g \in Fills PROVE FillBounded(fills'[g])
  BY DEF FillsBounded
<1> USE BlockBounds DEF FillBounded
<1>b. FillBounded(fills[g]) /\ FillShape /\ head \in Blocks /\ checkpoint \in 0 .. MaxBlock + 1
  BY DEF Bounded, FillsBounded, StateBounded, IngestionInv
<1>s. ASSUME NEW f \in Fills, NEW r, Set(f, r) PROVE fills'[g] = IF f = g THEN r ELSE fills[g]
  BY <1>b, <1>s DEF Set, FillShape
<1>i. FillBounded(IdleFill) /\ FillBounded([IdleFill EXCEPT !.pc = "head", !.last = checkpoint])
  BY <1>b DEF IdleFill
<1>k. ASSUME NEW r, r.last = fills[g].last, r.to = fills[g].to, r.next = fills[g].next
      PROVE  FillBounded(r)
  BY <1>b, <1>k
<1>1. CASE fills' = fills
  BY <1>1, <1>b
<1>2. CASE Announce \/ Mine \/ Drop \/ Subscribe \/ Deliver \/ StartRefresh \/ RefreshDone
           \/ \E l \in Logs : HandlerDone(l) \/ HandlerThrows(l)
  BY <1>1, <1>2 DEF Announce, Mine, Drop, Subscribe, Deliver, StartRefresh, RefreshDone,
                    HandlerDone, HandlerThrows
<1>3. CASE BootFromChain \/ BootFromSnapshot
  <2>1. Set(StartupFill, [IdleFill EXCEPT !.pc = "head", !.last = checkpoint])
    BY <1>3 DEF BootFromChain, BootFromSnapshot, Boot, BeginFill
  <2> QED BY <2>1, <1>s, <1>i, <1>b, EventIngestionAssumption
<1>4. CASE Crash
  BY <1>4, <1>i DEF Crash
<1>5. ASSUME NEW f \in Fills, AbortFill(f) \/ Connect(f) \/ Set(f, IdleFill)
      PROVE  FillBounded(fills'[g])
  <2>1. \/ Set(f, IdleFill)
        \/ Set(f, [IdleFill EXCEPT !.pc = "head", !.last = checkpoint])
    BY <1>5 DEF AbortFill, Connect, BeginFill
  <2> QED BY <2>1, <1>s, <1>i, <1>b
<1>6. ASSUME NEW f \in Fills, FetchLogs(f) \/ LogDone(f) \/ \E l \in Logs : SkipSeen(f, l) \/ TakeLog(f, l)
      PROVE  FillBounded(fills'[g])
  <2>1. \E r : /\ Set(f, r)
               /\ r.last = fills[f].last /\ r.to = fills[f].to /\ r.next = fills[f].next
    <3>1. /\ \A S : [fills[f] EXCEPT !.pc = "logs", !.todo = S].last = fills[f].last
          /\ \A S : [fills[f] EXCEPT !.pc = "logs", !.todo = S].to = fills[f].to
          /\ \A S : [fills[f] EXCEPT !.pc = "logs", !.todo = S].next = fills[f].next
      BY <1>b DEF FillShape
    <3>2. /\ [fills[f] EXCEPT !.pc = "logs", !.log = 0].last = fills[f].last
          /\ [fills[f] EXCEPT !.pc = "logs", !.log = 0].to = fills[f].to
          /\ [fills[f] EXCEPT !.pc = "logs", !.log = 0].next = fills[f].next
      BY <1>b DEF FillShape
    <3>3. \A l : /\ [fills[f] EXCEPT !.todo = @ \ {l}].last = fills[f].last
                 /\ [fills[f] EXCEPT !.todo = @ \ {l}].to = fills[f].to
                 /\ [fills[f] EXCEPT !.todo = @ \ {l}].next = fills[f].next
      BY <1>b DEF FillShape
    <3>4. \A l : /\ [fills[f] EXCEPT !.pc = "event", !.todo = @ \ {l}, !.log = l].last = fills[f].last
                 /\ [fills[f] EXCEPT !.pc = "event", !.todo = @ \ {l}, !.log = l].to = fills[f].to
                 /\ [fills[f] EXCEPT !.pc = "event", !.todo = @ \ {l}, !.log = l].next = fills[f].next
      BY <1>b DEF FillShape
    <3>5. CASE FetchLogs(f)
      BY <3>1, <3>5 DEF FetchLogs
    <3>6. CASE LogDone(f)
      BY <3>2, <3>6 DEF LogDone
    <3>7. CASE \E l \in Logs : SkipSeen(f, l)
      BY <3>3, <3>7 DEF SkipSeen
    <3>8. CASE \E l \in Logs : TakeLog(f, l)
      BY <3>4, <3>8 DEF TakeLog
    <3> QED BY <1>6, <3>5, <3>6, <3>7, <3>8
  <2> QED BY <2>1, <1>s, <1>k, <1>b
<1>7. ASSUME NEW f \in Fills, ReadHead(f) PROVE FillBounded(fills'[g])
  <2>1. CASE Set(f, IdleFill)
    BY <2>1, <1>5
  <2>2. CASE /\ From(f) <= head
             /\ Set(f, [fills[f] EXCEPT !.pc = "fetch", !.to = head, !.next = From(f)])
    <3>1. From(f) \in Nat
      BY DEF IngestionInv, From, FillShape, StateShape
    <3>2. FillBounded([fills[f] EXCEPT !.pc = "fetch", !.to = head, !.next = From(f)])
      BY <1>b, <2>2, <3>1 DEF FillShape, Bounded, FillsBounded
    <3> QED BY <2>2, <3>2, <1>s, <1>b
  <2> QED BY <1>7, <2>1, <2>2 DEF ReadHead, EndFill
<1>8. ASSUME NEW f \in Fills, ChunkDone(f) PROVE FillBounded(fills'[g])
  <2>1. CASE Set(f, IdleFill)
    BY <2>1, <1>5
  <2>2. CASE /\ ChunkTo(f) < fills[f].to
             /\ Set(f, [fills[f] EXCEPT !.pc = "fetch", !.next = @ + Chunk])
    <3>1. fills[f].next \in Nat /\ fills[f].to \in Nat /\ Chunk \in Nat \ {0}
      BY <1>b, EventIngestionAssumption DEF FillShape
    <3>2. fills[f].next + Chunk <= fills[f].to
      BY <2>2, <3>1 DEF ChunkTo, SmallerOf
    <3>3. FillBounded(fills[f])
      BY DEF Bounded, FillsBounded
    <3>4. fills[f].next + Chunk <= MaxBlock + 1
      BY <3>1, <3>2, <3>3
    <3>5. FillBounded([fills[f] EXCEPT !.pc = "fetch", !.next = @ + Chunk])
      BY <1>b, <3>3, <3>4 DEF FillShape
    <3> QED BY <2>2, <3>5, <1>s, <1>b
  <2> QED BY <1>8, <2>1, <2>2 DEF ChunkDone, EndFill
<1> QED BY <1>2, <1>3, <1>4, <1>5, <1>6, <1>7, <1>8 DEF Next

LEMMA BoundedHolds == Spec => []Bounded
<1>1. Init => Bounded
  BY BlockBounds, EventIngestionAssumption
     DEF Init, Bounded, StateBounded, FillsBounded, FillBounded, IdleFill
<1>2. IngestionInv /\ BehindHead /\ Bounded /\ [Next]_vars => Bounded'
  <2>1. CASE UNCHANGED vars
    BY <2>1 DEF vars, chainVars, storeVars, seedVars, socketVars, budgetVars, Bounded, StateBounded,
                FillsBounded, FillBounded
  <2> QED BY <2>1, StepKeepsBounds, StepKeepsFillBounds DEF Bounded
<1> QED BY <1>1, <1>2, IngestionInvHolds, BehindHeadHolds, PTL DEF Spec

(* Every value stays in its type: no gap fill reads beyond the chain, and  *)
(* the remembered keys stay distinct and within their number.              *)
THEOREM IngestionTypeCorrect == Spec => []IngestionTypeOK
<1>1. IngestionInv /\ SeenInv /\ Bounded => IngestionTypeOK
  <2> SUFFICES ASSUME IngestionInv, SeenInv, Bounded PROVE IngestionTypeOK
    OBVIOUS
  <2>1. fills \in [Fills -> FillRecords]
    <3>1. ASSUME NEW f \in Fills PROVE fills[f] \in FillRecords
      BY BlockBounds DEF IngestionInv, FillShape, Bounded, FillsBounded, FillBounded, FillRecords
    <3> QED BY <3>1 DEF IngestionInv, FillShape
  <2>2. mined \in 0 .. announced /\ announced \in 0 .. Len(BlockOf)
    <3>1. Len(BlockOf) \in Nat
      BY EventIngestionAssumption
    <3> QED BY <3>1 DEF IngestionInv, StateShape
  <2>3. IsInjective(seen)
    BY DEF SeenInv, IsInjective
  <2> QED BY <2>1, <2>2, <2>3
          DEF IngestionTypeOK, IngestionInv, StateShape, CountInv, CountShape, SeenInv, Bounded,
              StateBounded
<1> QED BY <1>1, IngestionInvHolds, SeenInvHolds, BoundedHolds, PTL

-----------------------------------------------------------------------------
(* What a gap fill has got past was counted, whatever ran beside it: the   *)
(* cursor of runBootstrapOrGapFill never leaves a log behind that neither  *)
(* it nor a live handler applied (wsEventLayer.ts:110-139).                *)
THEOREM FillCoversAlways == Spec => []FillCovers
<1>1. IngestionInv => FillCovers
  <2> SUFFICES ASSUME IngestionInv, NEW f \in Fills, fills[f].pc \in {"fetch", "logs"}
               PROVE  LET past == IF Pc(f, "logs") /\ fills[f].todo = {}
                                  THEN ChunkTo(f) ELSE fills[f].next - 1
                          low  == IF fills[f].last > 0 THEN fills[f].last + 1 ELSE lookFrom
                      IN  \A l \in LogsIn(low, past) : applied[l] >= 1
    BY DEF FillCovers
  <2>1. \A l \in LogsIn(From(f), Past(f)) : l \in Left(f) \/ applied[l] >= 1
    BY DEF IngestionInv, FillsSound, FillSound, Working
  <2>2. CASE Pc(f, "fetch")
    BY <2>1, <2>2 DEF Past, Left, InChunk, Pc, From
  <2>3. CASE Pc(f, "logs") /\ fills[f].todo = {}
    BY <2>1, <2>3 DEF Past, Left, InChunk, Pc, From
  <2>4. CASE Pc(f, "logs") /\ fills[f].todo # {}
    <3>1. /\ fills[f].next \in Nat /\ fills[f].to \in Nat /\ Chunk \in Nat \ {0}
          /\ fills[f].next <= fills[f].to
      BY <2>4, EventIngestionAssumption
         DEF IngestionInv, FillShape, FillsSound, FillSound, Working, Pc
    <3>2. fills[f].next - 1 <= ChunkTo(f) /\ ChunkTo(f) \in Nat
      BY <3>1 DEF ChunkTo, SmallerOf
    <3>3. fills[f].todo \subseteq LogsIn(fills[f].next, ChunkTo(f))
      BY <2>4 DEF IngestionInv, FillsSound, FillSound, Left, InChunk, Pc
    <3>4. ASSUME NEW l \in LogsIn(From(f), fills[f].next - 1) PROVE applied[l] >= 1
      <4>1. l \in Logs /\ BlockOf[l] \in Nat /\ BlockOf[l] <= fills[f].next - 1
        BY BlocksAreNats DEF LogsIn
      <4>2. l \in LogsIn(From(f), ChunkTo(f))
        BY <3>1, <3>2, <4>1 DEF LogsIn
      <4>3. l \notin fills[f].todo
        BY <3>1, <3>3, <4>1 DEF LogsIn
      <4> QED BY <2>1, <2>4, <4>2, <4>3 DEF Past, Left, InChunk, Pc
    <3> QED BY <2>4, <3>4 DEF From
  <2> QED BY <2>2, <2>3, <2>4 DEF Pc
<1> QED BY <1>1, IngestionInvHolds, PTL
=============================================================================
