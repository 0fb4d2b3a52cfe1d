------------------------ MODULE PositionModelProofs ------------------------
(***************************************************************************)
(* Proofs about PositionModel, for any accounts, prices, balances, units   *)
(* and numbers of requests in flight.                                      *)
(***************************************************************************)
EXTENDS PositionModel, FiniteSetTheorems, TLAPS

-----------------------------------------------------------------------------
(* Arithmetic *)

LEMMA DivType == \A m \in Nat, n \in Nat \ {0} : m \div n \in Nat
OBVIOUS

LEMMA DivBound ==
    ASSUME NEW m \in Nat, NEW n \in Nat \ {0}
    PROVE  (m * Wad) \div (n * Wad) <= m
<1> DEFINE q == (m * 20) \div (n * 20)
<1>1. m * 20 \in Nat /\ n * 20 \in Nat \ {0}
  OBVIOUS
<1>2. q \in Nat /\ (n * 20) * q <= m * 20
  BY <1>1
<1>3. 20 * q <= (n * 20) * q
  BY <1>1, <1>2
<1> HIDE DEF q
<1>4. q <= m
  BY <1>2, <1>3
<1> QED BY <1>4 DEF q, Wad

LEMMA HfType == \A c, d \in Nat : CalculateHf(c, d) \in Nat
BY DivType DEF CalculateHf, MaxHf, Wad

LEMMA SameIsNear == \A n \in Nat : ~ Diverges(n, n)
<1> SUFFICES ASSUME NEW n \in 1 .. MaxHf - 1 PROVE (Distance(n, n) * 10000) \div n = 0
  BY DEF Diverges
<1>1. Distance(n, n) = 0
  BY DEF Distance, MaxHf, Wad
<1>2. n \in Nat \ {0}
  BY DEF MaxHf, Wad
<1> QED BY <1>1, <1>2

LEMMA MaxIsNear == \A n : ~ Diverges(MaxHf, n)
BY DEF Diverges, MaxHf, Wad

-----------------------------------------------------------------------------
(* One position                                                            *)

PoolKinds == {"Supply", "Withdraw", "Borrow", "Repay", "LiquidationCall"}
ChainTotals ==
    {totals \in Totals : totals.hf <= MaxHf /\ totals.hf = CalculateHf(totals.collateral, totals.debt)}

Sound(p) ==
    /\ p \in PositionRecords
    /\ ~ p.seeded => p.hf = MaxHf /\ p.totals = NoTotals
    /\ p.seeded => p.totals \in ChainTotals /\ ~ Diverges(AggregateHf(p), p.hf)

ChainTypes == chain \in [Accounts -> Balances] /\ chainPrice \in Prices
IndexTypes == index \in [Reserves -> {1, Ray}] /\ bootstrapped \in BOOLEAN

LEMMA TotalsSound == ASSUME ChainTypes, NEW a \in Accounts PROVE TotalsOf(a) \in ChainTotals
<1> DEFINE c == chain[a].C
           d == chain[a].D
<1>1. c \in 0 .. MaxBalance /\ d \in 0 .. MaxBalance /\ chainPrice \in Nat \ {0} /\ MaxBalance \in Nat
  BY PositionModelAssumption DEF ChainTypes, Balances, Reserves
<1> HIDE DEF c, d
<1>2. c * chainPrice \in Nat /\ d * Wad \in Nat /\ c * chainPrice <= MaxBalance * chainPrice
  BY <1>1 DEF Wad
<1>3. MaxBalance * chainPrice <= MaxHf
  BY HfFits DEF ChainTypes
<1>4. CalculateHf(c * chainPrice, d * Wad) \in Nat
  BY <1>2, HfType
<1>5. CalculateHf(c * chainPrice, d * Wad) <= MaxHf
  <2>1. CASE d = 0
    BY <2>1 DEF CalculateHf, MaxHf, Wad
  <2>2. CASE d # 0
    <3>1. ((c * chainPrice) * Wad) \div (d * Wad) <= c * chainPrice
      BY <1>1, <1>2, <2>2, DivBound
    <3>2. MaxHf \in Nat /\ MaxBalance * chainPrice \in Nat
      BY <1>1 DEF MaxHf, Wad
    <3>3. d * Wad # 0
      BY <1>1, <2>2 DEF Wad
    <3> QED BY <1>2, <1>3, <1>4, <3>1, <3>2, <3>3 DEF CalculateHf
  <2> QED BY <2>1, <2>2
<1> QED BY <1>2, <1>4, <1>5 DEF TotalsOf, ChainHf, ChainTotals, Totals, c, d

LEMMA NoTotalsApart == NoTotals \notin Totals
BY DEF NoTotals, Totals

LEMMA CreatedSound == \A block \in 0 .. MaxBlock : Sound(Created(block))
BY DEF Sound, Created, PositionRecords, NoTotals, MaxHf, Wad

LEMMA AppliedSound ==
    ASSUME IndexTypes, NEW p, Sound(p), NEW kind \in PoolKinds
    PROVE  /\ Sound(Applied(p, kind))
           /\ Applied(p, kind).seeded = p.seeded /\ Applied(p, kind).hf = p.hf
           /\ Applied(p, kind).activity = p.activity
<1> DEFINE Like(q) == /\ q.seeded = p.seeded /\ q.hf = p.hf /\ q.totals = p.totals
                      /\ q.activity = p.activity
<1>1. ASSUME NEW q \in PositionRecords, Like(q), NEW r \in Reserves
      PROVE  /\ Add(q, r) \in PositionRecords /\ Like(Add(q, r))
             /\ Sub(q, r) \in PositionRecords /\ Like(Sub(q, r))
  <2>1. q.balance \in [Reserves -> Nat] /\ q.indexAt \in [Reserves -> {1, Ray}] /\ q.balance[r] \in Nat
    BY DEF PositionRecords
  <2> DEFINE more == [q.balance EXCEPT ![r] = @ + 1]
             less == [q.balance EXCEPT ![r] = IF @ > 1 THEN @ - 1 ELSE 0]
             now  == [q.indexAt EXCEPT ![r] = index[r]]
             then == [q.indexAt EXCEPT ![r] = IF q.balance[r] > 1 THEN @ ELSE 1]
  <2>2. /\ more \in [Reserves -> Nat] /\ less \in [Reserves -> Nat]
        /\ now \in [Reserves -> {1, Ray}] /\ then \in [Reserves -> {1, Ray}]
    BY <2>1 DEF IndexTypes
  <2>3. ASSUME NEW b \in [Reserves -> Nat], NEW i \in [Reserves -> {1, Ray}]
        PROVE  /\ [q EXCEPT !.balance = b, !.indexAt = i] \in PositionRecords
               /\ Like([q EXCEPT !.balance = b, !.indexAt = i])
    BY <1>1 DEF PositionRecords
  <2>4. Add(q, r) = [q EXCEPT !.balance = more, !.indexAt = now]
    BY DEF Add, PositionRecords
  <2>5. Sub(q, r) = [q EXCEPT !.balance = less, !.indexAt = then]
    BY DEF Sub, PositionRecords
  <2>6. /\ [q EXCEPT !.balance = more, !.indexAt = now] \in PositionRecords
        /\ Like([q EXCEPT !.balance = more, !.indexAt = now])
    <3> HIDE DEF Like, more, now
    <3> QED BY <2>2, <2>3
  <2>7. /\ [q EXCEPT !.balance = less, !.indexAt = then] \in PositionRecords
        /\ Like([q EXCEPT !.balance = less, !.indexAt = then])
    <3> HIDE DEF Like, less, then
    <3> QED BY <2>2, <2>3
  <2> HIDE DEF Like, more, less, now, then
  <2> QED BY <2>4, <2>5, <2>6, <2>7
<1>2. p \in PositionRecords /\ Like(p) /\ "C" \in Reserves /\ "D" \in Reserves
  BY DEF Sound, Reserves
<1>3. Applied(p, kind) \in PositionRecords /\ Like(Applied(p, kind))
  <2> HIDE DEF Like
  <2>1. Sub(p, "D") \in PositionRecords /\ Like(Sub(p, "D"))
    BY <1>1, <1>2
  <2> QED BY <1>1, <1>2, <2>1 DEF Applied, PoolKinds
<1> QED BY <1>3 DEF Sound, AggregateHf

LEMMA ResolveSound ==
    ASSUME NEW p, Sound(p), p.seeded, NEW hf \in Nat
    PROVE  /\ ResolveEffective(p, hf) \in 0 .. MaxHf
           /\ ~ Diverges(AggregateHf(p), ResolveEffective(p, hf))
<1> DEFINE agg == AggregateHf(p)
           capped == CapPerReserve(p, hf)
           r == ResolveEffective(p, hf)
<1>1. agg \in 0 .. MaxHf /\ p.hf \in 0 .. MaxHf /\ ~ Diverges(agg, p.hf) /\ p.totals # NoTotals
  <2>1. p.totals \in ChainTotals /\ p.totals \in Totals /\ ~ Diverges(agg, p.hf) /\ p.hf \in 0 .. MaxHf
    BY DEF Sound, ChainTotals, PositionRecords
  <2>2. agg = p.totals.hf /\ agg \in Nat /\ agg <= MaxHf
    BY <2>1 DEF ChainTotals, Totals, AggregateHf
  <2>3. MaxHf \in Nat
    BY DEF MaxHf, Wad
  <2> HIDE DEF agg
  <2> QED BY <2>1, <2>2, <2>3, NoTotalsApart
<1>2. capped \in 0 .. MaxHf
  BY DEF CapPerReserve, HfCap, MaxHf, Wad
<1>3. ~ Diverges(agg, agg)
  BY <1>1, SameIsNear
<1>4. \/ r = agg \/ r = p.hf
      \/ r = capped /\ ~ Diverges(agg, capped)
  BY <1>1 DEF ResolveEffective
<1> HIDE DEF agg, capped, r
<1>5. r \in 0 .. MaxHf /\ ~ Diverges(agg, r)
  BY <1>1, <1>2, <1>3, <1>4
<1> QED BY <1>5 DEF agg, r

LEMMA CommitSound ==
    ASSUME IndexTypes, NEW p, Sound(p), p.seeded, NEW pr \in Nat, NEW isFresh
    PROVE  /\ Sound(Commit(p, pr, isFresh))
           /\ Commit(p, pr, isFresh).activity = p.activity
<1>1. p.balance.C \in Nat /\ p.balance.D \in Nat /\ p.indexAt.C \in Nat \ {0} /\ p.indexAt.D \in Nat \ {0}
      /\ index.C \in Nat \ {0} /\ index.D \in Nat \ {0}
  BY PositionModelAssumption DEF Sound, PositionRecords, IndexTypes, Reserves
<1>2. \A m \in Nat, k, n \in Nat \ {0} : Scale(m, k, n) \in Nat
  <2> TAKE m \in Nat, k, n \in Nat \ {0}
  <2>1. m * n \in Nat
    OBVIOUS
  <2> QED BY <2>1, DivType DEF Scale
<1>3. /\ Scale(p.balance.C, p.indexAt.C, index.C) * pr \in Nat
      /\ Scale(p.balance.D, p.indexAt.D, index.D) * Wad \in Nat
  <2>1. \A m, n \in Nat : m * n \in Nat
    OBVIOUS
  <2> QED BY <1>1, <1>2, <2>1 DEF Wad
<1>4. RecomputedHf(p, pr) \in 0 .. MaxHf /\ ~ Diverges(AggregateHf(p), RecomputedHf(p, pr))
  <2> DEFINE collateral == Scale(p.balance.C, p.indexAt.C, index.C) * pr
             debt == Scale(p.balance.D, p.indexAt.D, index.D) * Wad
  <2>1. AggregateHf(p) \in Nat /\ CalculateHf(collateral, debt) \in Nat
    BY <1>3, HfType DEF Sound, ChainTotals, Totals, AggregateHf
  <2>2. \/ \E hf \in Nat : RecomputedHf(p, pr) = ResolveEffective(p, hf)
        \/ RecomputedHf(p, pr) = MaxHf /\ ~ (debt > 0) /\ ~ (debt = 0 /\ p.totals.debt > 0)
    <3> HIDE DEF collateral, debt
    <3>1. p.totals # NoTotals
      BY NoTotalsApart DEF Sound, ChainTotals
    <3> QED BY <2>1, <3>1 DEF RecomputedHf, collateral, debt
  <2>3. CASE \E hf \in Nat : RecomputedHf(p, pr) = ResolveEffective(p, hf)
    BY <2>3, ResolveSound
  <2>4. CASE RecomputedHf(p, pr) = MaxHf /\ ~ (debt > 0) /\ ~ (debt = 0 /\ p.totals.debt > 0)
    <3>1. p.totals.debt = 0
      BY <1>3, <2>4 DEF Sound, ChainTotals, Totals
    <3>2. AggregateHf(p) = MaxHf
      BY <3>1 DEF AggregateHf, CalculateHf
    <3> QED BY <2>4, <3>2, MaxIsNear DEF MaxHf, Wad
  <2> QED BY <2>2, <2>3, <2>4
<1>5. ASSUME NEW hf \in 0 .. MaxHf, ~ Diverges(AggregateHf(p), hf)
      PROVE  Sound([p EXCEPT !.hf = hf]) /\ [p EXCEPT !.hf = hf].activity = p.activity
  <2>1. /\ [p EXCEPT !.hf = hf] \in PositionRecords
        /\ AggregateHf([p EXCEPT !.hf = hf]) = AggregateHf(p)
    BY DEF Sound, PositionRecords, AggregateHf
  <2> QED BY <1>5, <2>1 DEF Sound, PositionRecords
<1> QED BY <1>4, <1>5 DEF Commit

LEMMA JudgedType ==
    \A totals \in ChainTotals : Judged(totals) = totals.hf /\ totals.hf \in 0 .. MaxHf /\ totals \in Totals
BY DEF Judged, ChainTotals, Totals, MaxHf, Wad

LEMMA JudgedSound ==
    ASSUME NEW totals \in ChainTotals,
           NEW p \in PositionRecords, p.seeded, p.totals = totals, p.hf = Judged(totals)
    PROVE  Sound(p)
<1>1. p.hf = totals.hf /\ p.hf \in Nat /\ totals.hf = CalculateHf(totals.collateral, totals.debt)
  BY JudgedType DEF ChainTotals, Totals
<1>2. AggregateHf(p) = p.hf
  BY <1>1 DEF AggregateHf
<1> QED BY <1>1, <1>2, SameIsNear DEF Sound

-----------------------------------------------------------------------------
(* All positions                                                           *)

SoundAll(ps) == DOMAIN ps \subseteq Accounts /\ \A a \in DOMAIN ps : Sound(ps[a])

(* What evictions leave. *)
PartOf(qs, ps) == DOMAIN qs \subseteq DOMAIN ps /\ \A a \in DOMAIN qs : qs[a] = ps[a]

LEMMA PartSound == \A ps, qs : SoundAll(ps) /\ PartOf(qs, ps) => SoundAll(qs)
BY DEF SoundAll, PartOf

LEMMA WithoutFields ==
    ASSUME NEW ps, NEW S
    PROVE  /\ DOMAIN Without(ps, S) = DOMAIN ps \ S
           /\ \A a \in DOMAIN ps \ S : Without(ps, S)[a] = ps[a]
           /\ PartOf(Without(ps, S), ps)
BY DEF Without, Restrict, PartOf

LEMMA EvictedPart ==
    ASSUME NEW ps, NEW block
    PROVE  /\ PartOf(EvictInactive(ps, block), ps)
           /\ \A qs \in EnforceHardCap(ps, block) \cup RelieveMemory(ps, block) : PartOf(qs, ps)
<1>1. \A os, qs, rs : PartOf(os, qs) /\ PartOf(qs, rs) => PartOf(os, rs)
  BY DEF PartOf
<1>2. \A qs : PartOf(EvictInactive(qs, block), qs)
  BY WithoutFields DEF EvictInactive
<1>3. \A V : PartOf(EvictInactive(Without(ps, V), block), ps)
  BY <1>1, <1>2, WithoutFields
<1> QED BY <1>2, <1>3 DEF EnforceHardCap, RelieveMemory

LEMMA PutSound ==
    \A ps, p : \A a \in Accounts : SoundAll(ps) /\ Sound(p) => SoundAll(Put(ps, a, p))
BY DEF SoundAll, Put

LEMMA GetSound ==
    ASSUME NEW ps, SoundAll(ps), NEW a \in Accounts, NEW block \in 0 .. MaxBlock
    PROVE  Sound(GetOrCreate(ps, a, block))
BY CreatedSound DEF SoundAll, GetOrCreate

LEMMA ConfirmedSound ==
    ASSUME NEW ps, SoundAll(ps), NEW a \in Accounts, NEW totals \in ChainTotals,
           NEW block \in 0 .. MaxBlock
    PROVE  /\ SoundAll(Confirmed(ps, a, totals, block))
           /\ Sound(Confirmed(ps, a, totals, block)[a])
<1> DEFINE p == GetOrCreate(ps, a, block)
           q == [p EXCEPT !.seeded = TRUE, !.totals = totals, !.hf = Judged(totals)]
<1>1. Sound(q)
  <2>1. p \in PositionRecords
    BY GetSound DEF Sound
  <2>2. q \in PositionRecords /\ q.seeded = TRUE /\ q.totals = totals /\ q.hf = Judged(totals)
    BY <2>1, JudgedType DEF PositionRecords
  <2> HIDE DEF q
  <2> QED BY <2>2, JudgedSound
<1>2. Confirmed(ps, a, totals, block) = Put(ps, a, q)
  BY DEF Confirmed
<1>3. Put(ps, a, q)[a] = q
  BY DEF Put
<1> HIDE DEF p, q
<1> QED BY <1>1, <1>2, <1>3, PutSound

LEMMA SeededSound ==
    ASSUME NEW ps, SoundAll(ps), IndexTypes, NEW a \in Accounts, NEW totals \in ChainTotals,
           NEW balance \in Balances, NEW block \in 0 .. MaxBlock
    PROVE  SoundAll(Seeded(ps, a, totals, balance, block))
<1> DEFINE p == [balance |-> balance,
                 indexAt |-> [r \in Reserves |-> IF balance[r] > 0 THEN index[r] ELSE 1],
                 hf |-> Judged(totals), seeded |-> TRUE, totals |-> totals, activity |-> block]
<1>1. p \in PositionRecords
  <2>1. balance \in [Reserves -> Nat]
    BY PositionModelAssumption DEF Balances
  <2>2. [r \in Reserves |-> IF balance[r] > 0 THEN index[r] ELSE 1] \in [Reserves -> {1, Ray}]
    BY DEF IndexTypes
  <2> QED BY <2>1, <2>2, JudgedType DEF PositionRecords
<1>2. p.seeded = TRUE /\ p.totals = totals /\ p.hf = Judged(totals)
  OBVIOUS
<1>3. Seeded(ps, a, totals, balance, block) = Put(ps, a, p)
  BY DEF Seeded
<1> HIDE DEF p
<1> QED BY <1>1, <1>2, <1>3, JudgedSound, PutSound

LEMMA RepricedSound ==
    ASSUME SoundAll(positions), IndexTypes, NEW pr \in Nat, NEW isFresh
    PROVE  SoundAll(Repriced(pr, isFresh)) /\ DOMAIN Repriced(pr, isFresh) = DOMAIN positions
BY CommitSound DEF SoundAll, Repriced

-----------------------------------------------------------------------------
(* Events and requests in flight                                           *)

Events ==
    [kind: PoolKinds, account: Accounts, block: 0 .. MaxBlock]
    \cup [kind: {"Price"}, price: Prices, block: 0 .. MaxBlock]

WireOK == wire = <<>> \/ \E e \in Events : wire = <<e>>

Answers == {Unread} \cup UNION {[S -> ChainTotals] : S \in SUBSET Accounts}

TaskRecs ==
    [kind: {"idle", "seed", "confirm", "aggregate", "poll"}, accounts: SUBSET Accounts,
     block: 0 .. MaxBlock, answer: Answers, balance: Balances \cup {NoBalance}, price: Nat]

TaskOK(r) ==
    /\ r \in TaskRecs
    /\ r.kind = "poll" => r.price \in Prices
    /\ r.kind = "seed" /\ r.answer # Unread => DOMAIN r.answer = r.accounts

TasksOK == tasks \in [Tasks -> TaskRecs] /\ \A t \in Tasks : TaskOK(tasks[t])

BaseOK ==
    /\ ChainTypes /\ IndexTypes /\ head \in 1 .. MaxBlock /\ events \in 0 .. MaxEvents
    /\ phase \in {"boot", "live", "failed"} /\ attempt \in 1 .. Retries
    /\ price \in Prices \cup {1} /\ fresh \in BOOLEAN /\ candidates \subseteq Accounts

PositionInv == BaseOK /\ WireOK /\ TasksOK /\ SoundAll(positions)

LEMMA AnswerFields ==
    ASSUME NEW answer \in Answers
    PROVE  answer # Unread => /\ DOMAIN answer \subseteq Accounts
                              /\ \A a \in DOMAIN answer : answer[a] \in ChainTotals
BY DEF Answers

LEMMA AnswerMade ==
    /\ \A S \in SUBSET Accounts : \A f \in [S -> ChainTotals] : f \in Answers
    /\ Unread \in Answers
BY DEF Answers

LEMMA IdleOK == TaskOK(IdleTask)
BY AnswerMade, PositionModelAssumption DEF TaskOK, IdleTask, TaskRecs

LEMMA OneTask ==
    ASSUME TasksOK, NEW t \in Tasks, NEW r, TaskOK(r), tasks' = [tasks EXCEPT ![t] = r]
    PROVE  TasksOK'
BY DEF TasksOK, TaskOK

LEMMA FlushOK ==
    ASSUME TasksOK, NEW t \in Tasks, NEW changes, NEW block \in 0 .. MaxBlock,
           \A c \in changes : c.account \in Accounts, Flush(t, changes, block)
    PROVE  TasksOK'
<1> DEFINE r == IF ToConfirm(changes) = {} THEN IdleTask
                ELSE [IdleTask EXCEPT !.kind = "confirm", !.accounts = ToConfirm(changes), !.block = block]
<1>1. ToConfirm(changes) \subseteq Accounts
  BY DEF ToConfirm
<1>2. TaskOK(r)
  BY <1>1, IdleOK DEF TaskOK, IdleTask, TaskRecs
<1>3. tasks' = [tasks EXCEPT ![t] = r]
  BY DEF Flush
<1> HIDE DEF r
<1> QED BY <1>2, <1>3, OneTask

LEMMA PositionsStart == PositionInit => PositionInv
<1> SUFFICES ASSUME PositionInit PROVE PositionInv
  OBVIOUS
<1> USE PositionModelAssumption
<1>1. ChainTypes
  <2>1. [C |-> 1, D |-> 0] \in Balances /\ [C |-> MaxBalance, D |-> MaxBalance] \in Balances
    BY DEF Balances, Reserves
  <2> QED BY <2>1 DEF PositionInit, ChainTypes
<1>2. BaseOK
  <2>1. IndexTypes
    BY DEF PositionInit, IndexTypes
  <2> QED BY <1>1, <2>1 DEF PositionInit, BaseOK
<1>3. TasksOK
  BY IdleOK DEF PositionInit, TasksOK, TaskOK
<1>4. SoundAll(positions)
  BY DEF PositionInit, SoundAll
<1> QED BY <1>2, <1>3, <1>4 DEF PositionInv, PositionInit, WireOK

-----------------------------------------------------------------------------
(* Steps of the chain, of the bootstrap and of the indices                 *)

LEMMA HappensOK ==
    ASSUME BaseOK, WireOK, NEW e \in Events, Happens(e), ChainTypes'
    PROVE  BaseOK' /\ WireOK' /\ UNCHANGED <<index, positions, tasks>>
<1>1. wire' = <<e>> /\ events' \in 0 .. MaxEvents
  BY PositionModelAssumption DEF Happens, BaseOK
<1> QED BY <1>1 DEF Happens, BaseOK, WireOK, IndexTypes, bootVars, feedVars

LEMMA ChainSteps ==
    ASSUME PositionInv,
           \/ \E a \in Accounts : \E kind \in PoolKinds : PoolEvent(a, kind)
           \/ PriceMoves \/ NewBlock \/ FeedAges \/ SequencerUnhealthy \/ PricesRead
           \/ \E r \in Refreshed : HandleIndex(r) \/ RefreshIndex(r)
    PROVE  PositionInv'
<1> USE DEF PositionInv
<1>1. BaseOK /\ WireOK /\ TasksOK /\ SoundAll(positions) /\ ChainTypes /\ head \in 0 .. MaxBlock
      /\ 0 \in 0 .. MaxBlock
  BY PositionModelAssumption DEF BaseOK
<1>2. ASSUME NEW a \in Accounts, NEW kind \in PoolKinds, PoolEvent(a, kind)
      PROVE  PositionInv'
  <2>1. PICK block \in {0, head} : Happens([kind |-> kind, account |-> a, block |-> block])
    BY <1>2 DEF PoolEvent
  <2>2. [kind |-> kind, account |-> a, block |-> block] \in Events
    BY <1>1 DEF Events
  <2>3. ChainTypes'
    BY <1>1, <1>2 DEF PoolEvent, ChainTypes
  <2> QED BY <1>1, <2>1, <2>2, <2>3, HappensOK DEF TasksOK, TaskOK, SoundAll
<1>3. CASE PriceMoves
  <2>1. PICK p \in Prices : /\ chainPrice' = p /\ UNCHANGED chain
                            /\ Happens([kind |-> "Price", price |-> p, block |-> head])
    BY <1>3 DEF PriceMoves
  <2>2. [kind |-> "Price", price |-> p, block |-> head] \in Events
    BY <1>1 DEF Events
  <2>3. ChainTypes'
    BY <1>1, <2>1 DEF ChainTypes
  <2> QED BY <1>1, <2>1, <2>2, <2>3, HappensOK DEF TasksOK, TaskOK, SoundAll
<1>4. CASE NewBlock \/ FeedAges \/ SequencerUnhealthy \/ PricesRead
           \/ \E r \in Refreshed : HandleIndex(r) \/ RefreshIndex(r)
  <2>1. UNCHANGED <<chain, chainPrice, wire, positions, tasks, candidates>>
    BY <1>4 DEF NewBlock, FeedAges, SequencerUnhealthy, PricesRead, HandleIndex, RefreshIndex, IndexIsRay,
                chainVars
  <2>2. BaseOK'
    <3>1. CASE NewBlock
      BY <3>1, PositionModelAssumption DEF NewBlock, BaseOK, ChainTypes, IndexTypes, bootVars, feedVars
    <3>2. CASE FeedAges
      BY <3>2 DEF FeedAges, BaseOK, ChainTypes, IndexTypes, chainVars, bootVars
    <3>3. CASE SequencerUnhealthy
      BY <3>3, PositionModelAssumption
         DEF SequencerUnhealthy, BaseOK, ChainTypes, IndexTypes, chainVars, feedVars
    <3>4. CASE PricesRead
      BY <3>4, PositionModelAssumption
         DEF PricesRead, FeedPrice, BaseOK, ChainTypes, IndexTypes, chainVars
    <3>5. CASE \E r \in Refreshed : HandleIndex(r) \/ RefreshIndex(r)
      <4>1. PICK r \in Reserves : index' = [index EXCEPT ![r] = Ray]
        BY <3>5, PositionModelAssumption DEF HandleIndex, RefreshIndex, IndexIsRay, Reserves
      <4>2. index' \in [Reserves -> {1, Ray}]
        BY <1>1, <4>1 DEF BaseOK, IndexTypes
      <4> QED BY <3>5, <4>2
              DEF HandleIndex, RefreshIndex, IndexIsRay, BaseOK, ChainTypes, IndexTypes, chainVars,
                  bootVars, feedVars
    <3> QED BY <1>4, <3>1, <3>2, <3>3, <3>4, <3>5
  <2> QED BY <1>1, <2>1, <2>2 DEF TasksOK, TaskOK, SoundAll, WireOK
<1> QED BY <1>2, <1>3, <1>4

-----------------------------------------------------------------------------
(* Handlers of events                                                      *)

LEMMA ReceiveOK ==
    ASSUME WireOK, NEW t, Receive(t)
    PROVE  Head(wire) \in Events /\ WireOK'
<1>1. PICK e \in Events : wire = <<e>>
  BY DEF WireOK, Receive
<1>2. Head(wire) = e /\ Tail(wire) = <<>>
  BY <1>1
<1> QED BY <1>2 DEF WireOK, Receive

LEMMA RepricedAccounts ==
    ASSUME SoundAll(positions), NEW pr
    PROVE  \A c \in RepricedChanges(pr) : c.account \in Accounts
<1> SUFFICES ASSUME NEW c \in RepricedChanges(pr) PROVE c.account \in Accounts
  OBVIOUS
<1>1. PICK a \in DOMAIN positions : c = Change(a, Repriced(pr, TRUE)[a], FALSE)
  BY DEF RepricedChanges
<1> QED BY <1>1 DEF Change, SoundAll

LEMMA TouchedSound ==
    ASSUME SoundAll(positions), IndexTypes, NEW e \in Events, e.kind # "Price"
    PROVE  /\ Sound(Touched(e)) /\ e.account \in Accounts /\ e.block \in 0 .. MaxBlock
           /\ Touched(e).activity = e.block
           /\ e.account \in DOMAIN positions => Touched(e).hf = positions[e.account].hf
<1>1. e.account \in Accounts /\ e.block \in 0 .. MaxBlock /\ e.kind \in PoolKinds
  BY DEF Events
<1> DEFINE p == GetOrCreate(positions, e.account, e.block)
           q == [p EXCEPT !.activity = e.block]
<1>2. Sound(p)
  BY <1>1, GetSound
<1>3. Sound(q) /\ q.activity = e.block /\ q.hf = p.hf
  BY <1>1, <1>2 DEF Sound, PositionRecords, AggregateHf
<1>4. e.account \in DOMAIN positions => p = positions[e.account]
  BY DEF GetOrCreate
<1> HIDE DEF p, q
<1>5. Touched(e) = Applied(q, e.kind)
  BY DEF Touched, p, q
<1> QED BY <1>1, <1>3, <1>4, <1>5, AppliedSound

LEMMA HandlerSteps ==
    ASSUME PositionInv, NEW t \in Tasks,
           HandlePrice(t) \/ HandleLiquidation(t) \/ HandleFirstTouch(t) \/ HandlePoolEvent(t)
    PROVE  PositionInv'
<1> DEFINE e == Head(wire)
<1>1. BaseOK /\ WireOK /\ TasksOK /\ SoundAll(positions) /\ IndexTypes
  BY DEF PositionInv, BaseOK
<1>2. Receive(t) /\ e \in Events /\ WireOK'
  BY <1>1, ReceiveOK DEF HandlePrice, HandleLiquidation, HandleFirstTouch, HandlePoolEvent, PoolEventAt
<1>3. price \in Nat /\ Prices \subseteq Nat
  BY <1>1, PositionModelAssumption DEF BaseOK
<1>4. CASE HandlePrice(t)
  <2>1. e.price \in Prices /\ e.block \in 0 .. MaxBlock
    BY <1>2, <1>4 DEF HandlePrice, Events, PoolKinds
  <2>2. SoundAll(positions')
    BY <1>1, <1>3, <1>4, <2>1, RepricedSound DEF HandlePrice, ApplyFeedPrice
  <2>3. TasksOK'
    BY <1>1, <1>4, <2>1, FlushOK, RepricedAccounts DEF HandlePrice
  <2>4. BaseOK'
    BY <1>1, <1>2, <1>4, <2>1
       DEF HandlePrice, ApplyFeedPrice, Receive, BaseOK, ChainTypes, IndexTypes, bootVars
  <2> QED BY <1>2, <2>2, <2>3, <2>4 DEF PositionInv, SoundAll
<1>5. CASE HandleLiquidation(t) \/ HandleFirstTouch(t) \/ HandlePoolEvent(t)
  <2>1. PoolEventAt(t) /\ e.kind # "Price"
    BY <1>5 DEF HandleLiquidation, HandleFirstTouch, HandlePoolEvent, PoolEventAt
  <2>2. /\ Sound(Touched(e)) /\ e.account \in Accounts /\ e.block \in 0 .. MaxBlock
    BY <1>1, <1>2, <2>1, TouchedSound
  <2>3. BaseOK'
    BY <1>1, <1>2, <2>1 DEF PoolEventAt, Receive, BaseOK, ChainTypes, IndexTypes, bootVars, feedVars
  <2>4. SoundAll(positions') /\ TasksOK'
    <3>1. CASE HandleLiquidation(t)
      BY <1>1, <3>1, WithoutFields, PartSound DEF HandleLiquidation, TasksOK, TaskOK
    <3>2. CASE HandleFirstTouch(t)
      <4>1. SoundAll(Put(positions, e.account, Touched(e)))
        BY <1>1, <2>2, PutSound
      <4>2. SoundAll(positions')
        BY <3>2, <4>1, EvictedPart, PartSound DEF HandleFirstTouch
      <4> DEFINE r == [IdleTask EXCEPT !.kind = "seed", !.accounts = {e.account}, !.block = e.block]
      <4>3. TaskOK(r)
        BY <2>2, IdleOK DEF TaskOK, TaskRecs, IdleTask
      <4>4. tasks' = [tasks EXCEPT ![t] = r]
        BY <3>2 DEF HandleFirstTouch
      <4> HIDE DEF r
      <4> QED BY <1>1, <4>2, <4>3, <4>4, OneTask
    <3>3. CASE HandlePoolEvent(t)
      <4> DEFINE q == Commit(Touched(e), price, fresh)
      <4>1. Sound(q)
        BY <1>1, <1>3, <2>2, <3>3, CommitSound DEF HandlePoolEvent
      <4>2. positions' \in EnforceHardCap(Put(positions, e.account, q), e.block)
        BY <3>3 DEF HandlePoolEvent
      <4>3. PICK changes :
               Flush(t, changes, e.block) /\ \A c \in changes : c.account \in Accounts
        BY <2>2, <3>3 DEF HandlePoolEvent, Change
      <4> HIDE DEF q
      <4>4. SoundAll(positions')
        BY <1>1, <2>2, <4>1, <4>2, PutSound, EvictedPart, PartSound
      <4>5. TasksOK'
        BY <1>1, <2>2, <4>3, FlushOK
      <4> QED BY <4>4, <4>5
    <3> QED BY <1>5, <3>1, <3>2, <3>3
  <2> QED BY <1>2, <2>3, <2>4 DEF PositionInv, SoundAll
<1> QED BY <1>4, <1>5

-----------------------------------------------------------------------------
(* Requests in flight, and memory pressure                                 *)

RequestSteps(t) ==
    \/ ReadTotals(t) \/ ReadBalances(t) \/ FinishSeed(t) \/ StartAggregates(t)
    \/ FinishAggregates(t) \/ StartPoll(t) \/ FinishPoll(t) \/ FailTask(t)
    \/ \E a \in Accounts : ConfirmRow(t, a)

LEMMA RequestBase ==
    ASSUME PositionInv, NEW t \in Tasks, RequestSteps(t)
    PROVE  BaseOK' /\ WireOK'
<1>1. /\ BaseOK /\ WireOK /\ TasksOK
      /\ UNCHANGED <<chain, chainPrice, head, wire, events, phase, attempt, bootstrapped>>
  BY DEF PositionInv, RequestSteps, ReadTotals, ReadBalances, FinishSeed, StartAggregates,
         FinishAggregates, StartPoll, FinishPoll, FailTask, ConfirmRow, RequestUnchanged, chainVars, bootVars
<1>2. CASE FinishPoll(t)
  <2>1. tasks[t].price \in Prices
    BY <1>1, <1>2 DEF FinishPoll, TasksOK, TaskOK
  <2> QED BY <1>1, <1>2, <2>1
          DEF FinishPoll, ApplyFeedPrice, BaseOK, WireOK, ChainTypes, IndexTypes
<1>3. CASE ~ FinishPoll(t)
  <2>1. UNCHANGED <<price, fresh, index>> /\ candidates' \subseteq Accounts
    BY <1>1, <1>3
       DEF RequestSteps, ReadTotals, ReadBalances, FinishSeed, StartAggregates, FinishAggregates, StartPoll,
           FailTask, ConfirmRow, feedVars, BaseOK
  <2> QED BY <1>1, <2>1 DEF BaseOK, WireOK, ChainTypes, IndexTypes
<1> QED BY <1>2, <1>3

LEMMA RequestTasks ==
    ASSUME PositionInv, NEW t \in Tasks, RequestSteps(t), SoundAll(positions')
    PROVE  TasksOK'
<1>1. TasksOK /\ TaskOK(tasks[t]) /\ tasks[t] \in TaskRecs /\ ChainTypes /\ SoundAll(positions)
      /\ head \in 0 .. MaxBlock /\ chainPrice \in Nat
  BY PositionModelAssumption DEF PositionInv, BaseOK, TasksOK, ChainTypes
<1>2. tasks[t].block \in 0 .. MaxBlock /\ tasks[t].accounts \subseteq Accounts /\ tasks[t].answer \in Answers
  BY <1>1 DEF TaskRecs
<1>3. CASE ReadTotals(t)
  <2> DEFINE f == [a \in tasks[t].accounts |-> TotalsOf(a)]
             r == [tasks[t] EXCEPT !.answer = f]
  <2>1. f \in [tasks[t].accounts -> ChainTotals] /\ DOMAIN f = tasks[t].accounts
    BY <1>1, <1>2, TotalsSound
  <2>2. f \in Answers
    BY <1>2, <2>1, AnswerMade
  <2> HIDE DEF f
  <2>3. TaskOK(r)
    BY <1>1, <2>1, <2>2 DEF TaskOK, TaskRecs
  <2>4. tasks' = [tasks EXCEPT ![t] = r]
    BY <1>3 DEF ReadTotals, f
  <2> HIDE DEF r
  <2> QED BY <1>1, <2>3, <2>4, OneTask
<1>4. CASE ReadBalances(t)
  <2>1. PICK a \in tasks[t].accounts : tasks' = [tasks EXCEPT ![t] = [tasks[t] EXCEPT !.balance = chain[a]]]
    BY <1>4 DEF ReadBalances
  <2>2. chain[a] \in Balances
    BY <1>1, <1>2 DEF ChainTypes
  <2>3. TaskOK([tasks[t] EXCEPT !.balance = chain[a]])
    BY <1>1, <2>2 DEF TaskOK, TaskRecs
  <2> QED BY <1>1, <2>1, <2>3, OneTask
<1>5. CASE FinishSeed(t)
  <2>1. PICK changes :
           Flush(t, changes, tasks[t].block) /\ \A c \in changes : c.account \in Accounts
    BY <1>2, <1>5 DEF FinishSeed, Change
  <2> QED BY <1>1, <1>2, <2>1, FlushOK
<1>6. CASE StartAggregates(t)
  <2> DEFINE r == [IdleTask EXCEPT !.kind = "aggregate", !.accounts = AtRisk, !.block = head]
  <2>1. AtRisk \subseteq Accounts
    BY <1>1 DEF AtRisk, SoundAll
  <2>2. TaskOK(r)
    BY <1>1, <2>1, IdleOK DEF TaskOK, TaskRecs, IdleTask
  <2>3. tasks' = [tasks EXCEPT ![t] = r]
    BY <1>6 DEF StartAggregates
  <2> HIDE DEF r
  <2> QED BY <1>1, <2>2, <2>3, OneTask
<1>7. CASE FinishAggregates(t) \/ FailTask(t)
  BY <1>1, <1>7, IdleOK, OneTask DEF FinishAggregates, FailTask
<1>8. CASE StartPoll(t)
  <2> DEFINE r == [IdleTask EXCEPT !.kind = "poll", !.block = head, !.price = chainPrice]
  <2>1. TaskOK(r)
    BY <1>1, IdleOK DEF TaskOK, TaskRecs, IdleTask, ChainTypes
  <2>2. tasks' = [tasks EXCEPT ![t] = r]
    BY <1>8 DEF StartPoll
  <2> HIDE DEF r
  <2> QED BY <1>1, <2>1, <2>2, OneTask
<1>9. CASE FinishPoll(t)
  BY <1>1, <1>2, <1>9, RepricedAccounts, FlushOK DEF FinishPoll
<1>10. ASSUME NEW a \in Accounts, ConfirmRow(t, a) PROVE TasksOK'
  <2> DEFINE rest == Without(tasks[t].answer, {a})
             r == [tasks[t] EXCEPT !.answer = rest]
  <2>1. /\ DOMAIN rest \subseteq Accounts
        /\ rest \in [DOMAIN rest -> ChainTotals]
    <3>1. /\ tasks[t].answer # Unread
          /\ rest = [b \in DOMAIN tasks[t].answer \ {a} |-> tasks[t].answer[b]]
      BY <1>10 DEF ConfirmRow, Without, Restrict
    <3> QED BY <1>2, <3>1, AnswerFields
  <2>2. rest \in Answers
    BY <2>1, AnswerMade
  <2>3. tasks[t].kind = "confirm" /\ tasks' = [tasks EXCEPT ![t] = IF DOMAIN rest = {} THEN IdleTask ELSE r]
    BY <1>10 DEF ConfirmRow
  <2> HIDE DEF rest
  <2>4. TaskOK(r)
    BY <1>1, <2>2, <2>3 DEF TaskOK, TaskRecs
  <2> HIDE DEF r
  <2> QED BY <1>1, <2>3, <2>4, IdleOK, OneTask
<1> QED BY <1>3, <1>4, <1>5, <1>6, <1>7, <1>8, <1>9, <1>10 DEF RequestSteps

LEMMA RequestPositions ==
    ASSUME PositionInv, NEW t \in Tasks, RequestSteps(t)
    PROVE  SoundAll(positions')
<1>1. TasksOK /\ TaskOK(tasks[t]) /\ tasks[t] \in TaskRecs /\ SoundAll(positions) /\ IndexTypes
  BY DEF PositionInv, BaseOK, TasksOK
<1>2. tasks[t].block \in 0 .. MaxBlock /\ tasks[t].accounts \subseteq Accounts /\ tasks[t].answer \in Answers
      /\ tasks[t].balance \in Balances \cup {NoBalance}
  BY <1>1 DEF TaskRecs
<1>3. CASE FinishSeed(t)
  <2>1. PICK a \in tasks[t].accounts :
           IF tasks[t].answer[a].debt = 0 THEN positions' = Without(positions, {a})
           ELSE positions' \in EnforceHardCap(Seeded(positions, a, tasks[t].answer[a], tasks[t].balance,
                                                     tasks[t].block), tasks[t].block)
    BY <1>3 DEF FinishSeed
  <2>2. a \in Accounts /\ tasks[t].answer[a] \in ChainTotals /\ tasks[t].balance \in Balances
    BY <1>1, <1>2, <1>3, AnswerFields DEF FinishSeed, TaskOK
  <2>3. SoundAll(Seeded(positions, a, tasks[t].answer[a], tasks[t].balance, tasks[t].block))
    BY <1>1, <1>2, <2>2, SeededSound
  <2>4. CASE positions' = Without(positions, {a})
    BY <1>1, <2>4, WithoutFields, PartSound
  <2>5. CASE positions' \in EnforceHardCap(Seeded(positions, a, tasks[t].answer[a], tasks[t].balance,
                                                 tasks[t].block), tasks[t].block)
    BY <2>3, <2>5, EvictedPart, PartSound
  <2> QED BY <2>1, <2>4, <2>5
<1>4. CASE FinishAggregates(t)
  <2> DEFINE answer == tasks[t].answer
             block == tasks[t].block
  <2>1. /\ DOMAIN answer \subseteq Accounts
        /\ \A a \in DOMAIN answer : answer[a] \in ChainTotals
    BY <1>2, <1>4, AnswerFields DEF FinishAggregates
  <2>2. positions' = [a \in DOMAIN positions \cup DOMAIN answer |->
            IF a \in DOMAIN answer THEN Confirmed(positions, a, answer[a], block)[a] ELSE positions[a]]
    BY <1>4 DEF FinishAggregates
  <2>3. \A a \in DOMAIN answer : Sound(Confirmed(positions, a, answer[a], block)[a])
    BY <1>1, <1>2, <2>1, ConfirmedSound
  <2> HIDE DEF answer, block
  <2> QED BY <1>1, <2>1, <2>2, <2>3 DEF SoundAll
<1>5. CASE FinishPoll(t)
  <2>1. tasks[t].price \in Nat
    BY <1>1 DEF TaskRecs
  <2> QED BY <1>1, <1>5, <2>1, RepricedSound DEF FinishPoll, ApplyFeedPrice
<1>6. ASSUME NEW a \in Accounts, ConfirmRow(t, a) PROVE SoundAll(positions')
  <2>1. tasks[t].answer[a] \in ChainTotals
    BY <1>2, <1>6, AnswerFields DEF ConfirmRow
  <2> QED BY <1>1, <1>2, <1>6, <2>1, ConfirmedSound DEF ConfirmRow
<1>7. CASE positions' = positions
  BY <1>1, <1>7
<1> QED BY <1>3, <1>4, <1>5, <1>6, <1>7
        DEF RequestSteps, ReadTotals, ReadBalances, StartAggregates, StartPoll, FailTask

LEMMA PositionStep == PositionInv /\ [PositionNext]_positionVars => PositionInv'
<1> SUFFICES ASSUME PositionInv, [PositionNext]_positionVars PROVE PositionInv'
  OBVIOUS
<1>1. CASE \/ \E a \in Accounts : \E kind \in PoolKinds : PoolEvent(a, kind)
           \/ PriceMoves \/ NewBlock \/ FeedAges \/ SequencerUnhealthy \/ PricesRead
           \/ \E r \in Refreshed : HandleIndex(r) \/ RefreshIndex(r)
  BY <1>1, ChainSteps
<1>2. ASSUME NEW t \in Tasks,
             HandlePrice(t) \/ HandleLiquidation(t) \/ HandleFirstTouch(t) \/ HandlePoolEvent(t)
      PROVE  PositionInv'
  BY <1>2, HandlerSteps
<1>3. ASSUME NEW t \in Tasks, RequestSteps(t) PROVE PositionInv'
  BY <1>3, RequestBase, RequestTasks, RequestPositions DEF PositionInv, SoundAll
<1>4. CASE MemoryPressure
  <2>1. SoundAll(positions')
    BY <1>4, EvictedPart, PartSound DEF PositionInv, MemoryPressure
  <2> QED BY <1>4, <2>1
          DEF MemoryPressure, PositionInv, BaseOK, ChainTypes, IndexTypes, WireOK, TasksOK, TaskOK,
              SoundAll, chainVars, bootVars, feedVars
<1>5. CASE UNCHANGED positionVars
  BY <1>5
     DEF positionVars, PositionInv, BaseOK, ChainTypes, IndexTypes, WireOK, TasksOK, TaskOK,
         SoundAll, chainVars, bootVars, feedVars
<1> QED BY <1>1, <1>2, <1>3, <1>4, <1>5 DEF PositionNext, RequestSteps, PoolKinds

LEMMA PositionInvHolds == PositionSpec => []PositionInv
BY PositionsStart, PositionStep, PTL DEF PositionSpec

-----------------------------------------------------------------------------
(* The invariants                                                          *)

(* Balances stay natural numbers, health factors fit their type, and a     *)
(* request keeps to the accounts there are.                                *)
THEOREM PositionTypeCorrect == PositionSpec => []PositionTypeOK
<1>1. PositionInv => PositionTypeOK
  <2> SUFFICES ASSUME PositionInv PROVE PositionTypeOK
    OBVIOUS
  <2>1. Len(wire) <= 1
    <3>1. \A e : Len(<<e>>) <= 1
      OBVIOUS
    <3>2. Len(<<>>) <= 1
      OBVIOUS
    <3> QED BY <3>1, <3>2 DEF PositionInv, WireOK
  <2>2. \A t \in Tasks : tasks[t] \in TaskRecs
    BY DEF PositionInv, TasksOK
  <2> QED BY <2>1, <2>2
          DEF PositionTypeOK, PositionInv, BaseOK, ChainTypes, IndexTypes, SoundAll, Sound, TaskRecs
<1> QED BY <1>1, PositionInvHolds, PTL

(* No health factor is computed from balances that the chain was not asked *)
(* about (localPositionModel.ts:263, :604).                                *)
THEOREM PartialNeverJudged == PositionSpec => []PartialNotJudged
<1>1. PositionInv => PartialNotJudged
  BY DEF PositionInv, SoundAll, Sound, PartialNotJudged
<1> QED BY <1>1, PositionInvHolds, PTL

(* A cached health factor stays within half of the last one of the chain,  *)
(* for any prices, balances and units (localPositionHfPolicy.ts:96-117).   *)
THEOREM HfStaysNear == PositionSpec => []HfNearAggregate
<1>1. PositionInv => HfNearAggregate
  BY DEF PositionInv, SoundAll, Sound, HfNearAggregate
<1> QED BY <1>1, PositionInvHolds, PTL

-----------------------------------------------------------------------------
(* Who leaves                                                              *)

MayLeave(a) ==
    \/ positions[a].hf >= EvictHf
    \/ Cardinality(DOMAIN positions \cup DOMAIN positions') > HardCap
    \/ KnownToBeClosed(a)

LEMMA LeftOut ==
    ASSUME NEW ps, NEW S, NEW a \in DOMAIN ps
    PROVE  /\ a \in DOMAIN Without(ps, S) <=> a \notin S
           /\ a \notin S => Without(ps, S)[a] = ps[a]
BY DEF Without, Restrict

LEMMA QuietLeaves ==
    ASSUME NEW ps, NEW block, NEW a \in DOMAIN ps, a \notin DOMAIN EvictInactive(ps, block)
    PROVE  ps[a].hf >= EvictHf /\ block - ps[a].activity >= Inactive
BY LeftOut DEF EvictInactive

(* Of the positions over the hard cap there are no more than necessary.    *)
LEMMA HardCapLeaves ==
    ASSUME NEW ps, NEW block, NEW qs \in EnforceHardCap(ps, block)
    PROVE  \E V \in SUBSET DOMAIN ps :
              /\ Cardinality(V) = Excess(ps, HardCap)
              /\ \A a \in DOMAIN ps \ DOMAIN qs :
                    a \in V \/ (ps[a].hf >= EvictHf /\ block - ps[a].activity >= Inactive)
<1>1. PICK V \in LeastActive(ps, DOMAIN ps, Excess(ps, HardCap)) :
         qs = EvictInactive(Without(ps, V), block)
  BY DEF EnforceHardCap
<1>2. V \in SUBSET DOMAIN ps /\ Cardinality(V) = Excess(ps, HardCap)
  BY DEF LeastActive
<1>3. ASSUME NEW a \in DOMAIN ps \ DOMAIN qs, a \notin V
      PROVE  ps[a].hf >= EvictHf /\ block - ps[a].activity >= Inactive
  <2>1. a \in DOMAIN Without(ps, V) /\ Without(ps, V)[a] = ps[a]
    BY <1>3, LeftOut
  <2> QED BY <1>1, <1>3, <2>1, QuietLeaves
<1> QED BY <1>2, <1>3

LEMMA PairCard == ASSUME NEW x, NEW y, x # y PROVE Cardinality({x, y}) = 2
<1>1. IsFiniteSet({x}) /\ Cardinality({x}) = 1
  BY FS_Singleton
<1>2. Cardinality({x} \cup {y}) = IF y \in {x} THEN Cardinality({x}) ELSE Cardinality({x}) + 1
  BY <1>1, FS_AddElement
<1>3. {x} \cup {y} = {x, y}
  OBVIOUS
<1> QED BY <1>1, <1>2, <1>3

LEMMA PutLeaves ==
    ASSUME SoundAll(positions), NEW x \in Accounts, NEW p, NEW block \in 0 .. MaxBlock, p.activity = block,
           positions' \in EnforceHardCap(Put(positions, x, p), block),
           NEW a \in DOMAIN positions \ DOMAIN positions'
    PROVE  MayLeave(a)
<1> DEFINE ps == Put(positions, x, p)
<1>1. /\ DOMAIN ps = DOMAIN positions \cup {x} /\ ps[x] = p
      /\ \A b \in DOMAIN positions \ {x} : ps[b] = positions[b]
  BY DEF Put
<1>2. PartOf(positions', ps)
  BY EvictedPart
<1>3. PICK V \in SUBSET DOMAIN ps :
         /\ Cardinality(V) = Excess(ps, HardCap)
         /\ \A b \in DOMAIN ps \ DOMAIN positions' :
               b \in V \/ (ps[b].hf >= EvictHf /\ block - ps[b].activity >= Inactive)
  BY HardCapLeaves
<1> HIDE DEF ps
<1>4. ~ (block - ps[x].activity >= Inactive)
  BY <1>1, PositionModelAssumption
<1>5. IsFiniteSet(DOMAIN positions) /\ IsFiniteSet(DOMAIN ps) /\ IsFiniteSet(V)
  <2>1. DOMAIN ps \subseteq Accounts /\ DOMAIN positions \subseteq Accounts
    BY <1>1 DEF SoundAll
  <2> QED BY <2>1, FS_Subset, PositionModelAssumption
<1>6. CASE a \notin V
  BY <1>1, <1>3, <1>4, <1>6 DEF MayLeave
<1>7. CASE a \in V
  <2>1. Cardinality(V) \in Nat \ {0} /\ Cardinality(DOMAIN ps) \in Nat /\ Cardinality(DOMAIN positions) \in Nat
    BY <1>5, <1>7, FS_CardinalityType, FS_EmptySet
  <2>2. Cardinality(V) = Cardinality(DOMAIN ps) - HardCap /\ HardCap \in Nat
    BY <1>3, <2>1, PositionModelAssumption DEF Excess
  <2>3. CASE x \in DOMAIN positions \cup DOMAIN positions'
    <3>1. DOMAIN positions \cup DOMAIN positions' = DOMAIN ps
      BY <1>1, <1>2, <2>3 DEF PartOf
    <3> QED BY <2>1, <2>2, <3>1 DEF MayLeave
  <2>4. CASE x \notin DOMAIN positions \cup DOMAIN positions'
    <3>1. x \in V /\ x # a
      BY <1>1, <1>3, <1>4, <2>4
    <3>2. Cardinality({a, x}) <= Cardinality(V) /\ Cardinality({a, x}) = 2
      <4>1. {a, x} \in SUBSET V
        BY <1>7, <3>1
      <4> QED BY <1>5, <3>1, <4>1, PairCard, FS_Subset
    <3>3. Cardinality(DOMAIN ps) = Cardinality(DOMAIN positions) + 1
      BY <1>1, <1>5, <2>4, FS_AddElement
    <3>4. DOMAIN positions \cup DOMAIN positions' = DOMAIN positions
      BY <1>1, <1>2, <2>4 DEF PartOf
    <3> QED BY <2>1, <2>2, <3>2, <3>3, <3>4 DEF MayLeave
  <2> QED BY <2>3, <2>4
<1> QED BY <1>6, <1>7

LEMMA LeaveStep ==
    ASSUME PositionInv, [PositionNext]_positionVars,
           NEW a \in DOMAIN positions \ DOMAIN positions'
    PROVE  MayLeave(a)
<1>1. SoundAll(positions) /\ TasksOK /\ IndexTypes /\ WireOK /\ price \in Nat
  BY PositionModelAssumption DEF PositionInv, BaseOK
<1>2. ASSUME NEW t \in Tasks, HandleLiquidation(t) PROVE MayLeave(a)
  <2>1. a = Head(wire).account
    <3>1. positions' = Without(positions, {Head(wire).account})
      BY <1>2 DEF HandleLiquidation
    <3> QED BY <3>1, LeftOut
  <2> QED BY <1>2, <2>1 DEF HandleLiquidation, Closes, PoolEventAt, Receive, MayLeave, KnownToBeClosed
<1>3. ASSUME NEW t \in Tasks, HandleFirstTouch(t) \/ HandlePoolEvent(t) PROVE MayLeave(a)
  <2> DEFINE e == Head(wire)
  <2>1. e \in Events /\ e.kind # "Price"
    BY <1>1, <1>3, ReceiveOK DEF HandleFirstTouch, HandlePoolEvent, PoolEventAt
  <2>2. /\ Sound(Touched(e)) /\ e.account \in Accounts /\ e.block \in 0 .. MaxBlock
        /\ Touched(e).activity = e.block
    BY <1>1, <2>1, TouchedSound
  <2>3. PICK p : p.activity = e.block /\ positions' \in EnforceHardCap(Put(positions, e.account, p), e.block)
    BY <1>1, <1>3, <2>2, CommitSound DEF HandleFirstTouch, HandlePoolEvent
  <2> HIDE DEF e
  <2> QED BY <1>1, <2>2, <2>3, PutLeaves
<1>4. ASSUME NEW t \in Tasks, FinishSeed(t) PROVE MayLeave(a)
  <2>0. TaskOK(tasks[t]) /\ tasks[t].block \in 0 .. MaxBlock /\ tasks[t].accounts \subseteq Accounts
        /\ DOMAIN tasks[t].answer = tasks[t].accounts
    BY <1>1, <1>4 DEF TasksOK, TaskOK, TaskRecs, FinishSeed
  <2>1. PICK b \in tasks[t].accounts :
           IF tasks[t].answer[b].debt = 0 THEN positions' = Without(positions, {b})
           ELSE positions' \in EnforceHardCap(Seeded(positions, b, tasks[t].answer[b], tasks[t].balance,
                                                     tasks[t].block), tasks[t].block)
    BY <1>4 DEF FinishSeed
  <2>2. CASE tasks[t].answer[b].debt = 0
    <3>1. a = b
      BY <2>1, <2>2, LeftOut
    <3> QED BY <1>4, <2>0, <2>2, <3>1 DEF FinishSeed, MayLeave, KnownToBeClosed
  <2>3. CASE tasks[t].answer[b].debt # 0
    <3>1. PICK p : /\ p.activity = tasks[t].block
                   /\ positions' \in EnforceHardCap(Put(positions, b, p), tasks[t].block)
      BY <2>1, <2>3 DEF Seeded
    <3> QED BY <1>1, <2>0, <3>1, PutLeaves
  <2> QED BY <2>2, <2>3
<1>5. CASE MemoryPressure
  <2> DEFINE healthy == {b \in DOMAIN positions : positions[b].hf >= EvictHf}
  <2>1. PICK V : V \subseteq healthy /\ positions' = EvictInactive(Without(positions, V), head)
    BY <1>5 DEF MemoryPressure, RelieveMemory, LeastActive
  <2>2. CASE a \in V
    BY <2>1, <2>2 DEF MayLeave
  <2>3. CASE a \notin V
    <3>1. a \in DOMAIN Without(positions, V) /\ Without(positions, V)[a] = positions[a]
      BY <2>3, LeftOut
    <3> QED BY <2>1, <3>1, QuietLeaves DEF MayLeave
  <2> QED BY <2>2, <2>3
<1>6. ASSUME NEW t \in Tasks,
             \/ HandlePrice(t) \/ FinishPoll(t) \/ FinishAggregates(t)
             \/ \E b \in Accounts : ConfirmRow(t, b)
      PROVE  FALSE
  <2>1. CASE HandlePrice(t) \/ FinishPoll(t)
    BY <2>1 DEF HandlePrice, FinishPoll, ApplyFeedPrice, Repriced
  <2>2. CASE FinishAggregates(t)
    BY <2>2 DEF FinishAggregates
  <2>3. CASE \E b \in Accounts : ConfirmRow(t, b)
    <3>1. PICK b, totals, block : positions' = Confirmed(positions, b, totals, block)
      BY <2>3 DEF ConfirmRow
    <3>2. DOMAIN positions' = DOMAIN positions \cup {b}
      BY <3>1 DEF Confirmed, Put
    <3> QED BY <3>2
  <2> QED BY <1>6, <2>1, <2>2, <2>3
<1>7. positions' # positions
  OBVIOUS
<1> QED BY <1>2, <1>3, <1>4, <1>5, <1>6, <1>7
        DEF PositionNext, PoolEvent, PriceMoves, Happens, NewBlock, FeedAges, SequencerUnhealthy, PricesRead,
            HandleIndex, RefreshIndex, IndexIsRay, ReadTotals, ReadBalances, StartAggregates, StartPoll,
            FailTask, positionVars

(* A position that is not healthy leaves only for the hard cap, or when it *)
(* is known to be closed (localPositionModel.ts:487-493, :813-834), however*)
(* many accounts there are and whatever the cap is.                        *)
THEOREM AtRiskStays == PositionSpec => AtRiskKept
<1>1. PositionInv /\ [PositionNext]_positionVars
      => [\A a \in DOMAIN positions \ DOMAIN positions' :
             \/ positions[a].hf >= EvictHf
             \/ Cardinality(DOMAIN positions \cup DOMAIN positions') > HardCap
             \/ KnownToBeClosed(a)]_positionVars
  BY LeaveStep DEF MayLeave
<1> QED BY <1>1, PositionInvHolds, PTL DEF PositionSpec, AtRiskKept
=============================================================================
