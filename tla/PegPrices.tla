------------------------------ MODULE PegPrices ------------------------------
(***************************************************************************)
(* The prices of the local position model that have no feed of their own:  *)
(* the gap fill at the start and its refresh by a timer                    *)
(* (src/src/oracle/aaveOraclePrice.ts), and USDbC, which is worth what     *)
(* USDC is (pegPriceNormalizer.ts, healthyPegAsset.ts), with what          *)
(* localPositionModel.ts and eventPurityStack.ts do around them.           *)
(*                                                                         *)
(* USDC is the one asset with a feed; feeds, positions and health factors  *)
(* in general are in PositionModel.  A price is 0 where there is none, or  *)
(* the placeholder.  The comparison of USDbC with the Aave oracle only     *)
(* logs, and its request can only throw.                                   *)
(* A definition D_Bug is a mutant of D.                                    *)
(***************************************************************************)
EXTENDS Integers

CONSTANTS
    AavePriced,    \* BASE_AAVE_PRICED_ASSETS
    Worths,        \* what a price can be
    StaleAfter,    \* one and a half heartbeats of USDC
    PegFreshFor,   \* PEG_DERIVATION_FRESHNESS_MULTIPLIER heartbeats
    Hours,         \* bound: ticks
    Refreshes      \* bound: slots for refreshes in flight

ASSUME PegPricesAssumption ==
    /\ "usdc" \notin AavePriced /\ "usdbc" \notin AavePriced
    /\ Worths \subseteq Nat \ {0}
    /\ {StaleAfter, PegFreshFor, Hours} \subseteq Nat
    /\ "boot" \notin Refreshes

VARIABLES
    hour,         \* the clock
    startup,      \* of start(): "feeds", "fill", "live" or "failed"
    pricesWarm,   \* pricesBootstrapped, of the stack and of the model
    reserves,     \* the keys of reserveConfig
    worth,        \* prices
    usdcFeed,     \* the feed state of USDC: its source and its round
    fill,         \* by slot: a gap fill in flight
    judged        \* the prices that the last recomputation of a position with USDbC
                  \*   used for it and for USDC, zeros when it gave no health factor

pegVars == <<hour, startup, pricesWarm, reserves, worth, usdcFeed, fill, judged>>

PegAssets == AavePriced \cup {"usdc", "usdbc"}
GapFillAssets == AavePriced \cup {"usdbc"}
Slots == Refreshes \cup {"boot"}

(* Without a fill in flight; and with one that asks for prices, or holds   *)
(* the price of USDC while it asks for that of USDbC.                      *)
NoGapFill == [at |-> "idle", targets |-> {}, since |-> 0, held |-> 0]
Fetching(targets) == [at |-> "prices", targets |-> targets, since |-> hour, held |-> 0]

NotJudged == [peg |-> 0, ref |-> 0]

PegInit ==
    /\ hour = 0 /\ startup = "feeds" /\ pricesWarm = FALSE
    /\ reserves \in SUBSET GapFillAssets       \* those of the positions of the sweep
    /\ worth = [a \in PegAssets |-> 0]
    /\ usdcFeed = [from |-> "none", round |-> 0]
    /\ fill = [s \in Slots |-> NoGapFill]
    /\ judged = NotJudged

-----------------------------------------------------------------------------
(* The peg *)

(* shouldRelaxFreshnessForHealthyPeg                                       *)
Healthy(prices, feed, now) ==
    /\ prices["usdc"] # 0
    /\ feed.from = "chainlink" => now - feed.round <= PegFreshFor

(* registerPegPrice; resolvePegPriceWad18 is the price of USDC.            *)
WithPeg(prices, peg) == [prices EXCEPT !["usdbc"] = peg]
Pegged(prices) == WithPeg(prices, prices["usdc"])

(* syncDerivedPegPrices, over all assets that have a price.                *)
Synced_Never(prices) == prices
Synced(prices) ==
    IF prices["usdbc"] # 0 /\ prices["usdc"] # 0 THEN Pegged(prices) ELSE prices

(* materializeHealthyPegPrices                                             *)
Materialized(prices, feed, now) ==
    IF Healthy(prices, feed, now) THEN Pegged(prices) ELSE prices

(* resolveEffectiveAssetPriceWad18                                         *)
Effective(asset, prices, feed, now) ==
    IF prices[asset] # 0 THEN prices[asset]
    ELSE IF asset = "usdbc" /\ Healthy(prices, feed, now) THEN prices["usdc"]
    ELSE 0

(* collectStalePriceAssets: only a price of a feed is ever too old.        *)
Stale(asset, feed, now) ==
    asset = "usdc" /\ feed.from = "chainlink" /\ now - feed.round > StaleAfter

(* recomputeHf of a position with these assets.                            *)
Recompute(holds, prices, feed, now) ==
    LET peg == Materialized(Synced(prices), feed, now)
        gives == \A a \in holds : Effective(a, peg, feed, now) # 0 /\ ~Stale(a, feed, now)
    IN  IF ~pricesWarm THEN worth' = prices /\ judged' = NotJudged
        ELSE /\ worth' = peg
             /\ judged' = IF gives /\ "usdbc" \in holds
                          THEN [peg |-> Effective("usdbc", peg, feed, now), ref |-> peg["usdc"]]
                          ELSE NotJudged

-----------------------------------------------------------------------------
(* start() *)

HourPasses ==
    /\ hour < Hours /\ hour' = hour + 1
    /\ UNCHANGED <<startup, pricesWarm, reserves, worth, usdcFeed, fill, judged>>

(* The sequencer is down, or a request throws.                             *)
StartFails ==
    /\ startup \in {"feeds", "fill"} /\ startup' = "failed"
    /\ UNCHANGED <<hour, pricesWarm, reserves, worth, usdcFeed, fill, judged>>

(* collectAssetsNeedingGapFill: reserves without a price; those of the     *)
(* positions are among them.                                               *)
Needed(known, prices) == {a \in known : prices[a] = 0}

(* The feed of USDC is warm or is skipped; the other critical feed may be  *)
(* too old as well.  The gap fill begins.                                  *)
FeedsRead ==
    /\ startup = "feeds"
    /\ reserves' = reserves \cup {"usdc"}
    /\ \/ \E w \in Worths, round \in 0 .. hour :
             /\ hour - round <= StaleAfter
             /\ worth' = [worth EXCEPT !["usdc"] = w]
             /\ usdcFeed' = [from |-> "chainlink", round |-> round]
             /\ pricesWarm' \in BOOLEAN
       \/ UNCHANGED <<pricesWarm, worth, usdcFeed>>
    /\ LET needed == Needed(reserves', worth')
       IN  IF needed = {} THEN startup' = "live" /\ UNCHANGED fill
           ELSE startup' = "fill" /\ fill' = [fill EXCEPT !["boot"] = Fetching(needed)]
    /\ UNCHANGED <<hour, judged>>

(* A fill that is over; that of the start makes way for the event layer.   *)
FillEnds(s) ==
    /\ fill' = [fill EXCEPT ![s] = NoGapFill]
    /\ startup' = IF s = "boot" THEN "live" ELSE startup

Running(s) == startup = (IF s = "boot" THEN "fill" ELSE "live")

(* registerAavePrice: what failed or is zero is left as it is.             *)
Filled(answer) ==
    [a \in PegAssets |-> IF a \in DOMAIN answer /\ answer[a] # 0 THEN answer[a] ELSE worth[a]]

(* fetchAaveAssetPrices has answered.  USDbC is next: with a healthy       *)
(* reference at once, otherwise the price of USDC is kept while USDbC is   *)
(* asked for.                                                              *)
PricesFetched(s) ==
    /\ fill[s].at = "prices" /\ Running(s)
    /\ \E answer \in [fill[s].targets \ {"usdbc"} -> Worths \cup {0}] :
          LET filled == Filled(answer)
              feed == IF "usdc" \in DOMAIN answer /\ answer["usdc"] # 0
                      THEN [from |-> "aave", round |-> 0] ELSE usdcFeed
              healthy == Healthy(filled, feed, fill[s].since)
          IN  /\ usdcFeed' = feed
              /\ worth' = IF "usdbc" \in fill[s].targets /\ healthy THEN Pegged(filled) ELSE filled
              /\ IF "usdbc" \in fill[s].targets /\ ~healthy /\ filled["usdc"] # 0
                 THEN /\ fill' = [fill EXCEPT ![s].at = "peg", ![s].held = filled["usdc"]]
                      /\ UNCHANGED startup
                 ELSE FillEnds(s)
    /\ UNCHANGED <<hour, pricesWarm, reserves, judged>>

(* Whatever the divergence, the price that was kept is registered.         *)
PegFetched(s) ==
    /\ fill[s].at = "peg" /\ Running(s)
    /\ worth' = WithPeg(worth, fill[s].held)
    /\ FillEnds(s)
    /\ UNCHANGED <<hour, pricesWarm, reserves, usdcFeed, judged>>

-----------------------------------------------------------------------------
(* While it runs *)

(* The timer does not look at a refresh that is still in flight.           *)
RefreshStarts(s) ==
    /\ startup = "live" /\ pricesWarm /\ fill[s].at = "idle"
    /\ GapFillAssets \cap reserves # {}
    /\ fill' = [fill EXCEPT ![s] = Fetching(GapFillAssets \cap reserves)]
    /\ UNCHANGED <<hour, startup, pricesWarm, reserves, worth, usdcFeed, judged>>

(* A refresh that throws is logged.                                        *)
RefreshThrows(s) ==
    /\ startup = "live" /\ fill[s].at # "idle"
    /\ FillEnds(s)
    /\ UNCHANGED <<hour, pricesWarm, reserves, worth, usdcFeed, judged>>

(* An event or a snapshot names a reserve.                                 *)
RegisterReserve(a) ==
    /\ startup = "live" /\ reserves' = reserves \cup {a}
    /\ UNCHANGED <<hour, startup, pricesWarm, worth, usdcFeed, fill, judged>>

(* applyFeedPriceUpdate of USDC, from the stream or the poll, with a round *)
(* that may be older than the last: USDbC follows even if it has no price, *)
(* and the positions with either are recomputed as of that round.          *)
UsdcUpdated(w, round, holds) ==
    /\ startup = "live"
    /\ usdcFeed' = [from |-> "chainlink", round |-> round]
    /\ LET prices == Pegged([worth EXCEPT !["usdc"] = w])
       IN  IF {"usdc", "usdbc"} \cap holds = {} THEN worth' = prices /\ UNCHANGED judged
           ELSE Recompute(holds, prices, usdcFeed', round)
    /\ UNCHANGED <<hour, startup, pricesWarm, reserves, fill>>

(* A pool event, or a sample of the shadow validator.                      *)
PositionTouched(holds) ==
    /\ startup = "live"
    /\ Recompute(holds, worth, usdcFeed, hour)
    /\ UNCHANGED <<hour, startup, pricesWarm, reserves, usdcFeed, fill>>

Holdings == (SUBSET PegAssets) \ {{}}

PegNext ==
    \/ HourPasses \/ FeedsRead \/ StartFails
    \/ \E s \in Slots : PricesFetched(s) \/ PegFetched(s)
    \/ \E s \in Refreshes : RefreshStarts(s) \/ RefreshThrows(s)
    \/ \E a \in PegAssets : RegisterReserve(a)
    \/ \E holds \in Holdings :
          \/ PositionTouched(holds)
          \/ \E w \in Worths, round \in 0 .. hour : UsdcUpdated(w, round, holds)

PegSpec == PegInit /\ [][PegNext]_pegVars

PegTypeOK ==
    /\ hour \in 0 .. Hours /\ startup \in {"feeds", "fill", "live", "failed"} /\ pricesWarm \in BOOLEAN
    /\ reserves \subseteq PegAssets
    /\ worth \in [PegAssets -> Worths \cup {0}]
    /\ usdcFeed \in [from: {"none", "chainlink", "aave"}, round: 0 .. Hours]
    /\ fill \in [Slots -> [at: {"idle", "prices", "peg"}, targets: SUBSET PegAssets,
                           since: 0 .. Hours, held: Worths \cup {0}]]
    /\ judged \in [peg: Worths \cup {0}, ref: Worths \cup {0}]

-----------------------------------------------------------------------------
(* Properties *)

(* Whenever a position with USDbC gets a health factor, it was computed    *)
(* with the price that USDC has at that moment, whatever refreshes that    *)
(* began before the last change of USDC have written to USDbC since        *)
(* (localPositionModel.ts:320, "aligned with their reference stable price",*)
(* aaveOraclePrice.ts:283-295).                                            *)
JudgedAtPeg == judged.peg = judged.ref
=============================================================================
