----------------------------- MODULE OracleCache -----------------------------
(***************************************************************************)
(* src/src/utils/priceOracleCache.ts: the cache of USD prices, its shared  *)
(* reads and its forced refreshes.                                         *)
(*                                                                         *)
(* A price is the round of the feed it comes from; time passes in ticks    *)
(* and ages saturate.  An await that answers from a cache (the decimals of *)
(* a feed) is one that may answer at once.  clear() has no caller.         *)
(* A definition D_Bug is a mutant of D.                                    *)
(***************************************************************************)
EXTENDS Integers, Sequences, FiniteSets, SequencesExt

CONSTANTS
    Tokens,
    WithFeed,     \* tokens whose feed is configured and has a valid address
    Readers,      \* bound: calls at one time
    Requests,     \* the tokens a batch asks for, each once and in any order
    CacheTtl,     \* cacheTtlMs, in ticks
    MaxStale,     \* maxStaleMs, in ticks
    Rounds        \* bound: rounds of a feed

ASSUME OracleAssumption ==
    /\ WithFeed \subseteq Tokens /\ CacheTtl \in Nat \ {0} /\ MaxStale \in Nat /\ Rounds \in Nat
    /\ \A ask \in Requests : ask # {} /\ ask \subseteq Tokens /\ IsFiniteSet(ask)
    /\ "nobody" \notin Readers

VARIABLES
    latest,       \* the chain: the latest round of each token's feed
    ageOf,        \* the chain: how old each of its rounds is
    priced,       \* cache: by token, the round and ticks since it was stored
    inFlight,     \* by token, the reader whose promise is in flight
    reads         \* the calls

oracleVars == <<latest, ageOf, priced, inFlight, reads>>
roundVars == <<latest, ageOf>>

Oldest == MaxStale + CacheTtl
NoRound == -1
NoReader == "nobody"
Unpriced == [round |-> NoRound, held |-> CacheTtl, source |-> "none"]
NoAnswer == [round |-> NoRound, aged |-> FALSE]

(* A call: what it was, the tokens of its multicall, what it reads one     *)
(* after the other (a token, where that is, and the round it has), the     *)
(* promises it waits for, what it has got, and the rounds there were when  *)
(* it was made.                                                            *)
Idle == [kind |-> "none", multi |-> <<>>, left |-> <<>>, joins |-> [t \in Tokens |-> NoReader],
         got |-> [t \in Tokens |-> NoAnswer], since |-> [t \in Tokens |-> NoRound]]
Item(t, how, round) == [token |-> t, how |-> how, round |-> round]

OracleTypeOK ==
    /\ latest \in [Tokens -> 0 .. Rounds] /\ ageOf \in [Tokens -> [0 .. Rounds -> 0 .. Oldest]]
    /\ priced \in [Tokens -> [round: NoRound .. Rounds, held: 0 .. CacheTtl,
                              source: {"none", "chainlink", "aave"}]]
    /\ inFlight \in [Tokens -> Readers \cup {NoReader}]
    /\ \A c \in Readers :
        /\ reads[c].kind \in {"none", "get", "batch", "force"} /\ ToSet(reads[c].multi) \subseteq Tokens
        /\ \A item \in ToSet(reads[c].left) :
            item \in [token: Tokens, how: {"round", "scale", "aave"}, round: NoRound .. Rounds]
        /\ reads[c].joins \in [Tokens -> Readers \cup {NoReader}]

OracleInit ==
    /\ latest = [t \in Tokens |-> 0] /\ ageOf = [t \in Tokens |-> [r \in 0 .. Rounds |-> 0]]
    /\ priced = [t \in Tokens |-> Unpriced] /\ inFlight = [t \in Tokens |-> NoReader]
    /\ reads = [c \in Readers |-> Idle]

-----------------------------------------------------------------------------
(* The feeds and time *)

FeedMoves(t) ==
    /\ t \in WithFeed /\ latest[t] < Rounds
    /\ latest' = [latest EXCEPT ![t] = @ + 1]
    /\ UNCHANGED <<ageOf, priced, inFlight, reads>>

OracleTick ==
    /\ ageOf' = [t \in Tokens |-> [r \in 0 .. Rounds |->
                    IF t \in WithFeed /\ r <= latest[t] /\ ageOf[t][r] < Oldest
                    THEN ageOf[t][r] + 1 ELSE ageOf[t][r]]]
    /\ priced' = [t \in Tokens |-> [priced[t] EXCEPT !.held = IF @ < CacheTtl THEN @ + 1 ELSE @]]
    /\ UNCHANGED <<latest, inFlight, reads>>

-----------------------------------------------------------------------------
(* getFreshCached, guardFreshness, storePrice *)

Fresh(store, t) == store[t].held < CacheTtl
Stored(t, r, source) == [priced EXCEPT ![t] = [round |-> r, held |-> 0, source |-> source]]

(* What the reader gets, and whether it is too old: Aave's price counts as *)
(* new whatever round it is made of.                                       *)
Quote(t, r, source) == [round |-> r, aged |-> source = "chainlink" /\ ageOf[t][r] >= Oldest]

Trusted(t, r) == ageOf[t][r] <= MaxStale

(* The answer for the first item: everybody who waits for the promise of a *)
(* getUsdPrice gets it too, and the promise leaves inFlight, or whichever  *)
(* other one is there by now does.                                         *)
Answered(c, t, answer) ==
    LET own == [reads[c] EXCEPT !.left = Tail(@), !.got[t] = answer]
        mine == [reads EXCEPT ![c] = own]
    IN  IF reads[c].kind # "get" THEN reads' = mine /\ UNCHANGED inFlight
        ELSE /\ inFlight' = [inFlight EXCEPT ![t] = NoReader]
             /\ reads' = [d \in Readers |->
                    IF reads[d].joins[t] = c
                    THEN [mine[d] EXCEPT !.joins[t] = NoReader, !.got[t] = answer] ELSE mine[d]]

Current(c) == Head(reads[c].left)
Busy(c) == reads[c].left # <<>>
At(c, how) == Busy(c) /\ Current(c).how = how
Turns(c, how, round) ==
    reads' = [reads EXCEPT ![c].left = <<Item(Current(c).token, how, round)>> \o Tail(@)]

-----------------------------------------------------------------------------
(* The calls *)

Ended(c) == reads[c].left = <<>> /\ reads[c].multi = <<>> /\ \A t \in Tokens : reads[c].joins[t] = NoReader

How(t) == IF t \in WithFeed THEN "round" ELSE "aave"

GetUsdPrice(c, t) ==
    /\ Ended(c)
    /\ IF Fresh(priced, t)
       THEN /\ reads' = [reads EXCEPT ![c] = [Idle EXCEPT !.kind = "get",
                            !.got[t] = Quote(t, priced[t].round, priced[t].source)]]
            /\ UNCHANGED inFlight
       ELSE IF inFlight[t] # NoReader
       THEN /\ reads' = [reads EXCEPT ![c] = [Idle EXCEPT !.kind = "get", !.joins[t] = inFlight[t]]]
            /\ UNCHANGED inFlight
       ELSE /\ reads' = [reads EXCEPT ![c] = [Idle EXCEPT !.kind = "get",
                                                          !.left = <<Item(t, How(t), NoRound)>>]]
            /\ inFlight' = [inFlight EXCEPT ![t] = c]
    /\ UNCHANGED <<roundVars, priced>>

(* batchGetUsdPrices: hits, promises to wait for, and what fetchMany is to *)
(* read, that without a feed first.  Nothing goes to inFlight.             *)
Asking(c, kind, ask, store, flying) ==
    LET missing == {t \in ask : ~Fresh(store, t)}
        own == {t \in missing : flying[t] = NoReader}
        hits == [t \in Tokens |-> IF t \in ask \ missing
                                  THEN Quote(t, store[t].round, store[t].source) ELSE NoAnswer]
        waits == [t \in Tokens |-> IF t \in missing THEN flying[t] ELSE NoReader]
        newest == [t \in Tokens |-> IF kind = "force" /\ t \in ask THEN latest[t] ELSE NoRound]
    IN  \E multi \in SetToSeqs(own \cap WithFeed), bare \in SetToSeqs(own \ WithFeed) :
            reads' = [reads EXCEPT ![c] = [kind |-> kind, multi |-> multi,
                        left |-> [i \in DOMAIN bare |-> Item(bare[i], "aave", NoRound)],
                        joins |-> waits, got |-> hits, since |-> newest]]

BatchGetUsdPrices(c, ask) ==
    /\ Ended(c)
    /\ Asking(c, "batch", ask, priced, inFlight)
    /\ UNCHANGED <<roundVars, priced, inFlight>>

Dropped_CacheOnly(ask) == inFlight

Dropped(ask) == [t \in Tokens |-> IF t \in ask THEN NoReader ELSE inFlight[t]]

(* forceRefreshUsdPrices, also of the background poll: neither a cached    *)
(* price nor a promise in flight is good enough.                           *)
ForceRefreshUsdPrices(c, ask) ==
    /\ Ended(c)
    /\ priced' = [t \in Tokens |-> IF t \in ask THEN Unpriced ELSE priced[t]]
    /\ inFlight' = Dropped(ask)
    /\ Asking(c, "force", ask, priced', inFlight')
    /\ UNCHANGED roundVars

(* The multicall answers with a round or a failure for each feed.          *)
MulticallAnswers(c) ==
    /\ reads[c].multi # <<>> /\ ~Busy(c)
    /\ \E ok \in SUBSET ToSet(reads[c].multi) :
        reads' = [reads EXCEPT ![c] = [@ EXCEPT !.multi = <<>>,
            !.left = [i \in DOMAIN reads[c].multi |->
                LET t == reads[c].multi[i]
                IN  IF t \in ok THEN Item(t, "scale", latest[t]) ELSE Item(t, "aave", NoRound)]]]
    /\ UNCHANGED <<roundVars, priced, inFlight>>

(* It throws: fetchOne for each.                                           *)
MulticallFails(c) ==
    /\ reads[c].multi # <<>> /\ ~Busy(c)
    /\ reads' = [reads EXCEPT ![c] = [@ EXCEPT !.multi = <<>>,
            !.left = [i \in DOMAIN reads[c].multi |-> Item(reads[c].multi[i], "round", NoRound)]]]
    /\ UNCHANGED <<roundVars, priced, inFlight>>

RoundAnswers(c) ==
    /\ At(c, "round")
    /\ Turns(c, "scale", latest[Current(c).token])
    /\ UNCHANGED <<roundVars, priced, inFlight>>

RoundFails(c) ==
    /\ At(c, "round")
    /\ Turns(c, "aave", NoRound)
    /\ UNCHANGED <<roundVars, priced, inFlight>>

(* scaleToUsd8 has the decimals; guardFreshness looks at the clock now.    *)
Scaled(c) ==
    /\ At(c, "scale")
    /\ LET t == Current(c).token  r == Current(c).round
       IN  IF Trusted(t, r)
           THEN /\ priced' = Stored(t, r, "chainlink")
                /\ Answered(c, t, Quote(t, r, "chainlink"))
           ELSE Turns(c, "aave", NoRound) /\ UNCHANGED <<priced, inFlight>>
    /\ UNCHANGED roundVars

AaveAnswers(c) ==
    /\ At(c, "aave")
    /\ LET t == Current(c).token
       IN  /\ priced' = Stored(t, latest[t], "aave")
           /\ Answered(c, t, Quote(t, latest[t], "aave"))
    /\ UNCHANGED roundVars

(* No price, and none is stored.                                           *)
AaveFails(c) ==
    /\ At(c, "aave")
    /\ Answered(c, Current(c).token, NoAnswer)
    /\ UNCHANGED <<roundVars, priced>>

OracleNext ==
    \/ OracleTick \/ \E t \in Tokens : FeedMoves(t)
    \/ \E c \in Readers :
        \/ \E t \in Tokens : GetUsdPrice(c, t)
        \/ \E ask \in Requests : BatchGetUsdPrices(c, ask) \/ ForceRefreshUsdPrices(c, ask)
        \/ MulticallAnswers(c) \/ MulticallFails(c) \/ RoundAnswers(c) \/ RoundFails(c)
        \/ Scaled(c) \/ AaveAnswers(c) \/ AaveFails(c)

OracleSpec == OracleInit /\ [][OracleNext]_oracleVars

-----------------------------------------------------------------------------
(* Properties *)

(* What a caller of a forced refresh gets was read after the call, whatever*)
(* other reads are under way, share a promise, end late and store what     *)
(* they have (priceOracleCache.ts:182-188).                                *)
ForcedIsRead ==
    \A c \in Readers, t \in Tokens :
        reads[c].got[t].round # NoRound => reads[c].got[t].round >= reads[c].since[t]

(* No caller is given a feed's round that is older than maxStaleMs and     *)
(* cacheTtlMs together (priceOracleCache.ts:226-235,443).                  *)
ServedIsFresh == \A c \in Readers, t \in Tokens : ~reads[c].got[t].aged

OraclePromise == ForcedIsRead /\ ServedIsFresh
=============================================================================
