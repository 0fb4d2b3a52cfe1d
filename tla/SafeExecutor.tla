---------------------------- MODULE SafeExecutor ----------------------------
(***************************************************************************)
(* src/src/executors/safeTransactionExecutor.ts: execute(), the path of    *)
(* one request from preflight to a receipt, for several calls that run     *)
(* concurrently over one LocalNonceManager (NonceManager, extended here)   *)
(* and one wallet.                                                         *)
(*                                                                         *)
(* Every await is a step boundary.  Routes, gas limits, calldata and the   *)
(* reasons of reverts and gas prices are abstracted to the branch they     *)
(* select.  The chain is external: which nonces are in a mempool (onWire)  *)
(* and how many are mined.                                                 *)
(* A definition D_Bug is a mutant of D, as in NonceManager.                *)
(***************************************************************************)
EXTENDS NonceManager, Sequences, FiniteSets

CONSTANTS
    Checks,     \* the configured stages between preflight and the first send
    MaxPending  \* bound: the chain's pending nonce never exceeds it

(* Each stage of execute() between preflight and submitWithReplacement:    *)
(* the rejections it can return, and whether it can throw.                 *)
StageRejects ==
    [build          |-> {"route_transaction_mismatch"},
     gas_limit      |-> {},
     gas_cap        |-> {},
     preview_gate   |-> {"borrower_cooldown", "dust_filtered", "final_simulation_failed"},
     preview_sim    |-> {"final_simulation_failed"},
     final_sim      |-> {"final_simulation_failed"},
     broadcast_gate |-> {"final_simulation_failed"}]

(* simulateContract of ViemExecutionClient turns every error into a        *)
(* rejection (viemExecutionClient.ts:51-74); every other stage can throw.  *)
StageThrows == DOMAIN StageRejects \ {"final_sim"}

ASSUME SafeExecutorAssumption ==
    /\ Checks \in Seq(DOMAIN StageRejects)
    /\ \E i \in DOMAIN Checks : Checks[i] = "final_sim"
    /\ MaxPending \in Nat
    /\ PendingNonces = 0 .. MaxPending

VARIABLES
    dryRun,     \* config.dryRunMode
    step,       \* per execution: the await it is at
    at,         \* per execution: the stage of Checks it is at
    quote,      \* per execution: what Promise.all got from the router and the gas price
    outcome,    \* per execution: the result, or how it threw
    onWire,     \* external: a transaction of the execution is in a mempool
    mined       \* external: the wallet's nonce on the chain

execVars == <<dryRun, step, at, quote, outcome, onWire, mined>>
vars == <<nonceVars, execVars>>

Steps == {"idle", "preflight", "unwinding", "checks", "send", "replace",
          "receipt", "replaced_receipt", "resync", "done"}
Outcomes == {"none", "execution_circuit_open", "route_rejected", "simulated", "sent",
             "send_failed", "receipt_reorged", "receipt_reverted",
             "exception", "preflight_exception"}
            \cup UNION {StageRejects[s] : s \in DOMAIN StageRejects}

TypeOK ==
    /\ NonceTypeOK
    /\ dryRun \in BOOLEAN
    /\ step \in [Execs -> Steps]
    /\ at \in [Execs -> 1 .. Len(Checks)]
    /\ quote \in [Execs -> {"pending", "selected", "unselected", "error"}]
    /\ outcome \in [Execs -> Outcomes]
    /\ onWire \in [Execs -> BOOLEAN]
    /\ mined \in Nat

Init ==
    /\ NonceInit
    /\ dryRun \in BOOLEAN
    /\ step = [e \in Execs |-> "idle"]
    /\ at = [e \in Execs |-> 1]
    /\ quote = [e \in Execs |-> "pending"]
    /\ outcome = [e \in Execs |-> "none"]
    /\ onWire = [e \in Execs |-> FALSE]
    /\ mined = 0

WireNonces == {nonce[e] : e \in {f \in Execs : onWire[f]}}

(* What a node may answer to getTransactionCount("pending"): a node that   *)
(* does not see the wallet's (privately sent) transactions answers less.   *)
VisiblePending ==
    {n \in mined .. MaxPending : \A m \in mined .. (n - 1) : m \in WireNonces}

At(e, s) == step[e] = s
Goto(e, s) == step' = [step EXCEPT ![e] = s]
Return(e, result) ==
    /\ step' = [step EXCEPT ![e] = "done"]
    /\ outcome' = [outcome EXCEPT ![e] = result]

-----------------------------------------------------------------------------
(* execute() up to its first await: an open breaker rejects before a nonce *)
(* is reserved, and a route for another chain throws.                      *)
RejectAtEntry(e) ==
    /\ At(e, "idle")
    /\ \E r \in {"execution_circuit_open", "preflight_exception"} : Return(e, r)
    /\ UNCHANGED <<nonceVars, dryRun, at, quote, onWire, mined>>

StartPreflight(e) ==
    /\ At(e, "idle")
    /\ Goto(e, "preflight")
    /\ ReserveCall(e)
    /\ UNCHANGED <<dryRun, at, quote, outcome, onWire, mined>>

(* The router and the gas price settle, in any order with the reservation. *)
QuoteAnswer(e) ==
    /\ At(e, "preflight")
    /\ quote[e] = "pending"
    /\ \E q \in {"selected", "unselected", "error"} : quote' = [quote EXCEPT ![e] = q]
    /\ UNCHANGED <<nonceVars, dryRun, step, at, outcome, onWire, mined>>

ReservationSettles(e) ==
    /\ Settle(e)
    /\ UNCHANGED execVars

PreflightFails_RouterOnly(e) ==
    /\ At(e, "preflight")
    /\ quote[e] = "error"
    /\ Goto(e, "unwinding")
    /\ UNCHANGED <<nonceVars, dryRun, at, quote, outcome, onWire, mined>>

(* Promise.all rejects as soon as one of the three does; the handler then  *)
(* awaits the reservation.                                                 *)
PreflightFails(e) ==
    /\ At(e, "preflight")
    /\ quote[e] = "error" \/ lease[e] = "rejected"
    /\ Goto(e, "unwinding")
    /\ UNCHANGED <<nonceVars, dryRun, at, quote, outcome, onWire, mined>>

Unwind_ForgetsNonce(e) ==
    /\ At(e, "unwinding")
    /\ \/ lease[e] = "rejected" /\ UNCHANGED nonceVars
       \/ Keep(e)
    /\ Return(e, "preflight_exception")
    /\ UNCHANGED <<dryRun, at, quote, onWire, mined>>

Unwind(e) ==
    /\ At(e, "unwinding")
    /\ \/ lease[e] = "rejected" /\ UNCHANGED nonceVars
       \/ Release(e)
    /\ Return(e, "preflight_exception")
    /\ UNCHANGED <<dryRun, at, quote, onWire, mined>>

PreflightDone(e) ==
    /\ At(e, "preflight")
    /\ lease[e] = "holding"
    /\ \/ /\ quote[e] = "unselected"
          /\ Release(e)
          /\ Return(e, "route_rejected")
       \/ /\ quote[e] = "selected"
          /\ Goto(e, "checks")
          /\ UNCHANGED <<nonceVars, outcome>>
    /\ UNCHANGED <<dryRun, at, quote, onWire, mined>>

-----------------------------------------------------------------------------
(* The stages of Checks *)

InStage(e) == At(e, "checks")
Stage(e) == Checks[at[e]]
LastStage_OffByOne(e) == at[e] > Len(Checks)
LastStage(e) == at[e] = Len(Checks)

StageRejected_KeepsNonce(e) ==
    /\ InStage(e)
    /\ \E r \in StageRejects[Stage(e)] : Return(e, r)
    /\ Keep(e)
    /\ UNCHANGED <<dryRun, at, quote, onWire, mined>>

(* Every rejection returns the nonce first. *)
StageRejected(e) ==
    /\ InStage(e)
    /\ \E r \in StageRejects[Stage(e)] : Return(e, r)
    /\ Release(e)
    /\ UNCHANGED <<dryRun, at, quote, onWire, mined>>

(* An exception leaves execute() through its catch block, which records an *)
(* error and rethrows: the nonce stays reserved.                           *)
StageThrew(e) ==
    /\ InStage(e)
    /\ Stage(e) \in StageThrows
    /\ Return(e, "exception")
    /\ Keep(e)
    /\ UNCHANGED <<dryRun, at, quote, onWire, mined>>

DryRunEnds(e) ==
    /\ InStage(e)
    /\ Stage(e) = "final_sim" /\ dryRun
    /\ Return(e, "simulated")
    /\ Release(e)
    /\ UNCHANGED <<dryRun, at, quote, onWire, mined>>

StagePassed(e) ==
    /\ InStage(e)
    /\ ~(Stage(e) = "final_sim" /\ dryRun)
    /\ IF LastStage(e)
       THEN Goto(e, "send") /\ UNCHANGED at
       ELSE at' = [at EXCEPT ![e] = @ + 1] /\ UNCHANGED step
    /\ UNCHANGED <<nonceVars, dryRun, quote, outcome, onWire, mined>>

-----------------------------------------------------------------------------
(* submitWithReplacement *)

(* Through the private router with its fallback to the public RPC, or      *)
(* directly.  What was broadcast may have reached a mempool even when      *)
(* every attempt reported an error; a nonce the chain has passed cannot.   *)
Broadcast(e, reached) ==
    /\ reached => nonce[e] >= mined
    /\ onWire' = [onWire EXCEPT ![e] = @ \/ reached]

Send(e) ==
    /\ At(e, "send")
    /\ \E s \in {"receipt", "replace", "resync"}, reached \in BOOLEAN :
          /\ s = "receipt" => reached
          /\ s = "replace" => ~reached
          /\ Broadcast(e, reached)
          /\ Goto(e, s)
    /\ UNCHANGED <<nonceVars, dryRun, at, quote, outcome, mined>>

(* sendReplacement after an underpriced first send, with the same nonce;   *)
(* any failure of it, underpriced or not, leads to the resync.             *)
SendReplacement(e) ==
    /\ At(e, "replace")
    /\ \E s \in {"receipt", "resync"}, reached \in BOOLEAN :
          /\ s = "receipt" => reached
          /\ Broadcast(e, reached)
          /\ Goto(e, s)
    /\ UNCHANGED <<nonceVars, dryRun, at, quote, outcome, mined>>

(* The receipt answers "underpriced": one replacement, with the same       *)
(* nonce.                                                                  *)
ReplaceAfterReceipt(e) ==
    /\ At(e, "receipt")
    /\ nonce[e] >= mined
    /\ \E s \in {"replaced_receipt", "resync"}, reached \in BOOLEAN :
          /\ s = "replaced_receipt" => reached
          /\ Broadcast(e, reached)
          /\ Goto(e, s)
    /\ UNCHANGED <<nonceVars, dryRun, at, quote, outcome, mined>>

(* A transaction with this nonce is mined: included, reverted, or included *)
(* in a block that is not canonical any more.                              *)
ReceiptArrives(e) ==
    /\ step[e] \in {"receipt", "replaced_receipt"}
    /\ nonce[e] < mined
    /\ \E r \in {"sent", "receipt_reorged", "receipt_reverted"} : Return(e, r)
    /\ Keep(e)
    /\ UNCHANGED <<dryRun, at, quote, onWire, mined>>

(* A second "underpriced" is reported as a revert. *)
StillUnderpriced(e) ==
    /\ At(e, "replaced_receipt")
    /\ nonce[e] >= mined
    /\ Return(e, "receipt_reverted")
    /\ Keep(e)
    /\ UNCHANGED <<dryRun, at, quote, onWire, mined>>

(* The wait for a receipt times out. *)
ReceiptTimesOut(e) ==
    /\ step[e] \in {"receipt", "replaced_receipt"}
    /\ Return(e, "exception")
    /\ Keep(e)
    /\ UNCHANGED <<dryRun, at, quote, onWire, mined>>

ResyncNonce_Releases(e) ==
    /\ At(e, "resync")
    /\ Release(e)
    /\ Return(e, "send_failed")
    /\ UNCHANGED <<dryRun, at, quote, onWire, mined>>

ResyncNonce_InPlace(e) ==
    /\ At(e, "resync")
    /\ \E n \in VisiblePending : nextNonce' = [nextNonce EXCEPT ![cur] = n]
    /\ Return(e, "send_failed")
    /\ lease' = [lease EXCEPT ![e] = "done"]
    /\ UNCHANGED <<cur, phase, base, released, active, gen, nonce, overlap>>
    /\ UNCHANGED <<dryRun, at, quote, onWire, mined>>

(* resyncNonce: read the pending nonce, then replace the manager's state;  *)
(* if the read fails the exception leaves execute().                       *)
ResyncNonce(e) ==
    /\ At(e, "resync")
    /\ \/ \E n \in VisiblePending : Resync(e, n) /\ Return(e, "send_failed")
       \/ Keep(e) /\ Return(e, "exception")
    /\ UNCHANGED <<dryRun, at, quote, onWire, mined>>

-----------------------------------------------------------------------------
(* External: the first pending-nonce read settles; the chain mines the     *)
(* next nonce if a transaction for it is in a mempool.                     *)
InitSettles(g) ==
    /\ InitFails(g) \/ \E n \in VisiblePending : InitAnswer(g, n)
    /\ UNCHANGED execVars

Mine ==
    /\ mined < MaxPending
    /\ mined \in WireNonces
    /\ mined' = mined + 1
    /\ UNCHANGED <<nonceVars, dryRun, step, at, quote, outcome, onWire>>

Execute(e) ==
    \/ PreflightFails(e) \/ Unwind(e) \/ PreflightDone(e)
    \/ StageRejected(e) \/ StageThrew(e) \/ DryRunEnds(e) \/ StagePassed(e)
    \/ Send(e) \/ SendReplacement(e) \/ ReplaceAfterReceipt(e)
    \/ ReceiptArrives(e) \/ StillUnderpriced(e) \/ ReceiptTimesOut(e)
    \/ ResyncNonce(e)

Next ==
    \/ \E e \in Execs : \/ RejectAtEntry(e) \/ StartPreflight(e)
                        \/ QuoteAnswer(e) \/ ReservationSettles(e) \/ Execute(e)
    \/ \E g \in Gens : InitSettles(g)
    \/ Mine

Spec == Init /\ [][Next]_vars

(* Every await of a started execution settles: RPC reads and sends by the  *)
(* transport's timeout, waitForReceipt by its own.  Nothing is assumed of  *)
(* when an execution starts or of what the chain mines.                    *)
FairSpec ==
    /\ Spec
    /\ \A e \in Execs : /\ WF_vars(QuoteAnswer(e))
                        /\ WF_vars(ReservationSettles(e))
                        /\ WF_vars(Execute(e))
    /\ \A g \in Gens : WF_vars(InitSettles(g))

-----------------------------------------------------------------------------
(* Properties *)

(* Threw with the nonce still reserved and nothing broadcast: a stage      *)
(* between preflight and the send threw, or the resync's read failed.      *)
Leaked(e) == outcome[e] = "exception" /\ ~onWire[e]

Resynced == \E e \in Execs : outcome[e] = "send_failed"

(* A nonce the manager will hand out again was not put on the wire by the  *)
(* execution that had it: every release in execute() comes before its      *)
(* first send, and the failed-send paths resync instead of releasing.      *)
ReusableNonceNotBroadcast ==
    ~overlap => \A e \in Execs :
        (onWire[e] /\ gen[e] = cur) => nonce[e] \notin released[cur]

(* Two executions never put the same nonce on the wire while no send has   *)
(* failed: concurrent opportunities get distinct nonces, and replacements  *)
(* stay on their own (the chaos test's "preserves unique nonces").         *)
OneBroadcastPerNonce ==
    ~Resynced => \A e, f \in Execs :
        (e # f /\ onWire[e] /\ onWire[f]) => nonce[e] # nonce[f]

(* A nonce below one that is in a mempool, and that nobody has broadcast,  *)
(* blocks that transaction; unless an execution threw it is always about   *)
(* to be filled: held by an execution in flight, or first in line for the  *)
(* next reservation.                                                       *)
GapsAreRecoverable ==
    (~\E e \in Execs : Leaked(e)) =>
        \A m \in WireNonces : \A n \in mined .. (m - 1) :
            \/ n \in WireNonces
            \/ \E e \in Execs : lease[e] = "holding" /\ nonce[e] = n
            \/ cur # NoGen /\ phase[cur] = "ready"
                           /\ (n \in released[cur] \/ n >= nextNonce[cur])

(* At rest the manager reserves exactly the nonces that were broadcast,    *)
(* unless an execution threw or resynced: no path of execute() that        *)
(* returns, or that fails in preflight, leaves a nonce reserved.           *)
AtRestOnlyBroadcastReserved ==
    ( /\ \A e \in Execs : step[e] \in {"idle", "done"}
      /\ ~Resynced /\ ~\E e \in Execs : Leaked(e)
      /\ cur # NoGen )
    => active[cur] = WireNonces

(* Every execution that started ends, whatever settles in which order.     *)
ExecutionsEnd == \A e \in Execs : step[e] = "preflight" ~> step[e] = "done"

(* Violated: concurrent executions keep unique nonces.                     *)
UniqueNonces ==
    \A e, f \in Execs :
        (e # f /\ lease[e] = "holding" /\ lease[f] = "holding") => nonce[e] # nonce[f]
=============================================================================
