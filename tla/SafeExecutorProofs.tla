------------------------- MODULE SafeExecutorProofs -------------------------
(***************************************************************************)
(* Proofs about SafeExecutor, for every number of concurrent executions    *)
(* and every configuration of stages.                                      *)
(*                                                                         *)
(* execute() uses the manager as NonceManager's callers do (SpecRefines),  *)
(* so that everything proved there holds here.  The invariant of this      *)
(* module, ExecInv, follows the nonces past the end of their executions:   *)
(* an owner of a nonce holds it or has it on the wire.  GapInv adds the    *)
(* converse, every active nonce has an owner unless one leaked, and where  *)
(* the Map's object began to count.                                        *)
(***************************************************************************)
EXTENDS SafeExecutor, NonceManagerProofs, SequenceTheorems

Owner(e) == lease[e] = "holding" \/ onWire[e]

(* Where execute() is tells what its reservation is, and nothing is on the *)
(* wire before the first send.                                             *)
StepInv ==
    \A e \in Execs :
        /\ step[e] = "idle" => lease[e] = "idle"
        /\ step[e] \in {"preflight", "unwinding"} => lease[e] \in {"awaiting", "holding", "rejected"}
        /\ step[e] \in {"checks", "send", "replace", "receipt", "replaced_receipt", "resync"}
              => lease[e] = "holding"
        /\ step[e] = "done" => lease[e] \in {"idle", "rejected", "done"}
        /\ onWire[e] => step[e] \in {"replace", "receipt", "replaced_receipt", "resync", "done"}
        /\ onWire[e] => lease[e] \in {"holding", "done"}
        /\ onWire[e] => gen[e] \in Gens /\ phase[gen[e]] = "ready"
        /\ step[e] # "done" => outcome[e] = "none"

(* Unless a resync overlapped, the owners of nonces of the Map's object    *)
(* own distinct active ones.                                               *)
OwnInv ==
    ~overlap =>
        /\ \A e \in Execs : Owner(e) /\ gen[e] = cur => nonce[e] \in active[cur]
        /\ \A e, f \in Execs :
              e # f /\ Owner(e) /\ Owner(f) /\ gen[e] = cur /\ gen[f] = cur
              => nonce[e] # nonce[f]

(* Before the first resync there is one object that every owner is of.     *)
WireInv == ~Resynced => ~overlap /\ \A e \in Execs : Owner(e) => gen[e] = cur

ExecInv == TypeOK /\ StepInv /\ OwnInv /\ WireInv

-----------------------------------------------------------------------------
LEMMA MinedNat == Spec => [](mined \in Nat)
<1>1. Init => mined \in Nat
  BY DEF Init
<1>2. mined \in Nat /\ [Next]_vars => (mined \in Nat)'
  BY DEF Next, vars, execVars, RejectAtEntry, StartPreflight, QuoteAnswer, ReservationSettles,
         Execute, PreflightFails, Unwind, PreflightDone, StageRejected, StageThrew, DryRunEnds,
         StagePassed, Send, SendReplacement, ReplaceAfterReceipt, ReceiptArrives,
         StillUnderpriced, ReceiptTimesOut, ResyncNonce, InitSettles, Mine
<1> QED BY <1>1, <1>2, PTL DEF Spec

LEMMA VisibleIsPending == mined \in Nat => VisiblePending \subseteq PendingNonces
  BY SafeExecutorAssumption DEF VisiblePending

(* Every step of execute() is a step of a caller of the manager or does    *)
(* not touch it.                                                           *)
LEMMA StepRefines == mined \in Nat /\ [Next]_vars => [NonceNext]_nonceVars
<1> SUFFICES ASSUME mined \in Nat, [Next]_vars PROVE [NonceNext]_nonceVars
  OBVIOUS
<1>1. ASSUME NEW e \in Execs,
             RejectAtEntry(e) \/ StartPreflight(e) \/ QuoteAnswer(e) \/ ReservationSettles(e)
      PROVE  [NonceNext]_nonceVars
  BY <1>1 DEF RejectAtEntry, StartPreflight, QuoteAnswer, ReservationSettles, Settle,
              NonceNext, ExecStep
<1>2. ASSUME NEW e \in Execs, Execute(e)
      PROVE  [NonceNext]_nonceVars
  <2>1. ASSUME PreflightFails(e) \/ StagePassed(e) \/ Send(e) \/ SendReplacement(e)
               \/ ReplaceAfterReceipt(e)
        PROVE  UNCHANGED nonceVars
    BY <2>1 DEF PreflightFails, StagePassed, Send, SendReplacement, ReplaceAfterReceipt
  <2>2. ASSUME Unwind(e) \/ PreflightDone(e) \/ StageRejected(e) \/ StageThrew(e)
               \/ DryRunEnds(e) \/ ReceiptArrives(e) \/ StillUnderpriced(e)
               \/ ReceiptTimesOut(e)
        PROVE  Release(e) \/ Keep(e) \/ UNCHANGED nonceVars
    BY <2>2 DEF Unwind, PreflightDone, StageRejected, StageThrew, DryRunEnds, ReceiptArrives,
                StillUnderpriced, ReceiptTimesOut
  <2>3. ASSUME ResyncNonce(e)
        PROVE  Keep(e) \/ \E n \in PendingNonces : Resync(e, n)
    BY <2>3, VisibleIsPending DEF ResyncNonce
  <2> QED BY <1>2, <2>1, <2>2, <2>3 DEF Execute, NonceNext, ExecStep
<1>3. ASSUME NEW g \in Gens, InitSettles(g)
      PROVE  [NonceNext]_nonceVars
  BY <1>3, VisibleIsPending DEF InitSettles, NonceNext, GenStep
<1>4. CASE Mine \/ UNCHANGED vars
  BY <1>4 DEF Mine, vars
<1> QED BY <1>1, <1>2, <1>3, <1>4 DEF Next

(* Concurrent executions, seen from the manager, are callers that reserve  *)
(* once and then release, keep or resync.                                  *)
THEOREM SpecRefines == Spec => NonceSpec
<1>1. Init => NonceInit
  BY DEF Init
<1> QED BY <1>1, StepRefines, MinedNat, PTL DEF Spec, NonceSpec

THEOREM ManagerInvariant == Spec => []IInv
  BY SpecRefines, NonceInvariant, PTL

-----------------------------------------------------------------------------
(* Type correctness *)

LEMMA StageFacts ==
  /\ \A s \in DOMAIN StageRejects : StageRejects[s] \subseteq Outcomes
  /\ \A s \in DOMAIN StageRejects : "send_failed" \notin StageRejects[s]
<1>1. \A s \in DOMAIN StageRejects : StageRejects[s] \subseteq Outcomes
  BY DEF Outcomes
<1>2. \A s \in DOMAIN StageRejects : "send_failed" \notin StageRejects[s]
  BY DEF StageRejects
<1> QED BY <1>1, <1>2

LEMMA StageInDomain ==
  ASSUME at \in [Execs -> 1 .. Len(Checks)], NEW e \in Execs
  PROVE  Stage(e) \in DOMAIN StageRejects
  BY SafeExecutorAssumption DEF Stage

LEMMA LenChecks == Len(Checks) \in Nat /\ 1 \in 1 .. Len(Checks)
<1>1. Len(Checks) \in Nat /\ DOMAIN Checks = 1 .. Len(Checks)
  BY SafeExecutorAssumption, LenProperties
<1>2. PICK i : i \in DOMAIN Checks
  BY SafeExecutorAssumption
<1> QED BY <1>1, <1>2

LEMMA InitTypeOK == Init => TypeOK
<1> SUFFICES ASSUME Init PROVE TypeOK
  OBVIOUS
<1>1. NonceTypeOK
  BY InitIInv DEF Init, IInv
<1>2. at \in [Execs -> 1 .. Len(Checks)]
  BY LenChecks DEF Init
<1>3. "none" \in Outcomes
  BY DEF Outcomes
<1> QED BY <1>1, <1>2, <1>3 DEF Init, TypeOK, Steps

LEMMA StepTypeOK == TypeOK /\ NonceTypeOK' /\ [Next]_vars => TypeOK'
<1> SUFFICES ASSUME TypeOK, NonceTypeOK', [Next]_vars PROVE TypeOK'
  OBVIOUS
<1> USE DEF TypeOK, Steps
<1>o. {"none", "execution_circuit_open", "route_rejected", "simulated", "sent", "send_failed",
       "receipt_reorged", "receipt_reverted", "exception", "preflight_exception"}
      \subseteq Outcomes
  BY DEF Outcomes
<1>r. ASSUME NEW e \in Execs, \E r \in Outcomes : Return(e, r),
             UNCHANGED <<dryRun, at, quote, onWire, mined>>
      PROVE  TypeOK'
  <2>1. step' \in [Execs -> Steps] /\ outcome' \in [Execs -> Outcomes]
    BY <1>r DEF Return
  <2> HIDE DEF Steps
  <2> QED BY <1>r, <2>1
<1>1. ASSUME NEW e \in Execs,
             RejectAtEntry(e) \/ StartPreflight(e) \/ QuoteAnswer(e) \/ ReservationSettles(e)
      PROVE  TypeOK'
  <2>1. CASE RejectAtEntry(e)
    <3>1. (\E r \in Outcomes : Return(e, r)) /\ UNCHANGED <<dryRun, at, quote, onWire, mined>>
      BY <2>1, <1>o DEF RejectAtEntry
    <3> QED BY <3>1, <1>r
  <2>2. CASE StartPreflight(e)
    BY <2>2 DEF StartPreflight, Goto
  <2>3. CASE QuoteAnswer(e)
    BY <2>3 DEF QuoteAnswer
  <2>4. CASE ReservationSettles(e)
    BY <2>4 DEF ReservationSettles, execVars
  <2> QED BY <1>1, <2>1, <2>2, <2>3, <2>4
<1>2. ASSUME NEW e \in Execs, Execute(e)
      PROVE  TypeOK'
  <2>1. CASE PreflightFails(e) \/ Unwind(e) \/ PreflightDone(e)
    <3>1. CASE \E r \in Outcomes : Return(e, r)
      BY <2>1, <3>1, <1>r DEF PreflightFails, Unwind, PreflightDone
    <3>2. CASE \E s \in {"unwinding", "checks"} : Goto(e, s) /\ UNCHANGED outcome
      <4>1. step' \in [Execs -> Steps]
        BY <3>2 DEF Goto
      <4> QED BY <2>1, <3>2, <4>1 DEF PreflightFails, Unwind, PreflightDone
    <3> QED BY <2>1, <3>1, <3>2, <1>o DEF PreflightFails, Unwind, PreflightDone
  <2>2. CASE StageRejected(e)
    <3>1. \E r \in Outcomes : Return(e, r)
      BY <2>2, StageFacts, StageInDomain DEF StageRejected
    <3> QED BY <2>2, <3>1, <1>r DEF StageRejected
  <2>3. CASE StageThrew(e) \/ DryRunEnds(e)
    <3>1. \E r \in Outcomes : Return(e, r)
      BY <2>3, <1>o DEF StageThrew, DryRunEnds
    <3> QED BY <2>3, <3>1, <1>r DEF StageThrew, DryRunEnds
  <2>4. CASE StagePassed(e)
    <3>1. step' \in [Execs -> Steps]
      BY <2>4 DEF StagePassed, Goto
    <3>2. at' \in [Execs -> 1 .. Len(Checks)]
      <4>1. at[e] \in 1 .. Len(Checks) /\ (at[e] # Len(Checks) => at[e] + 1 \in 1 .. Len(Checks))
        BY LenChecks
      <4> QED BY <2>4, <4>1 DEF StagePassed, LastStage
    <3> QED BY <2>4, <3>1, <3>2 DEF StagePassed
  <2>5. CASE Send(e) \/ SendReplacement(e) \/ ReplaceAfterReceipt(e)
    <3>1. PICK reached \in BOOLEAN : Broadcast(e, reached)
      BY <2>5 DEF Send, SendReplacement, ReplaceAfterReceipt
    <3>2. onWire' \in [Execs -> BOOLEAN]
      BY <3>1 DEF Broadcast
    <3> QED BY <2>5, <3>2 DEF Send, SendReplacement, ReplaceAfterReceipt, Goto
  <2>6. CASE ReceiptArrives(e) \/ StillUnderpriced(e) \/ ReceiptTimesOut(e) \/ ResyncNonce(e)
    <3>1. UNCHANGED <<dryRun, at, quote, onWire, mined>>
      BY <2>6 DEF ReceiptArrives, StillUnderpriced, ReceiptTimesOut, ResyncNonce
    <3>2. \E r \in Outcomes : Return(e, r)
      <4>1. CASE ReceiptArrives(e)
        BY <4>1, <1>o DEF ReceiptArrives
      <4>2. CASE StillUnderpriced(e) \/ ReceiptTimesOut(e) \/ ResyncNonce(e)
        BY <4>2, <1>o DEF StillUnderpriced, ReceiptTimesOut, ResyncNonce
      <4> QED BY <2>6, <4>1, <4>2
    <3> QED BY <3>1, <3>2, <1>r
  <2> QED BY <1>2, <2>1, <2>2, <2>3, <2>4, <2>5, <2>6 DEF Execute
<1>3. ASSUME NEW g \in Gens, InitSettles(g)
      PROVE  TypeOK'
  BY <1>3 DEF InitSettles, execVars
<1>4. CASE Mine
  BY <1>4 DEF Mine
<1>5. CASE UNCHANGED vars
  BY <1>5 DEF vars, execVars
<1> QED BY <1>1, <1>2, <1>3, <1>4, <1>5 DEF Next

(* Every value stays in its type; in particular no stage beyond the        *)
(* configured ones runs.                                                   *)
THEOREM TypeCorrect == Spec => []TypeOK
<1>1. IInv => NonceTypeOK
  BY DEF IInv
<1> QED BY <1>1, InitTypeOK, StepTypeOK, ManagerInvariant, PTL DEF Spec

-----------------------------------------------------------------------------
(* Where an execution is, and what it holds *)

LEMMA InitStepInv == Init => StepInv
  BY DEF Init, NonceInit, StepInv

LEMMA StepStepInv == IInv /\ TypeOK /\ StepInv /\ [Next]_vars => StepInv'
<1> SUFFICES ASSUME IInv, TypeOK, StepInv, [Next]_vars PROVE StepInv'
  OBVIOUS
<1>t. /\ step \in [Execs -> Steps] /\ outcome \in [Execs -> Outcomes]
      /\ onWire \in [Execs -> BOOLEAN] /\ NonceTypeOK
  BY DEF TypeOK
<1>g. \A e \in Execs : lease[e] = "holding" => gen[e] \in Gens /\ phase[gen[e]] = "ready"
  BY DEF IInv, GenInv
<1> USE <1>t DEF StepInv, NonceTypeOK, At, Goto, Return
<1>1. ASSUME NEW e \in Execs, RejectAtEntry(e) PROVE StepInv'
  BY <1>1 DEF RejectAtEntry, nonceVars
<1>2. ASSUME NEW e \in Execs, StartPreflight(e) PROVE StepInv'
  BY <1>2 DEF StartPreflight, ReserveCall, CreateState
<1>3. ASSUME NEW e \in Execs, QuoteAnswer(e) PROVE StepInv'
  BY <1>3 DEF QuoteAnswer, nonceVars
<1>4. ASSUME NEW e \in Execs, ReservationSettles(e) PROVE StepInv'
  BY <1>4 DEF ReservationSettles, Settle, ReserveRejected, TakeReleased, TakeNext, execVars
<1>5. ASSUME NEW e \in Execs, PreflightFails(e) PROVE StepInv'
  BY <1>5 DEF PreflightFails, nonceVars
<1>6. ASSUME NEW e \in Execs, Unwind(e) PROVE StepInv'
  BY <1>6 DEF Unwind, Release, nonceVars
<1>7. ASSUME NEW e \in Execs, PreflightDone(e) PROVE StepInv'
  BY <1>7 DEF PreflightDone, Release, nonceVars
<1>8. ASSUME NEW e \in Execs, StageRejected(e) \/ DryRunEnds(e) PROVE StepInv'
  BY <1>8 DEF StageRejected, DryRunEnds, InStage, Release
<1>9. ASSUME NEW e \in Execs, StageThrew(e) PROVE StepInv'
  BY <1>9 DEF StageThrew, InStage, Keep
<1>10. ASSUME NEW e \in Execs, StagePassed(e) PROVE StepInv'
  BY <1>10 DEF StagePassed, InStage, nonceVars
<1>11. ASSUME NEW e \in Execs, Send(e) \/ SendReplacement(e) \/ ReplaceAfterReceipt(e)
       PROVE StepInv'
  BY <1>11, <1>g DEF Send, SendReplacement, ReplaceAfterReceipt, Broadcast, nonceVars
<1>12. ASSUME NEW e \in Execs, ReceiptArrives(e) \/ StillUnderpriced(e) \/ ReceiptTimesOut(e)
       PROVE StepInv'
  BY <1>12 DEF ReceiptArrives, StillUnderpriced, ReceiptTimesOut, Keep
<1>13. ASSUME NEW e \in Execs, ResyncNonce(e) PROVE StepInv'
  BY <1>13 DEF ResyncNonce, Resync, Keep
<1>14. ASSUME NEW g \in Gens, InitSettles(g) PROVE StepInv'
  BY <1>14 DEF InitSettles, InitFails, InitAnswer, execVars
<1>15. CASE Mine \/ UNCHANGED vars
  BY <1>15 DEF Mine, vars, execVars, nonceVars
<1> QED
  BY <1>1, <1>2, <1>3, <1>4, <1>5, <1>6, <1>7, <1>8, <1>9, <1>10, <1>11, <1>12, <1>13, <1>14,
     <1>15 DEF Next, Execute

(* Only a resync makes a result "send_failed", and a result is final. *)
LEMMA ResyncedStays == TypeOK /\ StepInv /\ [Next]_vars => (Resynced => Resynced')
<1> SUFFICES ASSUME TypeOK, StepInv, [Next]_vars,
                    NEW f \in Execs, outcome[f] = "send_failed"
             PROVE  outcome'[f] = "send_failed"
  BY DEF Resynced
<1>1. outcome \in [Execs -> Outcomes] /\ step[f] = "done"
  BY DEF TypeOK, StepInv
<1>2. ASSUME NEW e \in Execs, NEW r, step[e] # "done", Return(e, r)
      PROVE  outcome'[f] = outcome[f]
  BY <1>1, <1>2 DEF Return
<1>3. ASSUME NEW e \in Execs,
             RejectAtEntry(e) \/ StartPreflight(e) \/ QuoteAnswer(e) \/ ReservationSettles(e)
      PROVE  outcome'[f] = outcome[f]
  BY <1>2, <1>3 DEF RejectAtEntry, StartPreflight, QuoteAnswer, ReservationSettles, execVars, At
<1>4. ASSUME NEW e \in Execs, Execute(e)
      PROVE  outcome'[f] = outcome[f]
  <2>1. CASE PreflightFails(e) \/ Unwind(e) \/ PreflightDone(e)
    BY <2>1, <1>2 DEF PreflightFails, Unwind, PreflightDone, At
  <2>2. CASE StageRejected(e) \/ StageThrew(e) \/ DryRunEnds(e) \/ StagePassed(e)
    BY <2>2, <1>2 DEF StageRejected, StageThrew, DryRunEnds, StagePassed, InStage, At
  <2>3. CASE Send(e) \/ SendReplacement(e) \/ ReplaceAfterReceipt(e)
    BY <2>3 DEF Send, SendReplacement, ReplaceAfterReceipt
  <2>4. CASE ReceiptArrives(e) \/ StillUnderpriced(e) \/ ReceiptTimesOut(e) \/ ResyncNonce(e)
    BY <2>4, <1>2 DEF ReceiptArrives, StillUnderpriced, ReceiptTimesOut, ResyncNonce, At
  <2> QED BY <1>4, <2>1, <2>2, <2>3, <2>4 DEF Execute
<1>5. CASE (\E g \in Gens : InitSettles(g)) \/ Mine \/ UNCHANGED vars
  BY <1>5 DEF InitSettles, Mine, vars, execVars
<1> QED BY <1>1, <1>3, <1>4, <1>5 DEF Next

-----------------------------------------------------------------------------
(* Who owns which nonce.  One lemma per effect on the manager; onWire does *)
(* not change in any of them.                                              *)

Owned == OwnInv /\ WireInv

(* An owner's object is ready, hence not one that is being created, read   *)
(* or dropped.                                                             *)
LEMMA OwnersReady ==
  ASSUME IInv, StepInv, NEW f \in Execs, Owner(f)
  PROVE  gen[f] \in Gens /\ phase[gen[f]] = "ready"
  BY DEF IInv, GenInv, StepInv, Owner

LEMMA ReserveCallOwned ==
  ASSUME IInv, StepInv, Owned, Resynced => Resynced', NEW e \in Execs,
         ReserveCall(e), ~onWire[e], onWire' = onWire
  PROVE  Owned'
<1> USE NonceManagerAssumption DEF Owned
<1>1. \A f \in Execs : Owner(f)' => Owner(f) /\ f # e /\ gen'[f] = gen[f]
  BY DEF ReserveCall, Owner, IInv, NonceTypeOK
<1>2. ASSUME NEW f \in Execs, Owner(f) PROVE gen[f] = cur => cur' = cur
  BY <1>2, OwnersReady DEF ReserveCall
<1>3. ASSUME NEW f \in Execs, Owner(f) PROVE gen[f] = cur' => gen[f] = cur
  BY <1>3, OwnersReady DEF ReserveCall, CreateState
<1> QED BY <1>1, <1>2, <1>3 DEF ReserveCall, OwnInv, WireInv

LEMMA RejectedOrKeptOwned ==
  ASSUME IInv, StepInv, Owned, Resynced => Resynced', NEW e \in Execs,
         ReserveRejected(e) \/ Keep(e) \/ UNCHANGED nonceVars,
         \A f \in Execs : Owner(f)' => Owner(f)
  PROVE  Owned'
  BY DEF Owned, ReserveRejected, Keep, nonceVars, OwnInv, WireInv

LEMMA TakeOwned ==
  ASSUME IInv, StepInv, Owned, Resynced => Resynced', NEW e \in Execs,
         TakeReleased(e) \/ TakeNext(e), ~onWire[e], onWire' = onWire
  PROVE  Owned'
<1> USE NonceManagerAssumption DEF Owned
<1>g. gen[e] \in Gens /\ phase[gen[e]] = "ready" /\ lease[e] = "awaiting"
  BY DEF TakeReleased, TakeNext, IInv, GenInv
<1>n. PICK n \in Nat :
        /\ n \notin active[gen[e]]
        /\ nonce' = [nonce EXCEPT ![e] = n]
        /\ active' = [active EXCEPT ![gen[e]] = @ \cup {n}]
  <2>1. CASE TakeReleased(e)
    <3>1. PICK n \in released[gen[e]] :
             /\ nonce' = [nonce EXCEPT ![e] = n]
             /\ active' = [active EXCEPT ![gen[e]] = @ \cup {n}]
      BY <2>1 DEF TakeReleased
    <3>2. n \in Nat /\ n \notin active[gen[e]]
      BY <1>g, <3>1 DEF IInv, NonceTypeOK, PoolInv, DisjointPools
    <3> QED BY <3>1, <3>2
  <2>2. CASE TakeNext(e)
    <3>1. nextNonce[gen[e]] \in Nat /\ base[gen[e]] \in Nat
      BY <1>g DEF IInv, NonceTypeOK, PoolInv
    <3>2. nextNonce[gen[e]] \notin active[gen[e]]
      BY <1>g, <3>1 DEF IInv, PoolInv, DisjointPools
    <3> QED BY <2>2, <3>1, <3>2 DEF TakeNext
  <2> QED BY <2>1, <2>2
<1>1. lease' = [lease EXCEPT ![e] = "holding"] /\ UNCHANGED <<cur, gen, overlap>>
  BY DEF TakeReleased, TakeNext
<1>2. ~overlap => gen[e] = cur
  BY <1>g DEF IInv, LiveInv
<1>3. \A f \in Execs \ {e} : Owner(f)' => Owner(f) /\ nonce'[f] = nonce[f]
  BY <1>n, <1>1 DEF Owner, IInv, NonceTypeOK
<1>4. nonce'[e] = n
  BY <1>n DEF IInv, NonceTypeOK
<1>5. active' = [active EXCEPT ![gen[e]] = active[gen[e]] \cup {n}] /\ active \in [Gens -> SUBSET Nat]
  BY <1>n DEF IInv, NonceTypeOK
<1>6. OwnInv'
  <2> SUFFICES ASSUME ~overlap
               PROVE  /\ \A f \in Execs : Owner(f)' /\ gen[f] = cur => nonce'[f] \in active'[cur]
                      /\ \A f, h \in Execs :
                            f # h /\ Owner(f)' /\ Owner(h)' /\ gen[f] = cur /\ gen[h] = cur
                            => nonce'[f] # nonce'[h]
    BY <1>1 DEF OwnInv
  <2>1. active'[cur] = active[cur] \cup {n}
    BY <1>2, <1>g, <1>5
  <2>2. \A f \in Execs \ {e} : Owner(f)' /\ gen[f] = cur =>
           nonce'[f] = nonce[f] /\ nonce[f] \in active[cur] /\ nonce[f] # n
    BY <1>2, <1>3, <1>n DEF OwnInv
  <2> QED BY <1>2, <1>3, <1>4, <2>1, <2>2 DEF OwnInv
<1>7. WireInv'
  BY <1>1, <1>2, <1>3 DEF WireInv
<1> QED BY <1>6, <1>7

LEMMA ReleaseOwned ==
  ASSUME IInv, StepInv, Owned, Resynced => Resynced', NEW e \in Execs,
         Release(e), ~onWire[e], onWire' = onWire
  PROVE  Owned'
<1> USE DEF Owned
<1>1. \A f \in Execs : Owner(f)' => Owner(f) /\ f # e
  BY DEF Release, Owner, IInv, NonceTypeOK
<1>2. UNCHANGED <<cur, gen, nonce, overlap>>
  BY DEF Release
<1>3. ASSUME ~overlap, NEW f \in Execs, Owner(f)', gen[f] = cur
      PROVE  nonce[f] \in active'[cur]
  <2>1. Owner(f) /\ f # e /\ nonce[f] \in active[cur]
    BY <1>1, <1>3 DEF OwnInv
  <2>2. gen[e] = cur /\ Owner(e)
    BY <1>3 DEF Release, Owner, IInv, LiveInv
  <2>3. nonce[e] # nonce[f]
    BY <1>3, <2>1, <2>2 DEF OwnInv
  <2> QED BY <2>1, <2>3 DEF Release, IInv, NonceTypeOK
<1>4. OwnInv'
  BY <1>1, <1>2, <1>3 DEF OwnInv
<1>5. WireInv'
  BY <1>1, <1>2 DEF WireInv
<1> QED BY <1>4, <1>5

(* The new object is nobody's, and from now on Resynced holds. *)
LEMMA ResyncOwned ==
  ASSUME IInv, StepInv, Owned, Resynced', NEW e \in Execs, NEW n, Resync(e, n),
         onWire' = onWire
  PROVE  Owned'
<1> USE DEF Owned
<1>1. cur' \in Gens /\ phase[cur'] = "none"
  BY DEF Resync
<1>2. ASSUME NEW f \in Execs, Owner(f)' PROVE Owner(f) /\ gen'[f] # cur'
  <2>1. Owner(f)
    BY <1>2 DEF Resync, Owner, IInv, NonceTypeOK
  <2> QED BY <1>1, <2>1, OwnersReady DEF Resync
<1> QED BY <1>2 DEF OwnInv, WireInv

LEMMA InitSettlesOwned ==
  ASSUME IInv, StepInv, Owned, Resynced => Resynced', NEW g \in Gens, InitSettles(g)
  PROVE  Owned'
<1> USE NonceManagerAssumption DEF Owned
<1>1. onWire' = onWire /\ UNCHANGED <<active, lease, gen, nonce, overlap>>
  BY DEF InitSettles, execVars, InitFails, InitAnswer
<1>2. \A f \in Execs : Owner(f)' <=> Owner(f)
  BY <1>1 DEF Owner
<1>3. CASE cur' = cur
  BY <1>1, <1>2, <1>3 DEF OwnInv, WireInv
<1>4. CASE InitFails(g)
  <2>1. cur = g /\ phase[g] = "reading" /\ cur' = NoGen
    BY <1>4 DEF InitFails, IInv, GenInv
  <2>2. \A f \in Execs : Owner(f) => gen[f] # cur /\ gen[f] # cur'
    BY <2>1, OwnersReady
  <2> QED BY <1>1, <1>2, <2>2 DEF OwnInv, WireInv
<1> QED BY <1>3, <1>4 DEF InitSettles, InitAnswer

LEMMA InitOwned == Init => Owned
  BY DEF Init, NonceInit, Owned, OwnInv, WireInv, Owner

LEMMA StepOwned == IInv /\ TypeOK /\ StepInv /\ Owned /\ [Next]_vars => Owned'
<1> SUFFICES ASSUME IInv, TypeOK, StepInv, Owned, [Next]_vars PROVE Owned'
  OBVIOUS
<1>r. Resynced => Resynced'
  BY ResyncedStays
<1>w. \A e \in Execs : onWire[e] => step[e] \notin {"idle", "preflight", "unwinding", "checks", "send"}
  BY DEF StepInv
<1>1. ASSUME NEW e \in Execs, StartPreflight(e) PROVE Owned'
  BY <1>1, <1>r, <1>w, ReserveCallOwned DEF StartPreflight, At
<1>2. ASSUME NEW e \in Execs, ReservationSettles(e) PROVE Owned'
  <2>1. onWire' = onWire /\ Settle(e)
    BY <1>2 DEF ReservationSettles, execVars
  <2>2. ~onWire[e]
    BY <2>1 DEF Settle, ReserveRejected, TakeReleased, TakeNext, StepInv
  <2>3. CASE ReserveRejected(e)
    <3>1. \A f \in Execs : Owner(f)' => Owner(f)
      BY <2>1, <2>3 DEF ReserveRejected, Owner, IInv, NonceTypeOK
    <3> QED BY <2>3, <3>1, <1>r, RejectedOrKeptOwned
  <2>4. CASE TakeReleased(e) \/ TakeNext(e)
    BY <2>1, <2>2, <2>4, <1>r, TakeOwned
  <2> QED BY <2>1, <2>3, <2>4 DEF Settle
<1>3. ASSUME NEW e \in Execs,
             \/ Unwind(e) \/ PreflightDone(e) \/ StageRejected(e) \/ DryRunEnds(e)
             \/ StageThrew(e) \/ ReceiptArrives(e) \/ StillUnderpriced(e) \/ ReceiptTimesOut(e)
      PROVE  Owned'
  <2>1. onWire' = onWire
    BY <1>3 DEF Unwind, PreflightDone, StageRejected, DryRunEnds, StageThrew, ReceiptArrives,
                StillUnderpriced, ReceiptTimesOut
  <2>2. CASE Release(e) /\ ~onWire[e]
    BY <2>1, <2>2, <1>r, ReleaseOwned
  <2>3. CASE Keep(e)
    <3>1. \A f \in Execs : Owner(f)' => Owner(f)
      BY <2>1, <2>3 DEF Keep, Owner, IInv, NonceTypeOK
    <3> QED BY <2>3, <3>1, <1>r, RejectedOrKeptOwned
  <2>4. CASE UNCHANGED nonceVars
    BY <2>1, <2>4, <1>r, RejectedOrKeptOwned DEF Owner, nonceVars
  <2> QED BY <1>3, <1>w, <2>2, <2>3, <2>4
          DEF Unwind, PreflightDone, StageRejected, DryRunEnds, StageThrew, ReceiptArrives,
              StillUnderpriced, ReceiptTimesOut, InStage, At
<1>4. ASSUME NEW e \in Execs, Send(e) \/ SendReplacement(e) \/ ReplaceAfterReceipt(e)
      PROVE  Owned'
  <2>1. UNCHANGED nonceVars /\ lease[e] = "holding"
    BY <1>4 DEF Send, SendReplacement, ReplaceAfterReceipt, At, StepInv
  <2>2. \A f \in Execs \ {e} : onWire'[f] = onWire[f]
    BY <1>4 DEF Send, SendReplacement, ReplaceAfterReceipt, Broadcast, TypeOK
  <2>3. \A f \in Execs : Owner(f)' => Owner(f)
    BY <2>1, <2>2 DEF Owner, nonceVars
  <2> QED BY <2>1, <2>3, <1>r, RejectedOrKeptOwned
<1>5. ASSUME NEW e \in Execs, ResyncNonce(e) PROVE Owned'
  <2>1. onWire' = onWire
    BY <1>5 DEF ResyncNonce
  <2>2. CASE Keep(e)
    <3>1. \A f \in Execs : Owner(f)' => Owner(f)
      BY <2>1, <2>2 DEF Keep, Owner, IInv, NonceTypeOK
    <3> QED BY <2>2, <3>1, <1>r, RejectedOrKeptOwned
  <2>3. ASSUME NEW n \in VisiblePending, Resync(e, n), Return(e, "send_failed") PROVE Owned'
    <3>1. Resynced'
      BY <2>3 DEF Resynced, Return, TypeOK
    <3> QED BY <2>1, <2>3, <3>1, ResyncOwned
  <2> QED BY <1>5, <2>2, <2>3 DEF ResyncNonce
<1>6. ASSUME NEW g \in Gens, InitSettles(g) PROVE Owned'
  BY <1>6, <1>r, InitSettlesOwned
<1>7. CASE UNCHANGED <<nonceVars, onWire>>
  BY <1>7, <1>r DEF Owned, OwnInv, WireInv, Owner, nonceVars
<1>8. ASSUME NEW e \in Execs,
             RejectAtEntry(e) \/ QuoteAnswer(e) \/ PreflightFails(e) \/ StagePassed(e)
      PROVE  Owned'
  BY <1>7, <1>8 DEF RejectAtEntry, QuoteAnswer, PreflightFails, StagePassed
<1>9. CASE Mine \/ UNCHANGED vars
  BY <1>7, <1>9 DEF Mine, vars, execVars
<1> QED BY <1>1, <1>2, <1>3, <1>4, <1>5, <1>6, <1>8, <1>9 DEF Next, Execute

THEOREM ExecInvariant == Spec => []ExecInv
<1>1. Init => ExecInv
  BY InitTypeOK, InitStepInv, InitOwned DEF ExecInv, Owned
<1>2. IInv /\ IInv' /\ ExecInv /\ [Next]_vars => ExecInv'
  BY StepTypeOK, StepStepInv, StepOwned DEF ExecInv, Owned, IInv
<1> QED BY <1>1, <1>2, ManagerInvariant, PTL DEF Spec

-----------------------------------------------------------------------------
(* The nonces nobody will use.  An active nonce of the Map's object has an *)
(* owner, and what the chain still waits for below the object's first      *)
(* nonce is in a mempool.                                                  *)

NoLeak == ~\E e \in Execs : Leaked(e)

ReceiptInv == \A e \in Execs : step[e] \in {"receipt", "replaced_receipt"} => onWire[e]

ActiveInv ==
    NoLeak /\ cur # NoGen =>
        \A n \in active[cur] : \E e \in Execs : Owner(e) /\ nonce[e] = n

BaseInv ==
    cur # NoGen /\ phase[cur] = "ready" => mined .. (base[cur] - 1) \subseteq WireNonces

GapInv == ReceiptInv /\ ActiveInv /\ BaseInv

(* What an ended execution leaves behind does not change. *)
LEMMA DoneStays ==
  ASSUME TypeOK, StepInv, [Next]_vars, NEW f \in Execs, step[f] = "done"
  PROVE  step'[f] = "done" /\ outcome'[f] = outcome[f] /\ onWire'[f] = onWire[f]
<1> USE DEF TypeOK, At
<1> DEFINE Same == step'[f] = step[f] /\ outcome'[f] = outcome[f] /\ onWire'[f] = onWire[f]
<1>1. ASSUME NEW e \in Execs, NEW r, step[e] # "done", Return(e, r), onWire' = onWire
      PROVE  Same
  BY <1>1 DEF Return
<1>2. ASSUME NEW e \in Execs,
             RejectAtEntry(e) \/ StartPreflight(e) \/ QuoteAnswer(e) \/ ReservationSettles(e)
      PROVE  Same
  BY <1>1, <1>2 DEF RejectAtEntry, StartPreflight, QuoteAnswer, ReservationSettles, execVars, Goto
<1>3. ASSUME NEW e \in Execs, Execute(e) PROVE Same
  <2>1. CASE PreflightFails(e) \/ Unwind(e) \/ PreflightDone(e)
    BY <2>1, <1>1 DEF PreflightFails, Unwind, PreflightDone, Goto
  <2>2. CASE StageRejected(e) \/ StageThrew(e) \/ DryRunEnds(e) \/ StagePassed(e)
    BY <2>2, <1>1 DEF StageRejected, StageThrew, DryRunEnds, StagePassed, InStage, Goto
  <2>3. CASE Send(e) \/ SendReplacement(e) \/ ReplaceAfterReceipt(e)
    BY <2>3 DEF Send, SendReplacement, ReplaceAfterReceipt, Broadcast, Goto
  <2>4. CASE ReceiptArrives(e) \/ StillUnderpriced(e) \/ ReceiptTimesOut(e) \/ ResyncNonce(e)
    BY <2>4, <1>1 DEF ReceiptArrives, StillUnderpriced, ReceiptTimesOut, ResyncNonce
  <2> QED BY <1>3, <2>1, <2>2, <2>3, <2>4 DEF Execute
<1>4. CASE (\E g \in Gens : InitSettles(g)) \/ Mine \/ UNCHANGED vars
  BY <1>4 DEF InitSettles, Mine, vars, execVars
<1> QED BY <1>2, <1>3, <1>4 DEF Next

(* onWire grows, and what is on the wire keeps its nonce: a reservation    *)
(* that still waits has nothing there.                                     *)
LEMMA WireStays ==
  ASSUME TypeOK, StepInv, [Next]_vars, NEW f \in Execs, onWire[f]
  PROVE  onWire'[f] /\ nonce'[f] = nonce[f]
<1>1. onWire'[f]
  <2>1. CASE \E e \in Execs : Send(e) \/ SendReplacement(e) \/ ReplaceAfterReceipt(e)
    BY <2>1 DEF Send, SendReplacement, ReplaceAfterReceipt, Broadcast, TypeOK
  <2>2. CASE onWire' = onWire
    BY <2>2
  <2> QED BY <2>1, <2>2
          DEF Next, vars, execVars, RejectAtEntry, StartPreflight, QuoteAnswer, ReservationSettles,
              Execute, PreflightFails, Unwind, PreflightDone, StageRejected, StageThrew, DryRunEnds,
              StagePassed, ReceiptArrives, StillUnderpriced, ReceiptTimesOut, ResyncNonce,
              InitSettles, Mine
<1>2. [NonceNext]_nonceVars /\ lease[f] # "awaiting"
  BY StepRefines DEF TypeOK, StepInv
<1>3. CASE \E e \in Execs : TakeReleased(e) \/ TakeNext(e)
  BY <1>1, <1>2, <1>3 DEF TakeReleased, TakeNext, TypeOK, NonceTypeOK
<1>4. CASE nonce' = nonce
  BY <1>1, <1>4
<1> QED BY <1>1, <1>2, <1>3, <1>4
        DEF NonceNext, ExecStep, GenStep, ReserveCall, ReserveRejected, Release, Keep, Resync,
            InitFails, InitAnswer, nonceVars

LEMMA StepReceiptInv == TypeOK /\ StepInv /\ ReceiptInv /\ [Next]_vars => ReceiptInv'
<1> SUFFICES ASSUME TypeOK, StepInv, ReceiptInv, [Next]_vars, NEW f \in Execs,
                    step'[f] \in {"receipt", "replaced_receipt"}
             PROVE  onWire'[f]
  BY DEF ReceiptInv
<1>1. CASE step'[f] = step[f]
  BY <1>1, WireStays DEF ReceiptInv
<1>2. ASSUME NEW e \in Execs, NEW r, Return(e, r) PROVE step'[f] = step[f]
  BY <1>2 DEF Return, TypeOK
<1>3. ASSUME NEW e \in Execs, NEW s \in {"preflight", "unwinding", "checks", "send"}, Goto(e, s)
      PROVE  step'[f] = step[f]
  BY <1>3 DEF Goto, TypeOK
<1>4. ASSUME NEW e \in Execs, Send(e) \/ SendReplacement(e) \/ ReplaceAfterReceipt(e)
      PROVE  onWire'[f] \/ step'[f] = step[f]
  BY <1>4 DEF Send, SendReplacement, ReplaceAfterReceipt, Broadcast, Goto, TypeOK
<1>5. CASE step' = step
  BY <1>5, <1>1
<1> QED BY <1>1, <1>2, <1>3, <1>4, <1>5
        DEF Next, vars, execVars, RejectAtEntry, StartPreflight, QuoteAnswer, ReservationSettles,
            Execute, PreflightFails, Unwind, PreflightDone, StageRejected, StageThrew, DryRunEnds,
            StagePassed, ReceiptArrives, StillUnderpriced, ReceiptTimesOut, ResyncNonce,
            InitSettles, Mine

LEMMA LeakStays ==
  ASSUME TypeOK, StepInv, [Next]_vars, NoLeak'
  PROVE  NoLeak
<1> SUFFICES ASSUME NEW e \in Execs, Leaked(e) PROVE Leaked(e)'
  BY DEF NoLeak
<1>1. step[e] = "done"
  BY DEF Leaked, StepInv
<1> QED BY <1>1, DoneStays DEF Leaked

(* An execution that stops holding its nonce without giving it back has it *)
(* on the wire, or leaks it.                                               *)
LEMMA KeptOnWire ==
  ASSUME TypeOK, StepInv, ReceiptInv, [Next]_vars, NoLeak', NEW e \in Execs,
         \/ StageThrew(e) \/ ReceiptArrives(e) \/ StillUnderpriced(e) \/ ReceiptTimesOut(e)
         \/ (ResyncNonce(e) /\ Return(e, "exception"))
  PROVE  onWire'[e]
<1>1. CASE StageThrew(e) \/ (ResyncNonce(e) /\ Return(e, "exception"))
  <2>1. Return(e, "exception")
    BY <1>1 DEF StageThrew
  <2>2. outcome'[e] = "exception"
    BY <2>1 DEF Return, TypeOK
  <2> QED BY <2>2 DEF NoLeak, Leaked
<1>2. CASE ReceiptArrives(e) \/ StillUnderpriced(e) \/ ReceiptTimesOut(e)
  <2>1. onWire[e]
    BY <1>2 DEF ReceiptArrives, StillUnderpriced, ReceiptTimesOut, At, ReceiptInv
  <2>2. onWire' = onWire
    BY <1>2 DEF ReceiptArrives, StillUnderpriced, ReceiptTimesOut
  <2> QED BY <2>1, <2>2
<1> QED BY <1>1, <1>2

(* The active nonces of the Map's object after a step: those it had, less  *)
(* the one that is released, and the one that is taken.                    *)
LEMMA ActiveAfter ==
  ASSUME IInv, [NonceNext]_nonceVars, cur' # NoGen, NEW n \in active'[cur']
  PROVE  \/ /\ cur # NoGen /\ n \in active[cur]
            /\ \A e \in Execs : Release(e) => nonce[e] # n
            /\ \A e \in Execs, m \in PendingNonces : ~Resync(e, m)
         \/ \E e \in Execs : lease'[e] = "holding" /\ nonce'[e] = n
<1> USE NonceManagerAssumption
<1> DEFINE Kept == /\ cur # NoGen /\ n \in active[cur]
                   /\ \A e \in Execs : Release(e) => nonce[e] # n
                   /\ \A e \in Execs, m \in PendingNonces : ~Resync(e, m)
           Taken == \E e \in Execs : lease'[e] = "holding" /\ nonce'[e] = n
<1>t. NonceTypeOK
  BY DEF IInv
<1>e. \A g \in Gens : phase[g] # "ready" => active[g] = {}
  BY DEF IInv, PoolInv, DisjointPools
<1>n. ASSUME \A e \in Execs : ~Release(e), \A e \in Execs, m \in PendingNonces : ~Resync(e, m),
             cur' = cur, active' = active
      PROVE  Kept
  BY <1>n
<1>1. ASSUME NEW e \in Execs, ReserveCall(e) PROVE Kept
  <2>1. active' = active /\ \/ cur' = cur
                            \/ cur' \in Gens /\ phase[cur'] = "none"
    BY <1>1 DEF ReserveCall, CreateState
  <2>2. cur' = cur
    BY <2>1, <1>e
  <2>3. \A f \in Execs : ~Release(f)
    BY <1>1, <1>t DEF ReserveCall, Release, NonceTypeOK
  <2>4. \A f \in Execs, m \in PendingNonces : ~Resync(f, m)
    BY <1>1, <1>t DEF ReserveCall, Resync, NonceTypeOK
  <2> QED BY <2>1, <2>2, <2>3, <2>4, <1>n
<1>2. ASSUME NEW e \in Execs, ReserveRejected(e) \/ Keep(e) \/ TakeReleased(e) \/ TakeNext(e)
      PROVE  cur' = cur /\ (\A m \in PendingNonces, f \in Execs : ~Resync(f, m))
  <2>1. cur' = cur /\ phase' = phase
    BY <1>2 DEF ReserveRejected, Keep, TakeReleased, TakeNext
  <2>2. \A f \in Execs, m \in PendingNonces : Resync(f, m) => phase' # phase
    BY <1>t DEF Resync, NonceTypeOK
  <2> QED BY <2>1, <2>2
<1>3. ASSUME NEW e \in Execs, ReserveRejected(e) \/ Keep(e) PROVE Kept
  <2>1. active' = active
    BY <1>3 DEF ReserveRejected, Keep
  <2>2. \A f \in Execs : Release(f) => cur = NoGen \/ nonce[f] \notin active[cur]
    BY <2>1, <1>t DEF Release, NonceTypeOK
  <2> QED BY <1>2, <1>3, <2>1, <2>2
<1>4. ASSUME NEW e \in Execs, TakeReleased(e) \/ TakeNext(e) PROVE Kept \/ Taken
  <2>1. lease[e] = "awaiting" /\ lease' = [lease EXCEPT ![e] = "holding"]
        /\ gen[e] \in Gens /\ cur' = cur
    BY <1>4 DEF TakeReleased, TakeNext, IInv, GenInv
  <2>2. \A f \in Execs : ~Release(f)
    BY <2>1, <1>t DEF Release, NonceTypeOK
  <2>3. \E m : nonce' = [nonce EXCEPT ![e] = m] /\ active' = [active EXCEPT ![gen[e]] = @ \cup {m}]
    BY <1>4 DEF TakeReleased, TakeNext
  <2>4. n \in active[cur] \/ n = nonce'[e]
    BY <2>1, <2>3, <1>t DEF NonceTypeOK
  <2>5. lease'[e] = "holding"
    BY <2>1, <1>t DEF NonceTypeOK
  <2> QED BY <1>2, <1>4, <2>1, <2>2, <2>4, <2>5
<1>5. ASSUME NEW e \in Execs, Release(e) PROVE Kept
  <2>1. cur' = cur /\ cur \in Gens
    BY <1>5, <1>t DEF Release, NonceTypeOK
  <2>2. n \in active[cur] /\ n # nonce[e]
    BY <1>5, <2>1, <1>t DEF Release, NonceTypeOK
  <2>3. \A f \in Execs : f # e => ~Release(f)
    BY <1>5, <1>t DEF Release, NonceTypeOK
  <2>4. \A f \in Execs, m \in PendingNonces : ~Resync(f, m)
    <3>1. phase' = phase
      BY <1>5 DEF Release
    <3> QED BY <3>1, <1>t DEF Resync, NonceTypeOK
  <2> QED BY <2>1, <2>2, <2>3, <2>4
<1>6. ASSUME NEW e \in Execs, NEW m \in PendingNonces, Resync(e, m) PROVE FALSE
  BY <1>6, <1>e DEF Resync
<1>7. ASSUME NEW g \in Gens, GenStep(g) PROVE Kept
  <2>1. active' = active /\ lease' = lease /\ cur' = cur
    BY <1>7 DEF GenStep, InitFails, InitAnswer
  <2>2. (\A f \in Execs : ~Release(f)) /\ (\A f \in Execs, m \in PendingNonces : ~Resync(f, m))
    BY <2>1, <1>t DEF Release, Resync, NonceTypeOK
  <2> QED BY <2>1, <2>2, <1>n
<1>8. CASE UNCHANGED nonceVars
  <2>1. (\A f \in Execs : ~Release(f)) /\ (\A f \in Execs, m \in PendingNonces : ~Resync(f, m))
    BY <1>8, <1>t DEF nonceVars, Release, Resync, NonceTypeOK
  <2> QED BY <1>8, <2>1, <1>n DEF nonceVars
<1> QED BY <1>1, <1>3, <1>4, <1>5, <1>6, <1>7, <1>8 DEF NonceNext, ExecStep

LEMMA KeptInStep ==
  ASSUME IInv, TypeOK, StepInv, ReceiptInv, [Next]_vars, NoLeak', NEW e \in Execs,
         lease[e] = "holding", lease'[e] # "holding", ~Release(e),
         \A m \in PendingNonces : ~Resync(e, m)
  PROVE  nonce'[e] = nonce[e] /\ onWire'[e]
<1>t. lease \in [Execs -> Leases] /\ mined \in Nat
  BY DEF TypeOK, NonceTypeOK
<1>1. ASSUME NEW f \in Execs, f # e, RejectAtEntry(f) \/ StartPreflight(f) \/ QuoteAnswer(f)
                                     \/ ReservationSettles(f) \/ Execute(f)
      PROVE  FALSE
  <2>1. lease'[e] = lease[e]
    <3>1. \/ ReserveCall(f) \/ ReserveRejected(f) \/ TakeReleased(f) \/ TakeNext(f) \/ Release(f)
          \/ Keep(f) \/ (\E n \in VisiblePending : Resync(f, n)) \/ UNCHANGED nonceVars
      BY <1>1 DEF RejectAtEntry, StartPreflight, QuoteAnswer, ReservationSettles, Settle, Execute,
                  PreflightFails, Unwind, PreflightDone, StageRejected, StageThrew, DryRunEnds,
                  StagePassed, Send, SendReplacement, ReplaceAfterReceipt, ReceiptArrives,
                  StillUnderpriced, ReceiptTimesOut, ResyncNonce
    <3> QED BY <1>1, <1>t, <3>1 DEF ReserveCall, ReserveRejected, TakeReleased, TakeNext, Release,
                                    Keep, Resync, nonceVars
  <2> QED BY <2>1
<1>2. CASE (\E g \in Gens : InitSettles(g)) \/ Mine \/ UNCHANGED vars
  BY <1>2 DEF InitSettles, InitFails, InitAnswer, Mine, vars, nonceVars
<1>3. CASE RejectAtEntry(e) \/ StartPreflight(e) \/ QuoteAnswer(e) \/ ReservationSettles(e)
  BY <1>3 DEF RejectAtEntry, StartPreflight, QuoteAnswer, ReservationSettles, Settle, ReserveCall,
              ReserveRejected, TakeReleased, TakeNext, nonceVars
<1>4. CASE Execute(e)
  <2>1. ~(\E n \in VisiblePending : Resync(e, n))
    BY VisibleIsPending DEF TypeOK
  <2>2. nonceVars' # nonceVars
    BY DEF nonceVars
  <2>3. Keep(e) /\ \/ StageThrew(e) \/ ReceiptArrives(e) \/ StillUnderpriced(e)
                   \/ ReceiptTimesOut(e) \/ (ResyncNonce(e) /\ Return(e, "exception"))
    <3>1. CASE PreflightFails(e) \/ Unwind(e) \/ PreflightDone(e) \/ StageRejected(e)
               \/ DryRunEnds(e) \/ StagePassed(e) \/ Send(e) \/ SendReplacement(e)
               \/ ReplaceAfterReceipt(e)
      BY <3>1, <2>2 DEF PreflightFails, Unwind, PreflightDone, StageRejected, DryRunEnds,
                        StagePassed, Send, SendReplacement, ReplaceAfterReceipt, nonceVars
    <3>2. CASE StageThrew(e) \/ ReceiptArrives(e) \/ StillUnderpriced(e) \/ ReceiptTimesOut(e)
      BY <3>2 DEF StageThrew, ReceiptArrives, StillUnderpriced, ReceiptTimesOut
    <3>3. CASE ResyncNonce(e)
      BY <3>3, <2>1 DEF ResyncNonce
    <3> QED BY <1>4, <3>1, <3>2, <3>3 DEF Execute
  <2> QED BY <2>3, KeptOnWire DEF Keep
<1> QED BY <1>1, <1>2, <1>3, <1>4 DEF Next

LEMMA StepActiveInv ==
  ASSUME IInv, TypeOK, StepInv, ReceiptInv, ActiveInv, [Next]_vars
  PROVE  ActiveInv'
<1> SUFFICES ASSUME NoLeak', cur' # NoGen, NEW n \in active'[cur']
             PROVE  \E e \in Execs : Owner(e)' /\ nonce'[e] = n
  BY DEF ActiveInv
<1>1. NoLeak /\ [NonceNext]_nonceVars
  BY LeakStays, StepRefines DEF TypeOK
<1>2. CASE \E e \in Execs : lease'[e] = "holding" /\ nonce'[e] = n
  BY <1>2 DEF Owner
<1>3. CASE /\ cur # NoGen /\ n \in active[cur]
           /\ \A e \in Execs : Release(e) => nonce[e] # n
           /\ \A e \in Execs, m \in PendingNonces : ~Resync(e, m)
  <2>1. PICK e \in Execs : Owner(e) /\ nonce[e] = n
    BY <1>1, <1>3 DEF ActiveInv
  <2>2. CASE onWire[e]
    BY <2>1, <2>2, WireStays DEF Owner
  <2>3. CASE lease[e] = "holding" /\ lease'[e] = "holding"
    <3>1. nonce'[e] = nonce[e]
      BY <2>3, <1>1
         DEF NonceNext, ExecStep, GenStep, ReserveCall, ReserveRejected, TakeReleased, TakeNext,
             Release, Keep, Resync, InitFails, InitAnswer, nonceVars, TypeOK, NonceTypeOK
    <3> QED BY <2>1, <2>3, <3>1 DEF Owner
  <2>4. CASE lease[e] = "holding" /\ lease'[e] # "holding"
    <3>1. ~Release(e) /\ \A m \in PendingNonces : ~Resync(e, m)
      BY <1>3, <2>1
    <3>2. nonce'[e] = n /\ onWire'[e]
      BY <2>1, <2>4, <3>1, KeptInStep
    <3> QED BY <3>2 DEF Owner
  <2> QED BY <2>1, <2>2, <2>3, <2>4 DEF Owner
<1> QED BY <1>1, <1>2, <1>3, ActiveAfter

LEMMA WireGrows ==
  ASSUME TypeOK, StepInv, [Next]_vars
  PROVE  /\ WireNonces \subseteq WireNonces'
         /\ mined \in Nat /\ mined' \in Nat /\ mined <= mined'
<1>1. WireNonces \subseteq WireNonces'
  BY WireStays DEF WireNonces
<1>2. mined' = mined \/ mined' = mined + 1
  BY DEF Next, vars, execVars, RejectAtEntry, StartPreflight, QuoteAnswer, ReservationSettles,
         Execute, PreflightFails, Unwind, PreflightDone, StageRejected, StageThrew, DryRunEnds,
         StagePassed, Send, SendReplacement, ReplaceAfterReceipt, ReceiptArrives,
         StillUnderpriced, ReceiptTimesOut, ResyncNonce, InitSettles, Mine
<1> QED BY <1>1, <1>2 DEF TypeOK

(* A new first nonce is the chain's pending one: below it everything is    *)
(* mined or in a mempool.                                                  *)
LEMMA BaseAfter ==
  ASSUME IInv, TypeOK, StepInv, [Next]_vars, cur' # NoGen, phase'[cur'] = "ready"
  PROVE  \/ cur # NoGen /\ phase[cur] = "ready" /\ base'[cur'] = base[cur]
         \/ base'[cur'] \in VisiblePending
<1> USE NonceManagerAssumption
<1> DEFINE Same == cur # NoGen /\ phase[cur] = "ready" /\ base'[cur'] = base[cur]
           Read == base'[cur'] \in VisiblePending
<1>t. NonceTypeOK
  BY DEF TypeOK
<1>1. CASE UNCHANGED <<cur, phase, base>>
  BY <1>1
<1>2. ASSUME NEW g \in Gens, InitSettles(g) PROVE Same \/ Read
  <2>1. cur = g /\ phase[g] = "reading" /\ cur' # NoGen
    BY <1>2 DEF InitSettles, InitFails, InitAnswer, IInv, GenInv
  <2>2. PICK n \in VisiblePending : InitAnswer(g, n)
    BY <1>2, <2>1 DEF InitSettles, InitFails
  <2> QED BY <2>1, <2>2, <1>t DEF InitAnswer, NonceTypeOK
<1>3. ASSUME NEW e \in Execs, ReserveCall(e) PROVE Same
  <2>1. cur' = cur \/ phase'[cur'] = "reading"
    BY <1>3, <1>t DEF ReserveCall, CreateState, NonceTypeOK
  <2>2. cur' = cur
    BY <2>1
  <2>3. phase' = phase /\ base' = base
    BY <1>3, <2>2 DEF ReserveCall, CreateState
  <2> QED BY <2>2, <2>3
<1>4. ASSUME NEW e \in Execs, NEW n \in VisiblePending, Resync(e, n) PROVE Read
  BY <1>4, <1>t DEF Resync, NonceTypeOK
<1>5. \/ UNCHANGED <<cur, phase, base>>
      \/ \E g \in Gens : InitSettles(g)
      \/ \E e \in Execs : ReserveCall(e) \/ \E n \in VisiblePending : Resync(e, n)
  <2>1. ASSUME NEW e \in Execs, Execute(e)
        PROVE  UNCHANGED <<cur, phase, base>> \/ \E n \in VisiblePending : Resync(e, n)
    BY <2>1 DEF Execute, PreflightFails, Unwind, PreflightDone, StageRejected, StageThrew,
                DryRunEnds, StagePassed, Send, SendReplacement, ReplaceAfterReceipt, ReceiptArrives,
                StillUnderpriced, ReceiptTimesOut, ResyncNonce, Release, Keep, nonceVars
  <2>2. ASSUME NEW e \in Execs, RejectAtEntry(e) \/ QuoteAnswer(e) \/ ReservationSettles(e)
        PROVE  UNCHANGED <<cur, phase, base>>
    BY <2>2 DEF RejectAtEntry, QuoteAnswer, ReservationSettles, Settle, ReserveRejected,
                TakeReleased, TakeNext, nonceVars
  <2>3. ASSUME NEW e \in Execs, StartPreflight(e) PROVE ReserveCall(e)
    BY <2>3 DEF StartPreflight
  <2>4. CASE Mine \/ UNCHANGED vars
    BY <2>4 DEF Mine, vars, nonceVars
  <2> QED BY <2>1, <2>2, <2>3, <2>4 DEF Next
<1> QED BY <1>1, <1>2, <1>3, <1>4, <1>5

LEMMA StepBaseInv ==
  ASSUME IInv, TypeOK, StepInv, BaseInv, [Next]_vars
  PROVE  BaseInv'
<1> SUFFICES ASSUME cur' # NoGen, phase'[cur'] = "ready", NEW n \in mined' .. (base'[cur'] - 1)
             PROVE  n \in WireNonces'
  BY DEF BaseInv
<1>1. base'[cur'] \in Int /\ n \in Int /\ n <= base'[cur'] - 1
  <2>1. CASE base'[cur'] \in VisiblePending
    BY <2>1, WireGrows, SafeExecutorAssumption DEF VisiblePending
  <2>2. CASE cur # NoGen /\ base'[cur'] = base[cur]
    BY <2>2, WireGrows DEF TypeOK, NonceTypeOK
  <2> QED BY <2>1, <2>2, BaseAfter
<1>2. n \in mined .. (base'[cur'] - 1)
  BY <1>1, WireGrows
<1>3. CASE cur # NoGen /\ phase[cur] = "ready" /\ base'[cur'] = base[cur]
  BY <1>2, <1>3, WireGrows DEF BaseInv
<1>4. CASE base'[cur'] \in VisiblePending
  BY <1>2, <1>4, WireGrows DEF VisiblePending
<1> QED BY <1>3, <1>4, BaseAfter

LEMMA GapInvHolds == Spec => []GapInv
<1>1. Init => GapInv
  BY DEF Init, NonceInit, GapInv, ReceiptInv, ActiveInv, BaseInv
<1>2. IInv /\ ExecInv /\ GapInv /\ [Next]_vars => GapInv'
  BY StepReceiptInv, StepActiveInv, StepBaseInv DEF GapInv, ExecInv
<1> QED BY <1>1, <1>2, ManagerInvariant, ExecInvariant, PTL DEF Spec

-----------------------------------------------------------------------------
(* Executions hold different nonces unless a resync overlapped another.    *)
THEOREM HeldNoncesUnique == Spec => []UniqueUnlessOverlap
<1>1. IInv => UniqueUnlessOverlap
  BY DEF IInv
<1> QED BY <1>1, ManagerInvariant, PTL

(* Before the first failed send no two executions broadcast one nonce.     *)
THEOREM BroadcastsUnique == Spec => []OneBroadcastPerNonce
<1>1. ExecInv => OneBroadcastPerNonce
  BY DEF ExecInv, OwnInv, WireInv, Owner, OneBroadcastPerNonce
<1> QED BY <1>1, ExecInvariant, PTL

(* A nonce that was broadcast is not handed out again.                     *)
THEOREM BroadcastNotReusable == Spec => []ReusableNonceNotBroadcast
<1>1. IInv /\ ExecInv => ReusableNonceNotBroadcast
  <2> SUFFICES ASSUME IInv, ExecInv, ~overlap, NEW e \in Execs, onWire[e], gen[e] = cur
               PROVE  nonce[e] \notin released[cur]
    BY DEF ReusableNonceNotBroadcast
  <2>1. cur \in Gens /\ nonce[e] \in active[cur]
    BY DEF ExecInv, StepInv, OwnInv, Owner
  <2> QED BY <2>1 DEF IInv, PoolInv, DisjointPools
<1> QED BY <1>1, ExecInvariant, ManagerInvariant, PTL

(* A gap below a broadcast nonce is always about to be filled, resyncs     *)
(* included, unless an execution leaked its nonce: what the Map's object   *)
(* has neither handed out nor taken back is active there, hence owned.     *)
THEOREM GapsRecoverable == Spec => []GapsAreRecoverable
<1>1. IInv /\ ExecInv /\ GapInv => GapsAreRecoverable
  <2> SUFFICES ASSUME IInv, ExecInv, GapInv, NoLeak, NEW m \in WireNonces,
                      NEW n \in mined .. (m - 1)
               PROVE  \/ n \in WireNonces
                      \/ \E e \in Execs : lease[e] = "holding" /\ nonce[e] = n
                      \/ cur # NoGen /\ phase[cur] = "ready"
                                     /\ (n \in released[cur] \/ n >= nextNonce[cur])
    BY DEF GapsAreRecoverable, NoLeak
  <2>1. PICK e \in Execs : onWire[e] /\ nonce[e] = m
    BY DEF WireNonces
  <2>2. cur # NoGen /\ cur \in Gens /\ phase[cur] = "ready"
    BY <2>1, NonceManagerAssumption DEF ExecInv, StepInv, IInv, GenInv
  <2>3. base[cur] \in Nat /\ nextNonce[cur] \in Nat /\ n \in Int /\ mined <= n
    <3>1. base[cur] \in Nat /\ nextNonce[cur] \in Nat /\ mined \in Nat
      BY <2>2 DEF IInv, NonceTypeOK, PoolInv, ExecInv, TypeOK
    <3> QED BY <3>1
  <2>4. CASE n < base[cur]
    BY <2>2, <2>3, <2>4 DEF GapInv, BaseInv, ExecInv, TypeOK
  <2>5. CASE base[cur] <= n /\ n < nextNonce[cur] /\ n \notin released[cur]
    <3>1. n \in active[cur]
      BY <2>2, <2>3, <2>5 DEF IInv, PoolInv, DisjointPools
    <3>2. PICK f \in Execs : Owner(f) /\ nonce[f] = n
      BY <2>2, <3>1 DEF GapInv, ActiveInv
    <3> QED BY <3>2 DEF Owner, WireNonces
  <2> QED BY <2>2, <2>3, <2>4, <2>5
<1> QED BY <1>1, GapInvHolds, ExecInvariant, ManagerInvariant, PTL

(* At rest, with no failed send and no leak, the active nonces are those   *)
(* on the wire: nobody is left that could own one in another way.          *)
THEOREM AtRestReserved == Spec => []AtRestOnlyBroadcastReserved
<1>1. ExecInv /\ GapInv => AtRestOnlyBroadcastReserved
  <2> SUFFICES ASSUME ExecInv, GapInv, \A e \in Execs : step[e] \in {"idle", "done"},
                      ~Resynced, NoLeak, cur # NoGen
               PROVE  active[cur] = WireNonces
    BY DEF AtRestOnlyBroadcastReserved, NoLeak
  <2>1. \A e \in Execs : Owner(e) => onWire[e]
    BY DEF ExecInv, StepInv, Owner
  <2>2. active[cur] \subseteq WireNonces
    BY <2>1 DEF GapInv, ActiveInv, WireNonces
  <2>3. WireNonces \subseteq active[cur]
    BY DEF ExecInv, OwnInv, WireInv, WireNonces, Owner
  <2> QED BY <2>2, <2>3
<1> QED BY <1>1, GapInvHolds, ExecInvariant, PTL
=============================================================================
