------------------------- MODULE NonceManagerProofs -------------------------
(***************************************************************************)
(* Proofs about NonceManager, for every set of executions, every supply of *)
(* NonceState objects and every answer of getPendingNonce.                 *)
(*                                                                         *)
(* The invariant IInv has four parts beside the types:                     *)
(*   GenInv   which object the Map holds while one initialises or after    *)
(*            one is ready, and what an execution's captured object is;    *)
(*   PoolInv  DisjointPools and what it needs of nextNonce;                *)
(*   LiveInv  unless a resync overlapped another execution, everyone in    *)
(*            flight works on the Map's object and holds an active nonce;  *)
(*   UniqueUnlessOverlap itself.                                           *)
(***************************************************************************)
EXTENDS NonceManager, TLAPS

GenInv ==
    /\ \A g \in Gens : phase[g] = "reading" => cur = g
    /\ \A g \in Gens : phase[g] = "ready" => cur \in Gens /\ phase[cur] = "ready"
    /\ cur # NoGen => phase[cur] \in {"reading", "ready"}
    /\ \A e \in Execs : lease[e] \in {"awaiting", "holding"} =>
          gen[e] \in Gens /\ phase[gen[e]] \in {"reading", "ready", "failed"}
    /\ \A e \in Execs : lease[e] = "holding" => phase[gen[e]] = "ready"

PoolInv ==
    /\ DisjointPools
    /\ \A g \in Gens : phase[g] = "ready" => nextNonce[g] \in Nat /\ base[g] <= nextNonce[g]

LiveInv ==
    ~overlap => \A e \in Execs :
        /\ lease[e] = "awaiting" /\ phase[gen[e]] # "failed" => gen[e] = cur
        /\ lease[e] = "holding" => gen[e] = cur /\ nonce[e] \in active[cur]

IInv == NonceTypeOK /\ GenInv /\ PoolInv /\ LiveInv /\ UniqueUnlessOverlap

-----------------------------------------------------------------------------
LEMMA InitIInv == NonceInit => IInv
<1> SUFFICES ASSUME NonceInit PROVE IInv
  OBVIOUS
<1> USE NonceManagerAssumption DEF NonceInit
<1>1. NonceTypeOK
  BY DEF NonceTypeOK, Phases, Leases
<1>2. GenInv /\ PoolInv
  BY DEF GenInv, PoolInv, DisjointPools
<1>3. LiveInv /\ UniqueUnlessOverlap
  BY DEF LiveInv, UniqueUnlessOverlap
<1> QED BY <1>1, <1>2, <1>3 DEF IInv

LEMMA ReserveCallIInv ==
  ASSUME IInv, NEW e \in Execs, ReserveCall(e)
  PROVE  IInv'
<1> USE NonceManagerAssumption DEF IInv, ReserveCall, CreateState
<1>1. NonceTypeOK'
  BY DEF NonceTypeOK, Phases, Leases
<1>2. GenInv'
  BY DEF NonceTypeOK, GenInv, Phases, Leases
<1>3. PoolInv'
  BY DEF NonceTypeOK, PoolInv, DisjointPools, GenInv, Phases
<1>4. LiveInv' /\ UniqueUnlessOverlap'
  BY DEF NonceTypeOK, GenInv, LiveInv, UniqueUnlessOverlap, Phases, Leases
<1> QED BY <1>1, <1>2, <1>3, <1>4

LEMMA InitAnswerIInv ==
  ASSUME IInv, NEW g \in Gens, NEW n \in Nat, InitAnswer(g, n)
  PROVE  IInv'
<1> USE NonceManagerAssumption DEF IInv, InitAnswer
<1>1. NonceTypeOK'
  BY DEF NonceTypeOK, Phases, Leases
<1>2. GenInv'
  BY DEF NonceTypeOK, GenInv, Phases, Leases
<1>3. PoolInv'
  BY DEF NonceTypeOK, PoolInv, DisjointPools, Phases
<1>4. LiveInv' /\ UniqueUnlessOverlap'
  BY DEF NonceTypeOK, GenInv, LiveInv, UniqueUnlessOverlap, Phases, Leases
<1> QED BY <1>1, <1>2, <1>3, <1>4

LEMMA InitFailsIInv ==
  ASSUME IInv, NEW g \in Gens, InitFails(g)
  PROVE  IInv'
<1> USE NonceManagerAssumption DEF IInv, InitFails
<1>1. NonceTypeOK'
  BY DEF NonceTypeOK, Phases, Leases
<1>2. GenInv'
  BY DEF NonceTypeOK, GenInv, Phases, Leases
<1>3. PoolInv'
  BY DEF NonceTypeOK, PoolInv, DisjointPools, Phases
<1>4. LiveInv' /\ UniqueUnlessOverlap'
  BY DEF NonceTypeOK, GenInv, LiveInv, UniqueUnlessOverlap, Phases, Leases
<1> QED BY <1>1, <1>2, <1>3, <1>4

LEMMA ReserveRejectedIInv ==
  ASSUME IInv, NEW e \in Execs, ReserveRejected(e)
  PROVE  IInv'
<1> USE NonceManagerAssumption DEF IInv, ReserveRejected
<1>1. NonceTypeOK' /\ PoolInv'
  BY DEF NonceTypeOK, PoolInv, DisjointPools, Phases, Leases
<1>2. GenInv' /\ LiveInv' /\ UniqueUnlessOverlap'
  BY DEF NonceTypeOK, GenInv, LiveInv, UniqueUnlessOverlap, Phases, Leases
<1> QED BY <1>1, <1>2

(* What the two ways of allocating share: the nonce given is not active in *)
(* the captured object, and active there afterwards.                       *)
LEMMA AllocationUnique ==
  ASSUME IInv, NEW e \in Execs, lease[e] = "awaiting", phase[gen[e]] = "ready",
         NEW n \in Nat, n \notin active[gen[e]],
         nonce' = [nonce EXCEPT ![e] = n],
         active' = [active EXCEPT ![gen[e]] = @ \cup {n}],
         lease' = [lease EXCEPT ![e] = "holding"],
         UNCHANGED <<cur, phase, gen, overlap>>
  PROVE  LiveInv' /\ UniqueUnlessOverlap'
<1> USE NonceManagerAssumption DEF IInv
<1>1. ASSUME ~overlap PROVE gen[e] = cur /\ cur \in Gens
  BY <1>1 DEF LiveInv, GenInv
<1>2. LiveInv'
  BY <1>1 DEF LiveInv, NonceTypeOK
<1>3. ASSUME ~overlap, NEW f \in Execs, f # e, lease[f] = "holding"
      PROVE  nonce[f] # n
  BY <1>1, <1>3 DEF LiveInv
<1>4. UniqueUnlessOverlap'
  BY <1>3 DEF UniqueUnlessOverlap, NonceTypeOK
<1> QED BY <1>2, <1>4

LEMMA TakeReleasedIInv ==
  ASSUME IInv, NEW e \in Execs, TakeReleased(e)
  PROVE  IInv'
<1> USE NonceManagerAssumption DEF IInv
<1>g. gen[e] \in Gens
  BY DEF TakeReleased, GenInv
<1>n. PICK n \in released[gen[e]] :
        /\ released' = [released EXCEPT ![gen[e]] = @ \ {n}]
        /\ active' = [active EXCEPT ![gen[e]] = @ \cup {n}]
        /\ nonce' = [nonce EXCEPT ![e] = n]
  BY DEF TakeReleased
<1>1. n \in Nat /\ n \notin active[gen[e]]
  BY <1>g, <1>n DEF NonceTypeOK, PoolInv, DisjointPools
<1>2. NonceTypeOK'
  BY <1>g, <1>n, <1>1 DEF TakeReleased, NonceTypeOK, Leases
<1>3. GenInv'
  BY <1>g DEF TakeReleased, NonceTypeOK, GenInv, Leases
<1>4. PoolInv'
  BY <1>g, <1>n, <1>1 DEF TakeReleased, NonceTypeOK, PoolInv, DisjointPools
<1>5. LiveInv' /\ UniqueUnlessOverlap'
  BY <1>n, <1>1, AllocationUnique DEF TakeReleased
<1> QED BY <1>2, <1>3, <1>4, <1>5

LEMMA TakeNextIInv ==
  ASSUME IInv, NEW e \in Execs, TakeNext(e)
  PROVE  IInv'
<1> USE NonceManagerAssumption DEF IInv
<1>g. gen[e] \in Gens /\ phase[gen[e]] = "ready"
  BY DEF TakeNext, GenInv
<1> DEFINE n == nextNonce[gen[e]]
<1>1. n \in Nat /\ base[gen[e]] \in Nat /\ base[gen[e]] <= n
  BY <1>g DEF PoolInv, NonceTypeOK
<1>2. n \notin active[gen[e]]
  BY <1>g, <1>1 DEF PoolInv, DisjointPools
<1>3. NonceTypeOK'
  BY <1>g, <1>1 DEF TakeNext, NonceTypeOK, Leases
<1>4. GenInv'
  BY <1>g DEF TakeNext, NonceTypeOK, GenInv, Leases
<1>5. PoolInv'
  <2>1. (base[gen[e]] .. (n + 1 - 1)) = (base[gen[e]] .. (n - 1)) \cup {n}
    BY <1>1
  <2>2. active'[gen[e]] \cup released'[gen[e]] = base'[gen[e]] .. (nextNonce'[gen[e]] - 1)
    BY <1>g, <1>1, <2>1 DEF TakeNext, NonceTypeOK, PoolInv, DisjointPools
  <2>3. DisjointPools'
    BY <1>g, <1>1, <1>2, <2>2 DEF TakeNext, NonceTypeOK, PoolInv, DisjointPools
  <2> QED BY <1>g, <1>1, <2>3 DEF TakeNext, NonceTypeOK, PoolInv
<1>6. LiveInv' /\ UniqueUnlessOverlap'
  BY <1>1, <1>2, AllocationUnique DEF TakeNext
<1> QED BY <1>3, <1>4, <1>5, <1>6

LEMMA ReleaseIInv ==
  ASSUME IInv, NEW e \in Execs, Release(e)
  PROVE  IInv'
<1> USE NonceManagerAssumption DEF IInv
<1>1. NonceTypeOK'
  BY DEF Release, NonceTypeOK, Leases
<1>2. GenInv'
  BY DEF Release, NonceTypeOK, GenInv, Leases
<1>3. PoolInv'
  <2>1. CASE cur # NoGen /\ nonce[e] \in active[cur]
    BY <2>1 DEF Release, NonceTypeOK, PoolInv, DisjointPools
  <2>2. CASE ~(cur # NoGen /\ nonce[e] \in active[cur])
    BY <2>2 DEF Release, PoolInv, DisjointPools
  <2> QED BY <2>1, <2>2
<1>4. UniqueUnlessOverlap'
  BY DEF Release, NonceTypeOK, UniqueUnlessOverlap
<1>5. LiveInv'
  <2> SUFFICES ASSUME ~overlap, NEW f \in Execs
               PROVE  /\ lease'[f] = "awaiting" /\ phase[gen[f]] # "failed" => gen[f] = cur
                      /\ lease'[f] = "holding" => gen[f] = cur /\ nonce[f] \in active'[cur]
    BY DEF LiveInv, Release
  <2>1. lease'[f] = "awaiting" => lease[f] = "awaiting"
    BY DEF Release, NonceTypeOK
  <2>2. ASSUME lease'[f] = "holding" PROVE gen[f] = cur /\ nonce[f] \in active'[cur]
    <3>1. f # e /\ lease[f] = "holding" /\ lease[e] = "holding"
      BY <2>2 DEF Release, NonceTypeOK
    <3>2. gen[f] = cur /\ nonce[f] \in active[cur] /\ nonce[f] # nonce[e] /\ cur \in Gens
      BY <3>1 DEF LiveInv, UniqueUnlessOverlap, GenInv
    <3> QED BY <3>2 DEF Release, NonceTypeOK
  <2> QED BY <2>1, <2>2 DEF LiveInv
<1> QED BY <1>1, <1>2, <1>3, <1>4, <1>5

LEMMA KeepIInv ==
  ASSUME IInv, NEW e \in Execs, Keep(e)
  PROVE  IInv'
<1> USE NonceManagerAssumption DEF IInv, Keep
<1>1. NonceTypeOK' /\ PoolInv'
  BY DEF NonceTypeOK, PoolInv, DisjointPools, Phases, Leases
<1>2. GenInv' /\ LiveInv' /\ UniqueUnlessOverlap'
  BY DEF NonceTypeOK, GenInv, LiveInv, UniqueUnlessOverlap, Phases, Leases
<1> QED BY <1>1, <1>2

(* After a resync that overlapped nobody, nobody is in flight; after one   *)
(* that did, LiveInv and UniqueUnlessOverlap claim nothing.                *)
LEMMA ResyncIInv ==
  ASSUME IInv, NEW e \in Execs, NEW n \in Nat, Resync(e, n)
  PROVE  IInv'
<1> USE NonceManagerAssumption DEF IInv, Resync
<1>1. NonceTypeOK'
  BY DEF NonceTypeOK, Phases, Leases
<1>2. GenInv'
  BY DEF NonceTypeOK, GenInv, Phases, Leases
<1>3. PoolInv'
  BY DEF NonceTypeOK, PoolInv, DisjointPools, Phases
<1>4. ASSUME ~overlap' PROVE \A f \in Execs : lease'[f] \notin {"awaiting", "holding"}
  BY <1>4 DEF Live, NonceTypeOK
<1>5. LiveInv' /\ UniqueUnlessOverlap'
  BY <1>4 DEF LiveInv, UniqueUnlessOverlap
<1> QED BY <1>1, <1>2, <1>3, <1>5

LEMMA StepIInv == IInv /\ [NonceNext]_nonceVars => IInv'
<1> SUFFICES ASSUME IInv, [NonceNext]_nonceVars PROVE IInv'
  OBVIOUS
<1>p. PendingNonces \subseteq Nat
  BY NonceManagerAssumption
<1>1. ASSUME NEW e \in Execs, ExecStep(e) PROVE IInv'
  BY <1>1, <1>p, ReserveCallIInv, ReserveRejectedIInv, TakeReleasedIInv, TakeNextIInv,
     ReleaseIInv, KeepIInv, ResyncIInv DEF ExecStep
<1>2. ASSUME NEW g \in Gens, GenStep(g) PROVE IInv'
  BY <1>2, <1>p, InitAnswerIInv, InitFailsIInv DEF GenStep
<1>3. CASE UNCHANGED nonceVars
  BY <1>3 DEF nonceVars, IInv, NonceTypeOK, GenInv, PoolInv, DisjointPools, LiveInv,
              UniqueUnlessOverlap
<1> QED BY <1>1, <1>2, <1>3 DEF NonceNext

-----------------------------------------------------------------------------
(* The manager's inductive invariant. *)
THEOREM NonceInvariant == NonceSpec => []IInv
  BY InitIInv, StepIInv, PTL DEF NonceSpec

(* Type correctness: in particular nextNonce is never read before it is    *)
(* defined (the throw of l.36-38 is unreachable).                          *)
THEOREM NonceTypeCorrect == NonceSpec => []NonceTypeOK
<1>1. IInv => NonceTypeOK
  BY DEF IInv
<1> QED BY <1>1, NonceInvariant, PTL

(* No nonce of a NonceState object is lost or in both pools, whichever     *)
(* executions release into it, its own or those of a replaced object.      *)
THEOREM PoolsDisjoint == NonceSpec => []DisjointPools
<1>1. IInv => DisjointPools
  BY DEF IInv, PoolInv
<1> QED BY <1>1, NonceInvariant, PTL

(* The unconditional delete in the failure handler is safe.                *)
THEOREM InitDeleteSafe == NonceSpec => []InitDeletesOwnState
<1>1. IInv => InitDeletesOwnState
  BY DEF IInv, GenInv, InitDeletesOwnState
<1> QED BY <1>1, NonceInvariant, PTL

(* Concurrent executions hold different nonces unless a resync overlapped. *)
THEOREM NoncesUnique == NonceSpec => []UniqueUnlessOverlap
<1>1. IInv => UniqueUnlessOverlap
  BY DEF IInv
<1> QED BY <1>1, NonceInvariant, PTL
=============================================================================
