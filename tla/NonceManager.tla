---------------------------- MODULE NonceManager ----------------------------
(***************************************************************************)
(* src/src/executors/nonceManager.ts: the local allocator of transaction   *)
(* nonces for one wallet on one chain (one key of the manager's Map).      *)
(*                                                                         *)
(* A NonceState object is a "generation": reserve() captures the object,   *)
(* awaits its initialisation and then allocates from the captured object,  *)
(* while resync() and a failed initialisation replace or drop the object   *)
(* the Map holds.  Generations are therefore identities, and two calls may *)
(* work on different ones at the same time.                                *)
(*                                                                         *)
(* The callers are executions (Execs): each reserves one nonce and then    *)
(* releases it, keeps it (it sent the transaction, or threw), or resyncs   *)
(* the manager because its send failed.                                    *)
(*                                                                         *)
(* A definition D_Bug stands beside D as a mutant of it: what D would be   *)
(* if the code had that bug.  No specification uses one.                   *)
(***************************************************************************)
EXTENDS Integers

CONSTANTS
    Execs,          \* the execute() calls that share the wallet
    Gens,           \* identities of NonceState objects: the bound on how many are made
    NoGen,          \* the Map has no entry for the key
    NoNonce,        \* nextNonce is undefined
    PendingNonces   \* what getPendingNonce may answer

ASSUME NonceManagerAssumption ==
    /\ NoGen \notin Gens
    /\ NoNonce \notin Nat
    /\ PendingNonces \subseteq Nat

VARIABLES
    cur,        \* states.get(key): a generation, or NoGen
    phase,      \* per generation: the promise "initialized"
    base,       \* per generation: the first nonce it was given (history)
    nextNonce,  \* per generation: NonceState.nextNonce
    released,   \* per generation: NonceState.released, see SmallestReleased
    active,     \* per generation: NonceState.active
    lease,      \* per execution: how far its reservation is
    gen,        \* per execution: the NonceState object reserve() captured
    nonce,      \* per execution: the nonce of its NonceReservation
    overlap     \* history: a resync happened while another execution was live

mgrVars == <<cur, phase, base, nextNonce, released, active>>
nonceVars == <<cur, phase, base, nextNonce, released, active, lease, gen, nonce, overlap>>

Phases == {"none", "reading", "ready", "failed"}
Leases == {"idle", "awaiting", "holding", "rejected", "done"}

NonceTypeOK ==
    /\ cur \in Gens \cup {NoGen}
    /\ phase \in [Gens -> Phases]
    /\ base \in [Gens -> Nat]
    /\ nextNonce \in [Gens -> Nat \cup {NoNonce}]
    /\ released \in [Gens -> SUBSET Nat]
    /\ active \in [Gens -> SUBSET Nat]
    /\ lease \in [Execs -> Leases]
    /\ gen \in [Execs -> Gens \cup {NoGen}]
    /\ nonce \in [Execs -> Nat \cup {NoNonce}]
    /\ overlap \in BOOLEAN

NonceInit ==
    /\ cur = NoGen
    /\ phase = [g \in Gens |-> "none"]
    /\ base = [g \in Gens |-> 0]
    /\ nextNonce = [g \in Gens |-> NoNonce]
    /\ released = [g \in Gens |-> {}]
    /\ active = [g \in Gens |-> {}]
    /\ lease = [e \in Execs |-> "idle"]
    /\ gen = [e \in Execs |-> NoGen]
    /\ nonce = [e \in Execs |-> NoNonce]
    /\ overlap = FALSE

Live(e) == lease[e] \in {"awaiting", "holding"}

-----------------------------------------------------------------------------
(* createState: a new object in the Map, its pending-nonce read in flight. *)
CreateState(g) ==
    /\ phase[g] = "none"
    /\ phase' = [phase EXCEPT ![g] = "reading"]
    /\ cur' = g

(* The synchronous part of reserve(): take the Map's object or make one,   *)
(* and keep hold of it across the await.                                   *)
ReserveCall(e) ==
    /\ lease[e] = "idle"
    /\ lease' = [lease EXCEPT ![e] = "awaiting"]
    /\ \/ /\ cur # NoGen
          /\ gen' = [gen EXCEPT ![e] = cur]
          /\ UNCHANGED <<cur, phase>>
       \/ /\ cur = NoGen
          /\ \E g \in Gens : /\ CreateState(g)
                             /\ gen' = [gen EXCEPT ![e] = g]
    /\ UNCHANGED <<base, nextNonce, released, active, nonce, overlap>>

InitAnswer(g, n) ==
    /\ phase[g] = "reading"
    /\ phase' = [phase EXCEPT ![g] = "ready"]
    /\ base' = [base EXCEPT ![g] = n]
    /\ nextNonce' = [nextNonce EXCEPT ![g] = n]
    /\ UNCHANGED <<cur, released, active, lease, gen, nonce, overlap>>

(* The read fails: the key is deleted, whatever object it maps to by now,  *)
(* and every reserve() that awaits this object will be rejected.           *)
InitFails(g) ==
    /\ phase[g] = "reading"
    /\ phase' = [phase EXCEPT ![g] = "failed"]
    /\ cur' = NoGen
    /\ UNCHANGED <<base, nextNonce, released, active, lease, gen, nonce, overlap>>

ReserveRejected_CurrentOnly(e) ==
    /\ lease[e] = "awaiting"
    /\ phase[gen[e]] = "failed" /\ cur = gen[e]
    /\ lease' = [lease EXCEPT ![e] = "rejected"]
    /\ UNCHANGED <<cur, phase, base, nextNonce, released, active, gen, nonce, overlap>>

ReserveRejected(e) ==
    /\ lease[e] = "awaiting"
    /\ phase[gen[e]] = "failed"
    /\ lease' = [lease EXCEPT ![e] = "rejected"]
    /\ UNCHANGED <<cur, phase, base, nextNonce, released, active, gen, nonce, overlap>>

(* released is an array kept sorted by release() and consumed by shift();  *)
(* DisjointPools says that nothing is pushed twice, so that a set and its  *)
(* least element are the same thing.                                       *)
SmallestReleased(g, n) == n \in released[g] /\ \A m \in released[g] : n <= m

TakeReleased_Peek(e) ==
    /\ lease[e] = "awaiting"
    /\ phase[gen[e]] = "ready"
    /\ \E n \in released[gen[e]] :
          /\ SmallestReleased(gen[e], n)
          /\ nonce' = [nonce EXCEPT ![e] = n]
    /\ lease' = [lease EXCEPT ![e] = "holding"]
    /\ UNCHANGED <<mgrVars, gen, overlap>>

(* reserve() after the await: the least released nonce, else a new one,    *)
(* both from the captured object, which may no longer be the Map's.        *)
TakeReleased(e) ==
    /\ lease[e] = "awaiting"
    /\ phase[gen[e]] = "ready"
    /\ \E n \in released[gen[e]] :
          /\ SmallestReleased(gen[e], n)
          /\ released' = [released EXCEPT ![gen[e]] = @ \ {n}]
          /\ active' = [active EXCEPT ![gen[e]] = @ \cup {n}]
          /\ nonce' = [nonce EXCEPT ![e] = n]
    /\ lease' = [lease EXCEPT ![e] = "holding"]
    /\ UNCHANGED <<cur, phase, base, nextNonce, gen, overlap>>

TakeNext_NoIncrement(e) ==
    /\ lease[e] = "awaiting"
    /\ phase[gen[e]] = "ready"
    /\ released[gen[e]] = {}
    /\ nonce' = [nonce EXCEPT ![e] = nextNonce[gen[e]]]
    /\ active' = [active EXCEPT ![gen[e]] = @ \cup {nextNonce[gen[e]]}]
    /\ lease' = [lease EXCEPT ![e] = "holding"]
    /\ UNCHANGED <<cur, phase, base, nextNonce, released, gen, overlap>>

TakeNext(e) ==
    /\ lease[e] = "awaiting"
    /\ phase[gen[e]] = "ready"
    /\ released[gen[e]] = {}
    /\ nonce' = [nonce EXCEPT ![e] = nextNonce[gen[e]]]
    /\ active' = [active EXCEPT ![gen[e]] = @ \cup {nextNonce[gen[e]]}]
    /\ nextNonce' = [nextNonce EXCEPT ![gen[e]] = @ + 1]
    /\ lease' = [lease EXCEPT ![e] = "holding"]
    /\ UNCHANGED <<cur, phase, base, released, gen, overlap>>

(* release() looks the key up again: it acts on the current generation,    *)
(* and only if the nonce is active there.                                  *)
Release(e) ==
    /\ lease[e] = "holding"
    /\ lease' = [lease EXCEPT ![e] = "done"]
    /\ IF cur # NoGen /\ nonce[e] \in active[cur]
       THEN /\ active' = [active EXCEPT ![cur] = @ \ {nonce[e]}]
            /\ released' = [released EXCEPT ![cur] = @ \cup {nonce[e]}]
       ELSE UNCHANGED <<active, released>>
    /\ UNCHANGED <<cur, phase, base, nextNonce, gen, nonce, overlap>>

(* The execution ends without a call to the manager: its nonce is spent on *)
(* the chain, or the execution threw after preflight.                      *)
Keep(e) ==
    /\ lease[e] = "holding"
    /\ lease' = [lease EXCEPT ![e] = "done"]
    /\ UNCHANGED <<cur, phase, base, nextNonce, released, active, gen, nonce, overlap>>

(* resync(): a fresh object that starts at the answer n; what the replaced *)
(* one had active or released is forgotten.                                *)
Resync(e, n) ==
    /\ lease[e] = "holding"
    /\ lease' = [lease EXCEPT ![e] = "done"]
    /\ \E g \in Gens :
          /\ phase[g] = "none"
          /\ phase' = [phase EXCEPT ![g] = "ready"]
          /\ base' = [base EXCEPT ![g] = n]
          /\ nextNonce' = [nextNonce EXCEPT ![g] = n]
          /\ cur' = g
    /\ overlap' = (overlap \/ \E f \in Execs \ {e} : Live(f))
    /\ UNCHANGED <<released, active, gen, nonce>>

ExecStep(e) ==
    \/ ReserveCall(e)
    \/ ReserveRejected(e)
    \/ TakeReleased(e)
    \/ TakeNext(e)
    \/ Release(e)
    \/ Keep(e)
    \/ \E n \in PendingNonces : Resync(e, n)

GenStep(g) ==
    \/ InitFails(g)
    \/ \E n \in PendingNonces : InitAnswer(g, n)

NonceNext ==
    \/ \E e \in Execs : ExecStep(e)
    \/ \E g \in Gens : GenStep(g)

NonceSpec == NonceInit /\ [][NonceNext]_nonceVars

(* Every read settles (the RPC transport times out) and promise            *)
(* continuations run: the reservation of an execution makes progress.      *)
(* Nothing is assumed about when an execution gives its nonce back.        *)
Settle(e) == ReserveRejected(e) \/ TakeReleased(e) \/ TakeNext(e)

NonceFairSpec ==
    /\ NonceSpec
    /\ \A g \in Gens : WF_nonceVars(GenStep(g))
    /\ \A e \in Execs : WF_nonceVars(Settle(e))

-----------------------------------------------------------------------------
(* Properties *)

(* A nonce of a generation is never at once free for reuse and in use, and *)
(* none is lost: everything handed out since the generation began is in    *)
(* exactly one of the two pools (l.29-42, 50-55), also when an execution   *)
(* of an older generation releases into this one.                          *)
DisjointPools ==
    \A g \in Gens :
        /\ active[g] \cap released[g] = {}
        /\ phase[g] = "ready" =>
              active[g] \cup released[g] = base[g] .. (nextNonce[g] - 1)
        /\ phase[g] # "ready" => active[g] = {} /\ released[g] = {}

(* states.delete(key) in the failure handler (l.75) does not look at what  *)
(* the key maps to, and still it only ever deletes the object whose        *)
(* initialisation failed: no other object can be there before it settles.  *)
InitDeletesOwnState ==
    \A g \in Gens : phase[g] = "reading" => cur = g

(* Two executions in flight never hold the same nonce, as long as no       *)
(* resync happened while another execution was reserving or holding one.   *)
UniqueUnlessOverlap ==
    ~overlap =>
        \A e, f \in Execs :
            (e # f /\ lease[e] = "holding" /\ lease[f] = "holding") => nonce[e] # nonce[f]

(* Every reserve() is settled: no call waits for ever on an object that a  *)
(* failed read or a resync has dropped from the Map.                       *)
ReservationsSettle ==
    \A e \in Execs : lease[e] = "awaiting" ~> lease[e] \in {"holding", "rejected"}
=============================================================================
