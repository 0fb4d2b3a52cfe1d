----------------------------- MODULE EventSource -----------------------------
(***************************************************************************)
(* What a source of pool events promises to the detection that starts it   *)
(* (PipelineDetectionSource, index.ts:901-918): once started it always     *)
(* listens to somebody, an event that it took in leaves it only by being   *)
(* reported, and once stopped it listens to nobody for ever.               *)
(***************************************************************************)
CONSTANTS Sources, Events

VARIABLES
    mode,        \* "new", "started", "stopped"
    listening,   \* the sources it listens to
    pending,     \* events taken in and not reported yet, by source
    given        \* events reported

sourceVars == <<mode, listening, pending, given>>

Init ==
    /\ mode = "new" /\ listening = {} /\ pending = [p \in Sources |-> {}] /\ given = {}

Begin ==
    /\ mode = "new" /\ mode' = "started"
    /\ listening' = Sources
    /\ UNCHANGED <<pending, given>>

Move ==
    /\ mode = "started"
    /\ listening' \in (SUBSET Sources) \ {{}}
    /\ UNCHANGED <<mode, pending, given>>

TakeIn(p) ==
    /\ p \in listening
    /\ \E events \in SUBSET Events : pending' = [pending EXCEPT ![p] = @ \cup events]
    /\ UNCHANGED <<mode, listening, given>>

(* An event of which there is another copy stays pending.                  *)
Report(p) ==
    /\ \E e \in pending[p] :
        /\ given' = given \cup {e}
        /\ pending' = [pending EXCEPT ![p] = @ \ {e}] \/ pending' = pending
    /\ UNCHANGED <<mode, listening>>

End ==
    /\ mode = "started" /\ mode' = "stopped"
    /\ listening' = {}
    /\ UNCHANGED <<pending, given>>

Next == Begin \/ Move \/ End \/ \E p \in Sources : TakeIn(p) \/ Report(p)

Steps == Init /\ [][Next]_sourceVars

(* Again and again nothing is pending that was not reported.               *)
Spec ==
    /\ Steps
    /\ []<>(UNION {pending[p] : p \in Sources} \subseteq given)
=============================================================================
