--------------------------- MODULE MCSafeExecutor ---------------------------
(* Concurrent executions of one wallet.  The liveness run configures every *)
(* optional stage (index.ts:712-775) for two executions; the safety run    *)
(* has three executions, which a stale release needs, and one stage of     *)
(* each kind: one that only throws, one that only rejects, one that does   *)
(* both.                                                                   *)
EXTENDS SafeExecutor, TLC

AllChecks == <<"build", "gas_limit", "gas_cap", "preview_gate", "preview_sim",
               "final_sim", "broadcast_gate">>
FewChecks == <<"gas_limit", "final_sim", "broadcast_gate">>
MCMaxPending == 3
MCPendingNonces == 0 .. MCMaxPending
Symmetry == Permutations(Execs) \cup Permutations(Gens)
=============================================================================
