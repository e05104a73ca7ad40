------------------------------ MODULE MC_Config ------------------------------
(* Two hpcore processes started on one contract directory, two signing    *)
(* keys (rekey swaps between them), two contract versions, one peer       *)
(* address; consensus may sync a new version, a UNL of both keys, or an   *)
(* invalid patch, at most three times.                                    *)
EXTENDS Config

CONSTANTS n1, n2, k1, k2, a

MCProcs == {n1, n2}
MCKeys == {k1, k2}
MCPeers == {a}
MCVers == {0, 1}
MCPatchContents ==
    {[unl |-> {k1}, ver |-> 1], [unl |-> {k1, k2}, ver |-> 0], BadPatch}
MCInitFile ==
    [key |-> k1, contract |-> [unl |-> {k1}, ver |-> 0],
     role |-> "validator", peers |-> {}]
=============================================================================
