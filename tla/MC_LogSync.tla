---------------------------- MODULE MC_LogSync ----------------------------
(* Model-checking instance of LogSync: two full-history peers with logs   *)
(* of different lengths, an agreed chain of two ledgers, and initial      *)
(* local logs that are empty, behind, forked at the first or the second   *)
(* seq_no, or ahead of the ledger.                                        *)
EXTENDS LogSync, TLC

CONSTANTS p1, p2, g, r1, r2, x

MCPeers == {p1, p2}
MCRoots == {g, r1, r2, x}
MCCanon == <<r1, r2>>
MCPeerLen == (p1 :> 2) @@ (p2 :> 1)
MCInitIndex == {<<>>, <<x>>, <<r1, x>>, <<r1, r2, x>>}

====
