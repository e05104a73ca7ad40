------------------------- MODULE MC_ProposalTrust -------------------------
(* One honest UNL node, one peer outside the UNL that forwards and may   *)
(* rewrite messages, two honest proposals that differ in their state     *)
(* hash, binary field values, roundtime 1 ms and a clock that runs past  *)
(* the 3 * roundtime window.                                             *)
EXTENDS ProposalTrust

CONSTANTS n1, b

MCHonest == {n1}
MCKeys == {n1, b}
MCUNL == {n1}
MCVals == {0, 1}
MCRewritable == {"node_nonce", "state_hash", "output_sig"}
MCBase == [f \in ProposalFields |-> 0]
MCProposals == {MCBase, [MCBase EXCEPT !["state_hash"] = 1]}
====
