\* Accepted proposals equal what their signer signed, node_nonce included.
CONSTANTS
    n1 = n1
    b = b
    Honest <- MCHonest
    Keys <- MCKeys
    UNL <- MCUNL
    Vals <- MCVals
    Rewritable <- MCRewritable
    Proposals <- MCProposals
    RoundTime = 1
    MaxTime = 4
    MaxMsgs = 2
SPECIFICATION Spec
INVARIANT AcceptedProposalIntact
