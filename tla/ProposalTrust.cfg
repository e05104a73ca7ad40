\* Authenticity of accepted proposals, and no honest proposal dropped.
CONSTANTS
    n1 = n1
    b = b
    Honest <- MCHonest
    Keys <- MCKeys
    UNL <- MCUNL
    Vals <- MCVals
    Rewritable <- MCRewritable
    Proposals <- MCProposals
    RoundTime = 1
    MaxTime = 4
    MaxMsgs = 2
SPECIFICATION Spec
INVARIANT TypeOK
INVARIANT AcceptedConsensusFieldsSigned
INVARIANT NoFalseRejection
