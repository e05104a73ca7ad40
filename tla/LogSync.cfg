\* Safety and termination of full-history log sync.
CONSTANTS
    p1 = p1
    p2 = p2
    g = g
    r1 = r1
    r2 = r2
    x = x
    Empty = Empty
    Genesis = g
    Peers <- MCPeers
    Roots <- MCRoots
    Canon <- MCCanon
    PeerLen <- MCPeerLen
    InitIndex <- MCInitIndex
    ABANDON_THRESHOLD = 2
    MaxResponses = 2
    MaxRetargets = 2
SPECIFICATION FairSpec
INVARIANT TypeOK
INVARIANT JoiningPointOnLedger
PROPERTY LogSyncTerminates
