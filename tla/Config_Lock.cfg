\* The single-instance guard: hp.cfg keeps a running node's key and role while
\* the node runs, across patch writes that close a descriptor of hp.cfg.
CONSTANTS
    n1 = n1
    n2 = n2
    k1 = k1
    k2 = k2
    a = a
    Procs <- MCProcs
    Keys <- MCKeys
    Peers <- MCPeers
    Vers <- MCVers
    PatchContents <- MCPatchContents
    InitFile <- MCInitFile
    MaxSyncs = 3
SPECIFICATION Spec

INVARIANT PersistedNodeSectionStable
