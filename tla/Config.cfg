\* Config under the lock, patch application with its failures, rekey,
\* role changes, exits and crashes: type, and no runtime-only role reaches hp.cfg.
CONSTANTS
    n1 = n1
    n2 = n2
    k1 = k1
    k2 = k2
    a = a
    Procs <- MCProcs
    Keys <- MCKeys
    Peers <- MCPeers
    Vers <- MCVers
    PatchContents <- MCPatchContents
    InitFile <- MCInitFile
    MaxSyncs = 3
SPECIFICATION Spec
INVARIANT TypeOK
INVARIANT PersistedRoleStable
