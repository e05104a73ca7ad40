\* A patch applied at run time is also persisted to hp.cfg.
\* (the comment on apply_patch_config): contract sections agree.
CONSTANTS
    n1 = n1
    n2 = n2
    k1 = k1
    k2 = k2
    a = a
    Procs <- MCProcs
    Keys <- MCKeys
    Peers <- MCPeers
    Vers <- MCVers
    PatchContents <- MCPatchContents
    InitFile <- MCInitFile
    MaxSyncs = 3
SPECIFICATION Spec

INVARIANT ConfigFilesConsistent
