\* Violation run: a record committed to the primary shard whose side rows
\* the raw shard never got (a failed BEGIN, insert or COMMIT there, or a
\* crash between the two commits).
CONSTANTS
    RawKinds <- MCRawKinds
    Contents <- MCContents
    MaxSeq = 3
    GenesisHash = g
SPECIFICATION Spec
INVARIANT LedgerRowsHaveRawData
