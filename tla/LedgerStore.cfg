\* The ledger store through crashes and failing statements: side rows match
\* the committed ledger, and the ledger table refines the abstract ledger.
CONSTANTS
    RawKinds <- MCRawKinds
    Contents <- MCContents
    MaxSeq = 3
    GenesisHash = g
SPECIFICATION Spec
INVARIANT TypeOK
INVARIANT RawRowsMatchLedger
PROPERTY LedgerRefinement
PROPERTY RawRowsOnlyForNewest
