\* Violation run: a node that ran into a failing CREATE INDEX (or crashed)
\* after the ledger table was created restarts on a shard without indexes
\* or version row, because is_table_exists(ledger) skips initialisation.
CONSTANTS
    RawKinds <- MCRawKinds
    Contents <- MCContents
    MaxSeq = 3
    GenesisHash = g
SPECIFICATION Spec
INVARIANT SchemaComplete
