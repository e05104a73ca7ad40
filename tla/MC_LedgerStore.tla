---------------------------- MODULE MC_LedgerStore ----------------------------
(* Model-checking instance of LedgerStore: three ledgers, rounds with all *)
(* three kinds of side rows or with users only.                           *)
EXTENDS LedgerStore

MCRawKinds == {"users", "inputs", "outputs"}

MCContents == {{"users", "inputs", "outputs"}, {"users"}}

=============================================================================
