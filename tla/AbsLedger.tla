------------------------------ MODULE AbsLedger ------------------------------
(***************************************************************************)
(* What the ledger store promises to the consensus round (spec §3, §4.G): *)
(* the committed ledger is a sequence of records numbered 1, 2, ... in    *)
(* which every record names the hash of the one before it (the genesis    *)
(* hash for the first), and it only ever grows by one record at a time.   *)
(*                                                                         *)
(* A ledger_hash is H(prev_ledger_hash || ... || seq_no || ...); H is      *)
(* abstracted to an injective function of the fields the model keeps.    *)
(***************************************************************************)
EXTENDS Integers, Sequences

CONSTANTS
    Contents,     \* the round contents a record can commit
    MaxSeq,       \* bound: ledger records explored
    GenesisHash   \* the prev_ledger_hash of the first record

VARIABLE ledger

LedgerHash(prev, s, c) == <<prev, s, c>>

LastHash(l) == IF l = <<>> THEN GenesisHash ELSE l[Len(l)].hash

(* The record a round with content c appends to the ledger l.             *)
NewRecord(l, c) ==
    [seq |-> Len(l) + 1, prev |-> LastHash(l), content |-> c,
     hash |-> LedgerHash(LastHash(l), Len(l) + 1, c)]

Init == ledger = <<>>

AppendLedger(c) ==
    /\ Len(ledger) < MaxSeq
    /\ ledger' = Append(ledger, NewRecord(ledger, c))

Next == \E c \in Contents : AppendLedger(c)

Spec == Init /\ [][Next]_ledger

=============================================================================
