----------------------------- MODULE LedgerStore -----------------------------
(***************************************************************************)
(* The SQLite ledger store of an hpcore node (ledger/sqlite.cpp) and the  *)
(* ledger writer that drives it (spec §4.G; the writer is not in src/).   *)
(*                                                                         *)
(* Two databases: the primary shard holds the ledger table (seq_no is its *)
(* PRIMARY KEY) and the hp version table (initialize_ledger_db,           *)
(* create_hp_table); the raw shard holds the users, inputs and outputs    *)
(* tables (initialize_ledger_raw_db).  A node opens each database, checks *)
(* with is_table_exists whether it is blank and, if so, creates its       *)
(* tables and indexes one statement at a time (each one autocommits).     *)
(* A round's record is saved in a transaction on the primary shard        *)
(* (get_last_ledger, the seq check, insert_ledger_row, commit) and then   *)
(* its side rows in a transaction on the raw shard (insert_user_record,   *)
(* insert_user_input_record, insert_user_output_record, commit); a failed *)
(* step rolls its transaction back.  The process can crash at any point:  *)
(* what a transaction left uncommitted is gone, the rest persists.        *)
(*                                                                         *)
(* Abstraction: a ledger record keeps seq_no, prev_ledger_hash, its       *)
(* content (the kinds of side rows its round has) and ledger_hash; the    *)
(* side rows of a record are one row per kind; SQL statements succeed or  *)
(* fail nondeterministically, except where the schema decides.            *)
(***************************************************************************)
EXTENDS Integers, Sequences, FiniteSets

CONSTANTS
    Contents,     \* round contents: the kinds of side rows a round has
    RawKinds,     \* "users", "inputs", "outputs"
    MaxSeq,       \* bound: ledger sequence numbers explored
    GenesisHash   \* prev_ledger_hash of the first ledger

ASSUME LedgerConstantsAssumption ==
    /\ Contents \subseteq SUBSET RawKinds
    /\ MaxSeq \in Nat

(* The statements initialize_ledger_db and create_hp_table run, in order. *)
PrimaryInit ==
    <<"ledger", "idx_ledger_time", "idx_ledger_ledger_hash",
      "hp", "hp.ledger_version">>

(* The statements initialize_ledger_raw_db runs, in order.                *)
RawInit ==
    <<"users", "idx_users_ledger_seq_no", "idx_users_pubkey",
      "inputs", "idx_inputs_ledger_seq_no", "idx_inputs_hash",
      "idx_inputs_ledger_seq_no_pubkey",
      "outputs", "idx_outputs_ledger_seq_no", "idx_outputs_hash",
      "idx_outputs_ledger_seq_no_pubkey">>

Indexes ==
    {"idx_ledger_time", "idx_ledger_ledger_hash",
     "idx_users_ledger_seq_no", "idx_users_pubkey",
     "idx_inputs_ledger_seq_no", "idx_inputs_hash",
     "idx_inputs_ledger_seq_no_pubkey",
     "idx_outputs_ledger_seq_no", "idx_outputs_hash",
     "idx_outputs_ledger_seq_no_pubkey"}

NoRow == [none |-> TRUE]

LedgerHash(prev, s, c) == <<prev, s, c>>

(* A ledger record as the writer builds it (ledger_hash over its fields). *)
Record(s, prev, c) ==
    [seq |-> s, prev |-> prev, content |-> c, hash |-> LedgerHash(prev, s, c)]

GenesisRow == [seq |-> 0, hash |-> GenesisHash]

RawRow == [seq : 1..MaxSeq, kind : RawKinds]

VARIABLES
    pc,         \* writer: "down", "initP", "openR", "initR", "idle", or a save step
    step,       \* the next statement of the database initialisation
    schemaP,    \* tables, indexes and rows created in the primary shard
    schemaR,    \* tables and indexes created in the raw shard
    ledgerTbl,  \* committed ledger table: seq_no -> record
    pendP,      \* the ledger row inserted in the open primary transaction
    rawTbl,     \* committed raw rows: row -> how many copies
    pendR,      \* the raw rows inserted in the open raw transaction
    cur         \* the round being saved: [seq, content], or NoRow

vars == <<pc, step, schemaP, schemaR, ledgerTbl, pendP, rawTbl, pendR, cur>>

-----------------------------------------------------------------------------
(* is_table_exists: a prepare or step error reads as "no such table".    *)
IsTableExists(schema, t) == IF t \in schema THEN BOOLEAN ELSE {FALSE}

(* create_table is CREATE TABLE IF NOT EXISTS; create_index is a plain    *)
(* CREATE [UNIQUE] INDEX, which fails when the index exists; insert_row   *)
(* and every statement can fail in exec_sql.                              *)
CreateOk(schema, obj) ==
    IF obj \in Indexes /\ obj \in schema THEN {FALSE} ELSE BOOLEAN

(* SELECT_LAST_LEDGER orders by seq_no: the row with the largest key.     *)
LastSeqNo(S) == CHOOSE x \in S : \A y \in S : y <= x

(* get_last_ledger: the last row, or -1 both on an empty table and on an  *)
(* error, which the writer can only take as the genesis ledger.           *)
GetLastLedger ==
    {GenesisRow} \cup
      IF DOMAIN ledgerTbl = {} THEN {}
      ELSE {ledgerTbl[LastSeqNo(DOMAIN ledgerTbl)]}

\* Fault variant: the writer does not check the new seq_no against the last row.
SeqFollowsLastUnchecked(last) == TRUE

(* The builder fails unless the new seq_no follows the last row's.        *)
SeqFollowsLast(last) == cur.seq = last.seq + 1

(* insert_ledger_row: a duplicate PRIMARY KEY seq_no fails the step.      *)
InsertLedgerRow(r) == IF r.seq \in DOMAIN ledgerTbl THEN {FALSE} ELSE BOOLEAN

\* Fault variant: the writer goes on when COMMIT of the primary shard failed.
SaveContinuesIgnoringCommit(ok) == TRUE

(* The writer goes on to the raw shard only when commit_transaction       *)
(* returned 0.                                                            *)
SaveContinues(ok) == ok

\* Fault variant: the side rows are bound to the next seq_no.
InsertUserRecordsOffByOne(r) == {[seq |-> r.seq + 1, kind |-> k] : k \in r.content}

(* insert_user_record, insert_user_input_record, insert_user_output_record: *)
(* the side rows of a round, bound to its seq_no.                         *)
InsertUserRecords(r) == {[seq |-> r.seq, kind |-> k] : k \in r.content}

-----------------------------------------------------------------------------
Init ==
    /\ pc = "down"
    /\ step = 1
    /\ schemaP = {}
    /\ schemaR = {}
    /\ ledgerTbl = <<>>
    /\ pendP = NoRow
    /\ rawTbl = [x \in RawRow |-> 0]
    /\ pendR = {}
    /\ cur = NoRow

(* open_db on the primary shard; a blank one is initialised.              *)
OpenLedgerDb ==
    /\ pc = "down"
    /\ \E exists \in IsTableExists(schemaP, "ledger") :
         pc' = IF exists THEN "openR" ELSE "initP"
    /\ step' = 1
    /\ UNCHANGED <<schemaP, schemaR, ledgerTbl, pendP, rawTbl, pendR, cur>>

(* initialize_ledger_db and create_hp_table, one statement per step; a    *)
(* failing statement is fatal and the node exits.                         *)
InitLedgerDb ==
    /\ pc = "initP"
    /\ \E ok \in CreateOk(schemaP, PrimaryInit[step]) :
         IF ok
           THEN /\ schemaP' = schemaP \cup {PrimaryInit[step]}
                /\ pc' = IF step = Len(PrimaryInit) THEN "openR" ELSE "initP"
                /\ step' = IF step = Len(PrimaryInit) THEN 1 ELSE step + 1
           ELSE /\ pc' = "down"
                /\ step' = 1
                /\ UNCHANGED schemaP
    /\ UNCHANGED <<schemaR, ledgerTbl, pendP, rawTbl, pendR, cur>>

(* open_db on the raw shard; a blank one is initialised.                  *)
OpenRawDb ==
    /\ pc = "openR"
    /\ \E exists \in IsTableExists(schemaR, "users") :
         pc' = IF exists THEN "idle" ELSE "initR"
    /\ step' = 1
    /\ UNCHANGED <<schemaP, schemaR, ledgerTbl, pendP, rawTbl, pendR, cur>>

(* initialize_ledger_raw_db, one statement per step.                      *)
InitRawDb ==
    /\ pc = "initR"
    /\ \E ok \in CreateOk(schemaR, RawInit[step]) :
         IF ok
           THEN /\ schemaR' = schemaR \cup {RawInit[step]}
                /\ pc' = IF step = Len(RawInit) THEN "idle" ELSE "initR"
                /\ step' = IF step = Len(RawInit) THEN 1 ELSE step + 1
           ELSE /\ pc' = "down"
                /\ step' = 1
                /\ UNCHANGED schemaR
    /\ UNCHANGED <<schemaP, ledgerTbl, pendP, rawTbl, pendR, cur>>

(* A stage-3 commit hands the writer record seq_no s with content c;      *)
(* begin_transaction on the primary shard (a failure returns with nothing *)
(* changed).                                                              *)
SaveBegin(s, c) ==
    /\ pc = "idle"
    /\ pc' = "insertLedger"
    /\ cur' = [seq |-> s, content |-> c]
    /\ UNCHANGED <<step, schemaP, schemaR, ledgerTbl, pendP, rawTbl, pendR>>

\* Fault variant: a failed seq check or insert_ledger_row rolls the primary
\* transaction back, but the writer still goes on to the raw shard.
InsertLedgerIgnoringFailure ==
    /\ pc = "insertLedger"
    /\ \E last \in GetLastLedger :
         LET r == Record(cur.seq, last.hash, cur.content) IN
         \E ok \in InsertLedgerRow(r) :
           IF SeqFollowsLast(last) /\ ok
             THEN /\ pendP' = r
                  /\ pc' = "commitP"
             ELSE /\ pc' = "beginR"
                  /\ UNCHANGED pendP
    /\ UNCHANGED <<step, schemaP, schemaR, ledgerTbl, rawTbl, pendR, cur>>

(* get_last_ledger, the seq check and insert_ledger_row with              *)
(* prev_ledger_hash from the last row; any failure rolls back.            *)
InsertLedger ==
    /\ pc = "insertLedger"
    /\ \E last \in GetLastLedger :
         LET r == Record(cur.seq, last.hash, cur.content) IN
         \E ok \in InsertLedgerRow(r) :
           IF SeqFollowsLast(last) /\ ok
             THEN /\ pendP' = r
                  /\ pc' = "commitP"
                  /\ UNCHANGED cur
             ELSE /\ pc' = "idle"
                  /\ cur' = NoRow
                  /\ UNCHANGED pendP
    /\ UNCHANGED <<step, schemaP, schemaR, ledgerTbl, rawTbl, pendR>>

(* commit_transaction on the primary shard; a failed COMMIT is rolled     *)
(* back.                                                                  *)
CommitLedger ==
    /\ pc = "commitP"
    /\ \E ok \in BOOLEAN :
         /\ ledgerTbl' = IF ok
                           THEN [i \in DOMAIN ledgerTbl \cup {pendP.seq} |->
                                   IF i = pendP.seq THEN pendP ELSE ledgerTbl[i]]
                           ELSE ledgerTbl
         /\ pc' = IF SaveContinues(ok) THEN "beginR" ELSE "idle"
         /\ cur' = IF SaveContinues(ok) THEN cur ELSE NoRow
    /\ pendP' = NoRow
    /\ UNCHANGED <<step, schemaP, schemaR, rawTbl, pendR>>

(* begin_transaction on the raw shard.                                    *)
BeginRaw ==
    /\ pc = "beginR"
    /\ \/ pc' = "insertRaw" /\ UNCHANGED cur
       \/ pc' = "idle" /\ cur' = NoRow
    /\ UNCHANGED <<step, schemaP, schemaR, ledgerTbl, pendP, rawTbl, pendR>>

(* The users, inputs and outputs of the round, each through its prepared  *)
(* statement; any failing insert rolls the raw transaction back.          *)
InsertRaw ==
    /\ pc = "insertRaw"
    /\ \/ /\ pendR' = InsertUserRecords(cur)
          /\ pc' = "commitR"
          /\ UNCHANGED cur
       \/ /\ cur.content # {}
          /\ pc' = "idle"
          /\ cur' = NoRow
          /\ UNCHANGED pendR
    /\ UNCHANGED <<step, schemaP, schemaR, ledgerTbl, pendP, rawTbl>>

(* commit_transaction on the raw shard; the save is over either way.      *)
CommitRaw ==
    /\ pc = "commitR"
    /\ \E ok \in BOOLEAN :
         rawTbl' = IF ok
                     THEN [x \in RawRow |-> rawTbl[x] + (IF x \in pendR THEN 1 ELSE 0)]
                     ELSE rawTbl
    /\ pendR' = {}
    /\ pc' = "idle"
    /\ cur' = NoRow
    /\ UNCHANGED <<step, schemaP, schemaR, ledgerTbl, pendP>>

(* The process dies: open transactions are lost, committed data and the  *)
(* schema stay.                                                           *)
Crash ==
    /\ pc # "down"
    /\ pc' = "down"
    /\ step' = 1
    /\ pendP' = NoRow
    /\ pendR' = {}
    /\ cur' = NoRow
    /\ UNCHANGED <<schemaP, schemaR, ledgerTbl, rawTbl>>

Next ==
    \/ OpenLedgerDb
    \/ InitLedgerDb
    \/ OpenRawDb
    \/ InitRawDb
    \/ \E s \in 1..MaxSeq, c \in Contents : SaveBegin(s, c)
    \/ InsertLedger
    \/ CommitLedger
    \/ BeginRaw
    \/ InsertRaw
    \/ CommitRaw
    \/ Crash

Spec == Init /\ [][Next]_vars


-----------------------------------------------------------------------------
TypeOK ==
    /\ pc \in {"down", "initP", "openR", "initR", "idle", "insertLedger",
               "commitP", "beginR", "insertRaw", "commitR"}
    /\ step \in 1..Len(RawInit)
    /\ DOMAIN ledgerTbl \subseteq 1..MaxSeq
    /\ \A i \in DOMAIN ledgerTbl :
         /\ ledgerTbl[i].seq = i
         /\ ledgerTbl[i].content \in Contents
    /\ rawTbl \in [RawRow -> Nat]
    /\ pendR \subseteq RawRow
    /\ cur \in [seq : 1..MaxSeq, content : Contents] \cup {NoRow}

(***************************************************************************)
(* The raw shard never runs ahead of the primary one: every committed     *)
(* side row belongs to a committed ledger record whose round has a row of *)
(* that kind, and it is there once.  This needs the writer to reach the   *)
(* raw shard only after the primary COMMIT succeeded, and the seq_no      *)
(* PRIMARY KEY and the seq check to keep a retried or stale round from    *)
(* saving the side rows of a seq_no twice, through crashes and failures.  *)
(***************************************************************************)
RawRowsMatchLedger ==
    \A x \in RawRow :
        rawTbl[x] > 0 =>
            /\ x.seq \in DOMAIN ledgerTbl
            /\ x.kind \in ledgerTbl[x.seq].content
            /\ rawTbl[x] = 1

(***************************************************************************)
(* A save writes side rows only for the ledger record it has just         *)
(* committed: a step that adds a side row adds it for the newest record   *)
(* of the ledger table, never for an older one.  A round retried after a  *)
(* crash, or a stale round whose seq_no was taken meanwhile, must be      *)
(* stopped by the seq check and insert_ledger_row before the raw shard;   *)
(* its side rows would otherwise be bound to a record of another round.   *)
(***************************************************************************)
RawRowAddedForNewest ==
    \A x \in RawRow :
        rawTbl'[x] > rawTbl[x] =>
            /\ x.seq \in DOMAIN ledgerTbl
            /\ \A s \in DOMAIN ledgerTbl : s <= x.seq

RawRowsOnlyForNewest == [][RawRowAddedForNewest]_vars

(* The committed ledger table, seen as a sequence, is the ledger of the   *)
(* abstract specification.                                                *)
Abs == INSTANCE AbsLedger WITH ledger <- ledgerTbl

(***************************************************************************)
(* The committed ledger table implements the abstract ledger: it is       *)
(* always the records 1..n, each with the hash of the one before as its   *)
(* prev_ledger_hash, and it only grows by one record at a time, whatever  *)
(* get_last_ledger returns, whatever statement fails and wherever the     *)
(* process crashes (spec §7 property 3).                                  *)
(***************************************************************************)
LedgerRefinement == Abs!Spec

(***************************************************************************)
(* Spec §6 and §7: the side tables of a committed ledger hold its users,  *)
(* inputs and outputs.  Whenever the writer is not in the middle of a     *)
(* save, every committed record has its side rows.                        *)
(***************************************************************************)
LedgerRowsHaveRawData ==
    pc \in {"down", "idle"} =>
        \A s \in DOMAIN ledgerTbl : \A k \in ledgerTbl[s].content :
            rawTbl[[seq |-> s, kind |-> k]] > 0

(***************************************************************************)
(* Spec §6: the ledger database has the ledger_version row and the        *)
(* indexes on time, ledger_hash, ledger_seq_no, hash and                  *)
(* (ledger_seq_no, pubkey).  Whenever the writer is ready to save, both   *)
(* shards have every table, index and row their initialisation creates.   *)
(***************************************************************************)
SchemaComplete ==
    pc = "idle" =>
        /\ \A i \in 1..Len(PrimaryInit) : PrimaryInit[i] \in schemaP
        /\ \A i \in 1..Len(RawInit) : RawInit[i] \in schemaR

=============================================================================
