-------------------------- MODULE LedgerStoreProofs --------------------------
(***************************************************************************)
(* Proofs about the ledger store: type correctness, that the raw shard    *)
(* never runs ahead of the primary one, and that the committed ledger     *)
(* table implements the abstract ledger.                                  *)
(***************************************************************************)
EXTENDS LedgerStore, SequenceTheorems, TLAPS

SaveSteps == {"insertLedger", "commitP", "beginR", "insertRaw", "commitR"}
RawSteps == {"beginR", "insertRaw", "commitR"}

(* The ledger table is a function whose keys are 1..n.                    *)
LedgerContiguous ==
    /\ ledgerTbl = [i \in DOMAIN ledgerTbl |-> ledgerTbl[i]]
    /\ \E n \in 0..MaxSeq : DOMAIN ledgerTbl = 1..n

(* During a save the writer holds a round to save.                        *)
SaveHasRound == pc \in SaveSteps => cur \in [seq : 1..MaxSeq, content : Contents]

(* The row of an open primary transaction is the abstract ledger's next   *)
(* record.                                                                *)
PendingIsNext ==
    pc = "commitP" =>
        /\ cur.seq = Len(ledgerTbl) + 1
        /\ pendP = Abs!NewRecord(ledgerTbl, cur.content)

(* While the side rows are saved, the round's record is committed and no  *)
(* side row of its seq_no is.                                             *)
RawRoundCommitted ==
    pc \in RawSteps =>
        /\ cur.seq \in DOMAIN ledgerTbl
        /\ ledgerTbl[cur.seq].content = cur.content
        /\ \A k \in RawKinds : rawTbl[[seq |-> cur.seq, kind |-> k]] = 0

(* The rows of an open raw transaction are the round's side rows.         *)
PendingRawRows == pendR = IF pc = "commitR" THEN InsertUserRecords(cur) ELSE {}

(* During the primary shard's initialisation the statement counter is   *)
(* within its statements.                                                 *)
InitStepInRange == pc = "initP" => step \in 1..Len(PrimaryInit)

IInv ==
    /\ TypeOK
    /\ InitStepInRange
    /\ LedgerContiguous
    /\ SaveHasRound
    /\ PendingIsNext
    /\ RawRoundCommitted
    /\ PendingRawRows
    /\ RawRowsMatchLedger

-----------------------------------------------------------------------------
(* The last row of a table keyed 1..n is row n.                           *)
LEMMA LastSeqNoInterval ==
    ASSUME NEW n \in Nat, n >= 1
    PROVE  LastSeqNo(1..n) = n
<1>1. \E x \in 1..n : \A y \in 1..n : y <= x
  BY n \in 1..n
<1>2. LastSeqNo(1..n) \in 1..n /\ \A y \in 1..n : y <= LastSeqNo(1..n)
  BY <1>1 DEF LastSeqNo
<1>3. QED
  BY <1>2

(* A function keyed 1..n is a sequence of length n.                      *)
LEMMA ContiguousIsSeq ==
    ASSUME NEW f, NEW n \in Nat, DOMAIN f = 1..n,
           f = [i \in DOMAIN f |-> f[i]]
    PROVE  /\ f \in Seq({f[i] : i \in 1..n})
           /\ Len(f) = n
<1>1. f \in [1..n -> {f[i] : i \in 1..n}]
  OBVIOUS
<1>2. f \in Seq({f[i] : i \in 1..n})
  BY <1>1
<1>3. QED
  BY <1>2

(* The ledger table as a sequence: its length is its last key.            *)
LEMMA LedgerSeq ==
    ASSUME LedgerContiguous
    PROVE  \E n \in 0..MaxSeq :
              /\ DOMAIN ledgerTbl = 1..n
              /\ ledgerTbl \in Seq({ledgerTbl[i] : i \in 1..n})
              /\ Len(ledgerTbl) = n
<1>1. PICK n \in 0..MaxSeq : DOMAIN ledgerTbl = 1..n
  BY DEF LedgerContiguous
<1>2. n \in Nat
  BY LedgerConstantsAssumption
<1>3. QED
  BY <1>1, <1>2, ContiguousIsSeq DEF LedgerContiguous

LEMMA InitIInv == Init => IInv
<1> SUFFICES ASSUME Init PROVE IInv
  OBVIOUS
<1>1. TypeOK
  BY LedgerConstantsAssumption DEF Init, TypeOK, RawInit
<1>2. LedgerContiguous
  BY LedgerConstantsAssumption DEF Init, LedgerContiguous
<1>3. QED
  BY <1>1, <1>2 DEF Init, IInv, InitStepInRange, SaveHasRound, PendingIsNext, RawRoundCommitted,
     PendingRawRows, RawRowsMatchLedger, SaveSteps, RawSteps, InitStepInRange

LEMMA OpenLedgerDbIInv ==
    ASSUME IInv, OpenLedgerDb
    PROVE  IInv'
BY DEF OpenLedgerDb, IsTableExists, RawInit, PrimaryInit, IInv, TypeOK, LedgerContiguous, SaveHasRound, PendingIsNext, RawRoundCommitted,
     PendingRawRows, RawRowsMatchLedger, SaveSteps, RawSteps, InitStepInRange

LEMMA InitLedgerDbIInv ==
    ASSUME IInv, InitLedgerDb
    PROVE  IInv'
<1>1. Len(PrimaryInit) = 5 /\ Len(RawInit) = 11
  BY DEF PrimaryInit, RawInit
<1>2. step \in 1..5
  BY <1>1 DEF IInv, InitStepInRange, InitLedgerDb
<1>3. PICK ok \in BOOLEAN :
        IF ok
          THEN /\ schemaP' = schemaP \cup {PrimaryInit[step]}
               /\ pc' = IF step = Len(PrimaryInit) THEN "openR" ELSE "initP"
               /\ step' = IF step = Len(PrimaryInit) THEN 1 ELSE step + 1
          ELSE /\ pc' = "down"
               /\ step' = 1
               /\ UNCHANGED schemaP
  BY DEF InitLedgerDb, CreateOk
<1>4. /\ UNCHANGED <<schemaR, ledgerTbl, pendP, rawTbl, pendR, cur>>
      /\ pc = "initP"
  BY DEF InitLedgerDb
<1>5. /\ pc' \in {"down", "initP", "openR"}
      /\ step' \in 1..11
      /\ pc' = "initP" => step' \in 1..5
  <2>1. CASE ok
    BY <1>1, <1>2, <1>3, <2>1
  <2>2. CASE ~ok
    BY <1>3, <2>2
  <2>3. QED
    BY <2>1, <2>2
<1>a. pc' \notin SaveSteps /\ pc' \notin RawSteps /\ pc' # "commitP" /\ pc' # "commitR"
  BY <1>5 DEF SaveSteps, RawSteps
<1>6. QED
  BY <1>1, <1>4, <1>5, <1>a DEF IInv, TypeOK, LedgerContiguous, SaveHasRound, PendingIsNext, RawRoundCommitted,
     PendingRawRows, RawRowsMatchLedger, SaveSteps, RawSteps, InitStepInRange

LEMMA OpenRawDbIInv ==
    ASSUME IInv, OpenRawDb
    PROVE  IInv'
BY DEF OpenRawDb, IsTableExists, RawInit, IInv, TypeOK, LedgerContiguous, SaveHasRound, PendingIsNext, RawRoundCommitted,
     PendingRawRows, RawRowsMatchLedger, SaveSteps, RawSteps, InitStepInRange

LEMMA InitRawDbIInv ==
    ASSUME IInv, InitRawDb
    PROVE  IInv'
<1>1. Len(PrimaryInit) = 5 /\ Len(RawInit) = 11
  BY DEF PrimaryInit, RawInit
<1>2. step \in 1..11
  BY <1>1 DEF IInv, TypeOK
<1>3. PICK ok \in BOOLEAN :
        IF ok
          THEN /\ schemaR' = schemaR \cup {RawInit[step]}
               /\ pc' = IF step = Len(RawInit) THEN "idle" ELSE "initR"
               /\ step' = IF step = Len(RawInit) THEN 1 ELSE step + 1
          ELSE /\ pc' = "down"
               /\ step' = 1
               /\ UNCHANGED schemaR
  BY DEF InitRawDb, CreateOk
<1>4. /\ UNCHANGED <<schemaP, ledgerTbl, pendP, rawTbl, pendR, cur>>
      /\ pc = "initR"
  BY DEF InitRawDb
<1>5. pc' \in {"down", "initR", "idle"} /\ step' \in 1..11
  <2>1. CASE ok
    BY <1>1, <1>2, <1>3, <2>1
  <2>2. CASE ~ok
    BY <1>3, <2>2
  <2>3. QED
    BY <2>1, <2>2
<1>a. pc' \notin SaveSteps /\ pc' \notin RawSteps /\ pc' # "commitP" /\ pc' # "commitR"
  BY <1>5 DEF SaveSteps, RawSteps
<1>6. QED
  BY <1>1, <1>4, <1>5, <1>a DEF IInv, TypeOK, LedgerContiguous, SaveHasRound, PendingIsNext, RawRoundCommitted,
     PendingRawRows, RawRowsMatchLedger, SaveSteps, RawSteps, InitStepInRange

LEMMA SaveBeginIInv ==
    ASSUME IInv, NEW s \in 1..MaxSeq, NEW c \in Contents, SaveBegin(s, c)
    PROVE  IInv'
BY DEF SaveBegin, IInv, TypeOK, LedgerContiguous, SaveHasRound, PendingIsNext, RawRoundCommitted,
     PendingRawRows, RawRowsMatchLedger, SaveSteps, RawSteps, InitStepInRange

LEMMA BeginRawIInv ==
    ASSUME IInv, BeginRaw
    PROVE  IInv'
BY DEF BeginRaw, IInv, TypeOK, LedgerContiguous, SaveHasRound, PendingIsNext, RawRoundCommitted,
     PendingRawRows, RawRowsMatchLedger, SaveSteps, RawSteps, InitStepInRange

LEMMA CrashIInv ==
    ASSUME IInv, Crash
    PROVE  IInv'
BY DEF Crash, IInv, TypeOK, LedgerContiguous, SaveHasRound, PendingIsNext, RawRoundCommitted,
     PendingRawRows, RawRowsMatchLedger, SaveSteps, RawSteps, InitStepInRange

(* A function with no keys is the empty sequence.                        *)
LEMMA EmptyFcn ==
    ASSUME NEW f, DOMAIN f = {}, f = [i \in DOMAIN f |-> f[i]]
    PROVE  f = <<>>
OBVIOUS

(* insert_ledger_row is handed the abstract ledger's next record: the row *)
(* get_last_ledger returns is the last one (or, on an empty table, the    *)
(* genesis), and a genesis read on a non-empty table fails on the key.    *)
LEMMA InsertLedgerIInv ==
    ASSUME IInv, InsertLedger
    PROVE  IInv'
<1>0. /\ pc = "insertLedger"
      /\ cur \in [seq : 1..MaxSeq, content : Contents]
      /\ pendR = {}
      /\ UNCHANGED <<step, schemaP, schemaR, ledgerTbl, rawTbl, pendR>>
  BY DEF InsertLedger, IInv, SaveHasRound, SaveSteps, PendingRawRows
<1>1. PICK n \in 0..MaxSeq : DOMAIN ledgerTbl = 1..n /\ Len(ledgerTbl) = n
  BY LedgerSeq DEF IInv
<1>2. PICK last \in GetLastLedger :
        \E ok \in InsertLedgerRow(Record(cur.seq, last.hash, cur.content)) :
          IF SeqFollowsLast(last) /\ ok
            THEN /\ pendP' = Record(cur.seq, last.hash, cur.content)
                 /\ pc' = "commitP"
                 /\ UNCHANGED cur
            ELSE /\ pc' = "idle"
                 /\ cur' = NoRow
                 /\ UNCHANGED pendP
  BY DEF InsertLedger
<1> DEFINE r == Record(cur.seq, last.hash, cur.content)
<1>3. PICK ok \in InsertLedgerRow(r) :
          IF SeqFollowsLast(last) /\ ok
            THEN /\ pendP' = r
                 /\ pc' = "commitP"
                 /\ UNCHANGED cur
            ELSE /\ pc' = "idle"
                 /\ cur' = NoRow
                 /\ UNCHANGED pendP
  BY <1>2
<1>4. CASE SeqFollowsLast(last) /\ ok
  <2>1. pendP' = r /\ pc' = "commitP" /\ cur' = cur
    BY <1>3, <1>4
  <2>2. ok => r.seq \notin DOMAIN ledgerTbl
    BY DEF InsertLedgerRow
  <2>3. cur.seq = last.seq + 1
    BY <1>4 DEF SeqFollowsLast
  <2>4. cur.seq = n + 1 /\ r = Abs!NewRecord(ledgerTbl, cur.content)
    <3>1. CASE last = GenesisRow
      <4>1. cur.seq = 1
        BY <2>3, <3>1 DEF GenesisRow
      <4>2. n = 0
        BY <1>1, <1>4, <2>2, <4>1 DEF Record
      <4>3. ledgerTbl = <<>>
        BY <1>1, <4>2, EmptyFcn DEF IInv, LedgerContiguous
      <4>4. QED
        BY <3>1, <4>1, <4>2, <4>3 DEF Record, GenesisRow, Abs!NewRecord,
           Abs!LastHash, Abs!LedgerHash, LedgerHash
    <3>2. CASE last # GenesisRow
      <4>1. DOMAIN ledgerTbl # {} /\ last = ledgerTbl[LastSeqNo(DOMAIN ledgerTbl)]
        BY <3>2 DEF GetLastLedger
      <4>2. n >= 1 /\ n \in Nat
        BY <1>1, <4>1
      <4>3. last = ledgerTbl[n]
        BY <1>1, <4>1, <4>2, LastSeqNoInterval
      <4>4. last.seq = n
        BY <1>1, <4>2, <4>3 DEF IInv, TypeOK
      <4>5. ledgerTbl # <<>>
        BY <4>1
      <4>6. QED
        BY <1>1, <2>3, <4>3, <4>4, <4>5 DEF Record, Abs!NewRecord,
           Abs!LastHash, Abs!LedgerHash, LedgerHash
    <3>3. QED
      BY <3>1, <3>2
  <2>5. QED
    BY <1>0, <1>1, <2>1, <2>4 DEF IInv, TypeOK, LedgerContiguous, SaveHasRound, PendingIsNext, RawRoundCommitted,
       PendingRawRows, RawRowsMatchLedger, SaveSteps, RawSteps, InitStepInRange
<1>5. CASE ~(SeqFollowsLast(last) /\ ok)
  <2>1. pc' = "idle" /\ cur' = NoRow /\ pendP' = pendP
    BY <1>3, <1>5
  <2>2. QED
    BY <1>0, <2>1 DEF IInv, TypeOK, LedgerContiguous, SaveHasRound, PendingIsNext, RawRoundCommitted,
       PendingRawRows, RawRowsMatchLedger, SaveSteps, RawSteps, InitStepInRange
<1>6. QED
  BY <1>4, <1>5

(* A committed primary transaction appends record n+1, of which the raw  *)
(* shard has no row yet.                                                  *)
LEMMA CommitLedgerIInv ==
    ASSUME IInv, CommitLedger
    PROVE  IInv'
<1>0. /\ pc = "commitP"
      /\ cur \in [seq : 1..MaxSeq, content : Contents]
      /\ pendR = {}
      /\ pendP' = NoRow
      /\ UNCHANGED <<step, schemaP, schemaR, rawTbl, pendR>>
  BY DEF CommitLedger, IInv, SaveHasRound, SaveSteps, PendingRawRows
<1>1. PICK n \in 0..MaxSeq : DOMAIN ledgerTbl = 1..n /\ Len(ledgerTbl) = n
  BY LedgerSeq DEF IInv
<1>2. /\ cur.seq = n + 1
      /\ pendP.seq = n + 1
      /\ pendP.content = cur.content
  BY <1>0, <1>1 DEF IInv, PendingIsNext, Abs!NewRecord
<1>3. PICK ok \in BOOLEAN :
        /\ ledgerTbl' = IF ok
                          THEN [i \in DOMAIN ledgerTbl \cup {pendP.seq} |->
                                  IF i = pendP.seq THEN pendP ELSE ledgerTbl[i]]
                          ELSE ledgerTbl
        /\ pc' = IF SaveContinues(ok) THEN "beginR" ELSE "idle"
        /\ cur' = IF SaveContinues(ok) THEN cur ELSE NoRow
  BY DEF CommitLedger
<1>4. CASE ok
  <2>1. /\ ledgerTbl' = [i \in 1..(n + 1) |-> IF i = n + 1 THEN pendP ELSE ledgerTbl[i]]
        /\ pc' = "beginR"
        /\ cur' = cur
    BY <1>1, <1>2, <1>3, <1>4 DEF SaveContinues
  <2>2. n + 1 \in 1..MaxSeq
    BY <1>0, <1>2
  <2>3. \A k \in RawKinds : rawTbl[[seq |-> n + 1, kind |-> k]] = 0
    <3>1. \A k \in RawKinds : [seq |-> n + 1, kind |-> k] \in RawRow
      BY <2>2 DEF RawRow
    <3>2. QED
      BY <1>1, <3>1 DEF IInv, TypeOK, RawRowsMatchLedger
  <2>4. LedgerContiguous'
    BY <2>1, <2>2 DEF LedgerContiguous
  <2>5. TypeOK'
    BY <1>0, <1>1, <1>2, <2>1, <2>2 DEF IInv, TypeOK
  <2>6. RawRoundCommitted'
    BY <1>0, <1>2, <2>1, <2>3 DEF RawRoundCommitted, RawSteps
  <2>7. RawRowsMatchLedger'
    BY <1>0, <1>1, <2>1 DEF IInv, RawRowsMatchLedger
  <2>8. QED
    BY <1>0, <2>1, <2>4, <2>5, <2>6, <2>7 DEF IInv, SaveHasRound, SaveSteps,
       PendingIsNext, PendingRawRows, InitStepInRange
<1>5. CASE ~ok
  <2>1. ledgerTbl' = ledgerTbl /\ pc' = "idle" /\ cur' = NoRow
    BY <1>3, <1>5 DEF SaveContinues
  <2>2. QED
    BY <1>0, <2>1 DEF IInv, TypeOK, LedgerContiguous, SaveHasRound, PendingIsNext, RawRoundCommitted,
       PendingRawRows, RawRowsMatchLedger, SaveSteps, RawSteps, InitStepInRange
<1>6. QED
  BY <1>4, <1>5

LEMMA InsertRawIInv ==
    ASSUME IInv, InsertRaw
    PROVE  IInv'
<1>0. /\ pc = "insertRaw"
      /\ cur \in [seq : 1..MaxSeq, content : Contents]
      /\ pendR = {}
      /\ UNCHANGED <<step, schemaP, schemaR, ledgerTbl, pendP, rawTbl>>
  BY DEF InsertRaw, IInv, SaveHasRound, SaveSteps, PendingRawRows
<1>1. CASE pendR' = InsertUserRecords(cur) /\ pc' = "commitR" /\ cur' = cur
  <2>1. InsertUserRecords(cur) \subseteq RawRow
    BY <1>0, LedgerConstantsAssumption DEF InsertUserRecords, RawRow
  <2>2. QED
    BY <1>0, <1>1, <2>1 DEF IInv, TypeOK, LedgerContiguous, SaveHasRound, PendingIsNext, RawRoundCommitted,
       PendingRawRows, RawRowsMatchLedger, SaveSteps, RawSteps, InitStepInRange
<1>2. CASE pc' = "idle" /\ cur' = NoRow /\ pendR' = pendR
  BY <1>0, <1>2 DEF IInv, TypeOK, LedgerContiguous, SaveHasRound, PendingIsNext, RawRoundCommitted,
       PendingRawRows, RawRowsMatchLedger, SaveSteps, RawSteps, InitStepInRange
<1>3. QED
  BY <1>1, <1>2 DEF InsertRaw

(* A committed raw transaction adds one copy of each side row of the     *)
(* round, which had none.                                                 *)
LEMMA CommitRawIInv ==
    ASSUME IInv, CommitRaw
    PROVE  IInv'
<1>0. /\ pc = "commitR"
      /\ cur \in [seq : 1..MaxSeq, content : Contents]
      /\ pendR = InsertUserRecords(cur)
      /\ pendR' = {} /\ pc' = "idle" /\ cur' = NoRow
      /\ UNCHANGED <<step, schemaP, schemaR, ledgerTbl, pendP>>
  BY DEF CommitRaw, IInv, SaveHasRound, SaveSteps, PendingRawRows
<1>1. PICK ok \in BOOLEAN :
        rawTbl' = IF ok
                    THEN [x \in RawRow |-> rawTbl[x] + (IF x \in pendR THEN 1 ELSE 0)]
                    ELSE rawTbl
  BY DEF CommitRaw
<1>2. /\ cur.seq \in DOMAIN ledgerTbl
      /\ ledgerTbl[cur.seq].content = cur.content
      /\ \A k \in RawKinds : rawTbl[[seq |-> cur.seq, kind |-> k]] = 0
  BY <1>0 DEF IInv, RawRoundCommitted, RawSteps
<1>3. \A x \in pendR : x.seq = cur.seq /\ x.kind \in cur.content /\ x.kind \in RawKinds
  BY <1>0, LedgerConstantsAssumption DEF InsertUserRecords
<1>4. \A x \in pendR : x = [seq |-> cur.seq, kind |-> x.kind]
  BY <1>0 DEF InsertUserRecords
<1>5. \A x \in RawRow : x \in pendR => rawTbl[x] = 0
  BY <1>2, <1>3, <1>4
<1>6. CASE ok
  <2>1. rawTbl' = [x \in RawRow |-> rawTbl[x] + (IF x \in pendR THEN 1 ELSE 0)]
    BY <1>1, <1>6
  <2>2. TypeOK'
    BY <1>0, <2>1 DEF IInv, TypeOK
  <2>3. RawRowsMatchLedger'
    BY <1>0, <1>2, <1>3, <1>5, <2>1 DEF IInv, TypeOK, RawRowsMatchLedger
  <2>4. QED
    BY <1>0, <2>2, <2>3 DEF IInv, LedgerContiguous, SaveHasRound, PendingIsNext,
       RawRoundCommitted, PendingRawRows, SaveSteps, RawSteps, InitStepInRange
<1>7. CASE ~ok
  BY <1>0, <1>1, <1>7 DEF IInv, TypeOK, LedgerContiguous, SaveHasRound, PendingIsNext, RawRoundCommitted,
       PendingRawRows, RawRowsMatchLedger, SaveSteps, RawSteps, InitStepInRange
<1>8. QED
  BY <1>6, <1>7

(* Appending to a function keyed 1..n adds key n+1.                       *)
LEMMA AppendContiguous ==
    ASSUME NEW f, NEW n \in Nat, NEW e, DOMAIN f = 1..n,
           f = [i \in DOMAIN f |-> f[i]]
    PROVE  Append(f, e) = [i \in 1..(n + 1) |-> IF i = n + 1 THEN e ELSE f[i]]
<1> DEFINE S == {f[i] : i \in 1..n} \cup {e}
<1>1. f \in Seq(S) /\ Len(f) = n
  <2>1. f \in [1..n -> S]
    OBVIOUS
  <2>2. QED
    BY <2>1
<1>2. e \in S
  OBVIOUS
<1> DEFINE t == [i \in 1..(n + 1) |-> IF i = n + 1 THEN e ELSE f[i]]
<1>3. t \in Seq(S) /\ Len(t) = n + 1
  <2>1. t \in [1..(n + 1) -> S]
    OBVIOUS
  <2>2. QED
    BY <2>1
<1>4. /\ Append(f, e) \in Seq(S)
      /\ Len(Append(f, e)) = n + 1
      /\ \A i \in 1..n : Append(f, e)[i] = f[i]
      /\ Append(f, e)[n + 1] = e
  BY <1>1, <1>2, AppendProperties
<1>5. \A i \in 1..Len(Append(f, e)) : Append(f, e)[i] = t[i]
  BY <1>4
<1>6. QED
  BY <1>3, <1>4, <1>5, SeqEqual

LEMMA NextIInv ==
    ASSUME IInv, [Next]_vars
    PROVE  IInv'
<1>1. CASE UNCHANGED vars
  BY <1>1 DEF vars, IInv, TypeOK, LedgerContiguous, SaveHasRound, PendingIsNext,
     RawRoundCommitted, PendingRawRows, RawRowsMatchLedger, InitStepInRange
<1>2. CASE Next
  BY <1>2, OpenLedgerDbIInv, InitLedgerDbIInv, OpenRawDbIInv, InitRawDbIInv,
     SaveBeginIInv, InsertLedgerIInv, CommitLedgerIInv, BeginRawIInv,
     InsertRawIInv, CommitRawIInv, CrashIInv DEF Next
<1>3. QED
  BY <1>1, <1>2

(* A step of the store is a step of the abstract ledger or leaves the     *)
(* committed ledger table alone: only a successful primary COMMIT changes *)
(* it, and then it appends the abstract ledger's next record.             *)
LEMMA RefinementStep ==
    ASSUME IInv, [Next]_vars
    PROVE  [Abs!Next]_ledgerTbl
<1>1. CASE CommitLedger
  <2>0. /\ pc = "commitP"
        /\ cur \in [seq : 1..MaxSeq, content : Contents]
    BY <1>1 DEF CommitLedger, IInv, SaveHasRound, SaveSteps
  <2>1. PICK n \in 0..MaxSeq : DOMAIN ledgerTbl = 1..n /\ Len(ledgerTbl) = n
    BY LedgerSeq DEF IInv
  <2>2. /\ cur.seq = n + 1
        /\ pendP = Abs!NewRecord(ledgerTbl, cur.content)
        /\ pendP.seq = n + 1
    BY <2>0, <2>1 DEF IInv, PendingIsNext, Abs!NewRecord
  <2>3. PICK ok \in BOOLEAN :
          ledgerTbl' = IF ok
                         THEN [i \in DOMAIN ledgerTbl \cup {pendP.seq} |->
                                 IF i = pendP.seq THEN pendP ELSE ledgerTbl[i]]
                         ELSE ledgerTbl
    BY <1>1 DEF CommitLedger
  <2>4. CASE ok
    <3>1. ledgerTbl' = [i \in 1..(n + 1) |-> IF i = n + 1 THEN pendP ELSE ledgerTbl[i]]
      BY <2>1, <2>2, <2>3, <2>4
    <3>2. ledgerTbl' = Append(ledgerTbl, Abs!NewRecord(ledgerTbl, cur.content))
      BY <2>1, <2>2, <3>1, AppendContiguous, LedgerConstantsAssumption
         DEF IInv, LedgerContiguous
    <3>3. Len(ledgerTbl) < MaxSeq /\ cur.content \in Contents
      BY <2>0, <2>1, <2>2, LedgerConstantsAssumption
    <3>4. QED
      BY <3>2, <3>3 DEF Abs!Next, Abs!AppendLedger
  <2>5. CASE ~ok
    BY <2>3, <2>5
  <2>6. QED
    BY <2>4, <2>5
<1>2. CASE ~CommitLedger
  <2>1. UNCHANGED ledgerTbl
    BY <1>2 DEF Next, vars, OpenLedgerDb, InitLedgerDb, OpenRawDb, InitRawDb,
       SaveBegin, InsertLedger, BeginRaw, InsertRaw, CommitRaw, Crash
  <2>2. QED
    BY <2>1
<1>3. QED
  BY <1>1, <1>2

-----------------------------------------------------------------------------
(***************************************************************************)
(* Every reachable state is well typed: the ledger table is keyed by      *)
(* seq_no within the bound, the side tables hold row counts, and a saved  *)
(* round has a seq_no and content (insert_ledger_row, insert_user_record, *)
(* commit_transaction, the initialisation statements).                    *)
(***************************************************************************)
THEOREM TypeCorrect == Spec => []TypeOK
<1>1. Init => IInv
  BY InitIInv
<1>2. IInv /\ [Next]_vars => IInv'
  BY NextIInv
<1>3. IInv => TypeOK
  BY DEF IInv
<1>4. QED
  BY <1>1, <1>2, <1>3, PTL DEF Spec

(***************************************************************************)
(* For every bound and every set of round contents: every committed side  *)
(* row of the raw shard belongs to a committed ledger record whose round  *)
(* has a row of that kind, once, through failing statements and crashes;  *)
(* the writer reaches the raw shard only after the primary COMMIT, and    *)
(* the seq check and PRIMARY KEY keep a seq_no from being saved twice.    *)
(***************************************************************************)
THEOREM RawRowsMatchLedgerHolds == Spec => []RawRowsMatchLedger
<1>1. Init => IInv
  BY InitIInv
<1>2. IInv /\ [Next]_vars => IInv'
  BY NextIInv
<1>3. IInv => RawRowsMatchLedger
  BY DEF IInv
<1>4. QED
  BY <1>1, <1>2, <1>3, PTL DEF Spec

(***************************************************************************)
(* For every bound: the committed ledger table of sqlite.cpp, driven by   *)
(* the writer through get_last_ledger, the seq check, insert_ledger_row   *)
(* and commit_transaction, implements the abstract hash-chained ledger,   *)
(* whatever statement fails and wherever the process crashes.             *)
(***************************************************************************)
THEOREM LedgerRefinementHolds == Spec => LedgerRefinement
<1>1. Init => Abs!Init
  BY DEF Init, Abs!Init
<1>2. Init => IInv
  BY InitIInv
<1>3. IInv /\ [Next]_vars => IInv'
  BY NextIInv
<1>4. IInv /\ [Next]_vars => [Abs!Next]_ledgerTbl
  BY RefinementStep
<1>5. QED
  BY <1>1, <1>2, <1>3, <1>4, PTL DEF Spec, LedgerRefinement, Abs!Spec


-----------------------------------------------------------------------------
(***************************************************************************)
(* Side rows only for the newest record.  The step that adds side rows is *)
(* the raw COMMIT, and it adds the rows of the round being saved; so the  *)
(* invariant needs, besides IInv, that while the side rows are saved the  *)
(* round's seq_no is the last key of the ledger table.  The primary       *)
(* COMMIT makes it so (the round's row is the next record), and nothing   *)
(* changes the ledger table or the round until the save is over.          *)
(***************************************************************************)
RawRoundIsNewest ==
    pc \in RawSteps => \A s \in DOMAIN ledgerTbl : s <= cur.seq

NInv == IInv /\ RawRoundIsNewest

LEMMA CommitLedgerNewest ==
    ASSUME IInv, CommitLedger
    PROVE  RawRoundIsNewest'
<1>0. /\ pc = "commitP"
      /\ cur \in [seq : 1..MaxSeq, content : Contents]
  BY DEF CommitLedger, IInv, SaveHasRound, SaveSteps
<1>1. PICK n \in 0..MaxSeq : DOMAIN ledgerTbl = 1..n /\ Len(ledgerTbl) = n
  BY LedgerSeq DEF IInv
<1>2. cur.seq = n + 1 /\ pendP.seq = n + 1
  BY <1>0, <1>1 DEF IInv, PendingIsNext, Abs!NewRecord
<1>3. PICK ok \in BOOLEAN :
        /\ ledgerTbl' = IF ok
                          THEN [i \in DOMAIN ledgerTbl \cup {pendP.seq} |->
                                  IF i = pendP.seq THEN pendP ELSE ledgerTbl[i]]
                          ELSE ledgerTbl
        /\ pc' = IF SaveContinues(ok) THEN "beginR" ELSE "idle"
        /\ cur' = IF SaveContinues(ok) THEN cur ELSE NoRow
  BY DEF CommitLedger
<1>4. CASE ok
  <2>1. DOMAIN ledgerTbl' = 1..(n + 1) /\ cur' = cur
    BY <1>1, <1>2, <1>3, <1>4 DEF SaveContinues
  <2>2. QED
    BY <1>0, <1>2, <2>1 DEF RawRoundIsNewest
<1>5. CASE ~ok
  BY <1>3, <1>5 DEF SaveContinues, RawRoundIsNewest, RawSteps
<1>6. QED
  BY <1>4, <1>5

LEMMA NextNInv ==
    ASSUME NInv, [Next]_vars
    PROVE  NInv'
<1>1. IInv'
  BY NextIInv DEF NInv
<1> SUFFICES RawRoundIsNewest'
  BY <1>1 DEF NInv
<1>2. CASE CommitLedger
  BY <1>2, CommitLedgerNewest DEF NInv
<1>3. CASE BeginRaw \/ InsertRaw
  BY <1>3 DEF BeginRaw, InsertRaw, NInv, RawRoundIsNewest, RawSteps
<1>4. CASE \/ OpenLedgerDb \/ InitLedgerDb \/ OpenRawDb \/ InitRawDb
           \/ \E s \in 1..MaxSeq, c \in Contents : SaveBegin(s, c)
           \/ InsertLedger \/ CommitRaw \/ Crash
  <2>1. pc' \notin RawSteps
    BY <1>4 DEF OpenLedgerDb, InitLedgerDb, OpenRawDb, InitRawDb, SaveBegin,
       InsertLedger, CommitRaw, Crash, RawSteps
  <2>2. QED
    BY <2>1 DEF RawRoundIsNewest
<1>5. CASE UNCHANGED vars
  BY <1>5 DEF vars, NInv, RawRoundIsNewest
<1>6. QED
  BY <1>2, <1>3, <1>4, <1>5 DEF Next

(* Only the raw COMMIT adds side rows, and it adds those of the round.    *)
LEMMA RawRowStep ==
    ASSUME NInv, [Next]_vars
    PROVE  [RawRowAddedForNewest]_vars
<1>1. CASE CommitRaw
  <2>0. /\ pc = "commitR"
        /\ cur \in [seq : 1..MaxSeq, content : Contents]
        /\ pendR = InsertUserRecords(cur)
        /\ UNCHANGED ledgerTbl
        /\ rawTbl \in [RawRow -> Nat]
    BY <1>1 DEF CommitRaw, NInv, IInv, TypeOK, SaveHasRound, SaveSteps, PendingRawRows
  <2>1. /\ cur.seq \in DOMAIN ledgerTbl
        /\ \A s \in DOMAIN ledgerTbl : s <= cur.seq
    BY <2>0 DEF NInv, IInv, RawRoundCommitted, RawRoundIsNewest, RawSteps
  <2>2. \A x \in pendR : x.seq = cur.seq
    BY <2>0 DEF InsertUserRecords
  <2>3. PICK ok \in BOOLEAN :
          rawTbl' = IF ok
                      THEN [x \in RawRow |-> rawTbl[x] + (IF x \in pendR THEN 1 ELSE 0)]
                      ELSE rawTbl
    BY <1>1 DEF CommitRaw
  <2>4. \A x \in RawRow : rawTbl'[x] > rawTbl[x] => x \in pendR
    BY <2>0, <2>3
  <2>5. QED
    BY <2>0, <2>1, <2>2, <2>4 DEF RawRowAddedForNewest
<1>2. CASE ~CommitRaw
  <2>1. UNCHANGED rawTbl
    BY <1>2 DEF Next, vars, OpenLedgerDb, InitLedgerDb, OpenRawDb, InitRawDb,
       SaveBegin, InsertLedger, CommitLedger, BeginRaw, InsertRaw, Crash
  <2>2. rawTbl \in [RawRow -> Nat]
    BY DEF NInv, IInv, TypeOK
  <2>3. QED
    BY <2>1, <2>2 DEF RawRowAddedForNewest
<1>3. QED
  BY <1>1, <1>2

(***************************************************************************)
(* For every bound: a save of the ledger writer adds side rows to the raw *)
(* shard only for the newest record of the ledger table, the one its      *)
(* primary COMMIT has just added, never for an older record, whatever     *)
(* statement fails and wherever the process crashes (commit_transaction,  *)
(* insert_user_record and the seq check before insert_ledger_row).        *)
(***************************************************************************)
THEOREM RawRowsOnlyForNewestHolds == Spec => RawRowsOnlyForNewest
<1>1. Init => NInv
  BY InitIInv DEF Init, NInv, RawRoundIsNewest, RawSteps
<1>2. NInv /\ [Next]_vars => NInv'
  BY NextNInv
<1>3. NInv /\ [Next]_vars => [RawRowAddedForNewest]_vars
  BY RawRowStep
<1>4. QED
  BY <1>1, <1>2, <1>3, PTL DEF Spec, RawRowsOnlyForNewest
=============================================================================
