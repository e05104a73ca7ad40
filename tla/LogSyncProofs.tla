--------------------------- MODULE LogSyncProofs ---------------------------
(***************************************************************************)
(* Proofs about full-history log sync, for every value of the constants:  *)
(* type correctness, and that the joining point the syncer requests logs  *)
(* from always lies on the local ledger's chain.                          *)
(***************************************************************************)
EXTENDS LogSync, SequenceTheorems, TLAPS

(* The joining point invariant is inductive together with the types.     *)
IInv == TypeOK /\ JoiningPointOnLedger

\* A sequence_hash that is genesis or an agreed point of the local ledger.
OnLedger(m) == m.seq <= Len(ledger) /\ m.hash = LedgerRoot(m.seq)

-----------------------------------------------------------------------------
(* The roots a log index or the local ledger gives at any of its seqs.    *)
LEMMA RootsTyped ==
    ASSUME TypeOK
    PROVE  /\ \A s \in 0..Len(index) : IndexRoot(index, s) \in Roots
           /\ \A s \in 0..Len(ledger) : LedgerRoot(s) \in Roots
BY ConstantsAssumption DEF TypeOK, IndexRoot, LedgerRoot

(***************************************************************************)
(* set_joining_point_for_fork, started at or below the last seq of both  *)
(* the index and the ledger, leaves a well-typed index and chooses a      *)
(* joining point on the ledger: genesis, or the highest agreeing seq.     *)
(***************************************************************************)
LEMMA ForkCorrect ==
    ASSUME TypeOK, NEW start \in Nat,
           start <= Len(index), start <= Len(ledger)
    PROVE  /\ SetJoiningPointForFork(start).index \in Seq(Roots)
           /\ SetJoiningPointForFork(start).min \in SeqHash
           /\ OnLedger(SetJoiningPointForFork(start).min)
<1>1. \/ SetJoiningPointForFork(start) = [index |-> index, min |-> GenesisRec]
      \/ SetJoiningPointForFork(start) = [index |-> <<>>, min |-> GenesisRec]
      \/ \E k \in 1..start :
            SetJoiningPointForFork(start)
              = [index |-> SubSeq(index, 1, k),
                 min   |-> [seq |-> k, hash |-> LedgerRoot(k)]]
  BY Zenon DEF SetJoiningPointForFork
<1>2. GenesisRec \in SeqHash /\ OnLedger(GenesisRec)
  BY ConstantsAssumption DEF GenesisRec, SeqHash, OnLedger, LedgerRoot
<1>3. ASSUME NEW k \in 1..start
      PROVE  /\ SubSeq(index, 1, k) \in Seq(Roots)
             /\ [seq |-> k, hash |-> LedgerRoot(k)] \in SeqHash
             /\ OnLedger([seq |-> k, hash |-> LedgerRoot(k)])
  <2>1. \A i \in 1..k : index[i] \in Roots
    BY DEF TypeOK
  <2>2. SubSeq(index, 1, k) \in Seq(Roots)
    BY <2>1, SubSeqProperties
  <2>3. k \in 0..Len(ledger)
    BY DEF TypeOK
  <2>4. LedgerRoot(k) \in Roots
    BY <2>3, RootsTyped
  <2>5. QED
    BY <2>2, <2>4 DEF SeqHash, OnLedger
<1>4. CASE SetJoiningPointForFork(start) = [index |-> index, min |-> GenesisRec]
  BY <1>2, <1>4 DEF TypeOK
<1>5. CASE SetJoiningPointForFork(start) = [index |-> <<>>, min |-> GenesisRec]
  BY <1>2, <1>5, EmptySeq
<1>6. CASE \E k \in 1..start :
              SetJoiningPointForFork(start)
                = [index |-> SubSeq(index, 1, k),
                   min   |-> [seq |-> k, hash |-> LedgerRoot(k)]]
  <2>1. PICK k \in 1..start :
              SetJoiningPointForFork(start)
                = [index |-> SubSeq(index, 1, k),
                   min   |-> [seq |-> k, hash |-> LedgerRoot(k)]]
    BY <1>6
  <2>2. QED
    BY <1>3, <2>1
<1>7. QED
  BY <1>1, <1>4, <1>5, <1>6

(***************************************************************************)
(* get_verified_min_record leaves a well-typed index, answers 0 or 1, and *)
(* sets a joining point on the ledger (or keeps the current one when it   *)
(* answers 1).                                                            *)
(***************************************************************************)
LEMMA VerifyCorrect ==
    ASSUME TypeOK, NEW troot
    PROVE  LET v == GetVerifiedMinRecord(troot) IN
           /\ v.res \in {0, 1}
           /\ v.index \in Seq(Roots)
           /\ v.min \in SeqHash
           /\ v.res = 0 => OnLedger(v.min)
           /\ v.res = 1 => v.min = minRec
<1> DEFINE li      == Len(index)
           ll      == Len(ledger)
           lastIdx == [seq |-> li, hash |-> IndexRoot(index, li)]
           lastLed == [seq |-> ll, hash |-> LedgerRoot(ll)]
           v       == GetVerifiedMinRecord(troot)
           Fork(s) == [res   |-> 0,
                       index |-> SetJoiningPointForFork(s).index,
                       min   |-> SetJoiningPointForFork(s).min]
           Good(w) == /\ w.res \in {0, 1}
                      /\ w.index \in Seq(Roots)
                      /\ w.min \in SeqHash
                      /\ w.res = 0 => OnLedger(w.min)
                      /\ w.res = 1 => w.min = minRec
<1>0. li \in Nat /\ ll \in Nat
  BY DEF TypeOK
<1>1. ASSUME NEW s \in Nat, s <= li, s <= ll
      PROVE  Good(Fork(s))
  BY <1>1, ForkCorrect
<1>2. CASE li = 0 \/ ll = 0
  <2>1. v = [res |-> 0, index |-> index, min |-> GenesisRec]
    BY <1>2 DEF GetVerifiedMinRecord
  <2>2. QED
    BY <2>1, ConstantsAssumption DEF TypeOK, GenesisRec, SeqHash, OnLedger, LedgerRoot
<1>3. CASE ~(li = 0 \/ ll = 0) /\ lastIdx = lastLed
  <2>1. v = IF IndexRoot(index, li) = troot
              THEN [res |-> 1, index |-> index, min |-> minRec]
              ELSE [res |-> 0, index |-> SubSeq(index, 1, ll), min |-> lastLed]
    BY <1>3 DEF GetVerifiedMinRecord
  <2>2. SubSeq(index, 1, ll) \in Seq(Roots)
    BY <1>0, <1>3, SubSeqProperties DEF TypeOK
  <2>3. lastLed \in SeqHash /\ OnLedger(lastLed)
    BY <1>0, RootsTyped DEF SeqHash, OnLedger
  <2>4. QED
    BY <2>1, <2>2, <2>3 DEF TypeOK
<1>4. CASE ~(li = 0 \/ ll = 0) /\ lastIdx # lastLed /\ li = ll
  <2>1. v = Fork(li - 1)
    BY <1>4 DEF GetVerifiedMinRecord
  <2>2. QED
    BY <1>0, <1>1, <1>4, <2>1
<1>5. CASE ~(li = 0 \/ ll = 0) /\ lastIdx # lastLed /\ li # ll /\ ll > li
  <2>1. v = IF LedgerRoot(li) = lastIdx.hash
              THEN [res |-> 0, index |-> index, min |-> lastIdx]
              ELSE Fork(li - 1)
    BY <1>5 DEF GetVerifiedMinRecord
  <2>2. lastIdx \in SeqHash
    BY <1>0, RootsTyped DEF SeqHash
  <2>3. LedgerRoot(li) = lastIdx.hash => OnLedger(lastIdx)
    BY <1>0, <1>5 DEF OnLedger
  <2>4. QED
    BY <1>0, <1>1, <1>5, <2>1, <2>2, <2>3 DEF TypeOK
<1>6. CASE ~(li = 0 \/ ll = 0) /\ lastIdx # lastLed /\ li # ll /\ ~(ll > li)
  <2>1. v = Fork(ll - 1)
    BY <1>6 DEF GetVerifiedMinRecord
  <2>2. QED
    BY <1>0, <1>1, <1>6, <2>1
<1>7. QED
  BY <1>0, <1>2, <1>3, <1>4, <1>5, <1>6

\* Each peer's log is a sequence of roots of length PeerLen[p].
LEMMA PeerLogTyped ==
    ASSUME NEW p \in Peers
    PROVE  /\ PeerLog(p) \in Seq(Roots)
           /\ Len(PeerLog(p)) = PeerLen[p]
           /\ \A m \in Nat, n \in Int : n <= PeerLen[p] =>
                 SubSeq(PeerLog(p), m + 1, n) \in Seq(Roots)
<1>1. PeerLen[p] \in 0..Len(Canon)
  BY ConstantsAssumption
<1>2. \A i \in 1..PeerLen[p] : Canon[i] \in Roots
  BY <1>1, ConstantsAssumption
<1>3. PeerLog(p) \in Seq(Roots) /\ Len(PeerLog(p)) = PeerLen[p]
  BY <1>1, <1>2, SubSeqProperties DEF PeerLog
<1>4. ASSUME NEW m \in Nat, NEW n \in Int, n <= PeerLen[p]
      PROVE  SubSeq(PeerLog(p), m + 1, n) \in Seq(Roots)
  <2>1. \A i \in (m + 1)..n : PeerLog(p)[i] \in Roots
    BY <1>3, <1>4
  <2>2. QED
    BY <2>1, SubSeqProperties
<1>5. QED
  BY <1>3, <1>4

-----------------------------------------------------------------------------
(* The initial states satisfy the inductive invariant.                   *)
LEMMA InitIInv == Init => IInv
<1> SUFFICES ASSUME Init PROVE IInv
  OBVIOUS
<1>1. index \in Seq(Roots)
  BY ConstantsAssumption DEF Init
<1>2. ledger \in Seq(Roots)
  <2>1. PICK n \in 0..Len(Canon) : ledger = SubSeq(Canon, 1, n)
    BY DEF Init
  <2>2. \A i \in 1..n : Canon[i] \in Roots
    BY ConstantsAssumption
  <2>3. QED
    BY <2>1, <2>2, SubSeqProperties
<1>3. parentHash \in Roots
  BY <1>1, ConstantsAssumption DEF Init, IndexRoot
<1>4. NilRec \in SeqHash
  BY DEF NilRec, SeqHash
<1>5. Len(Canon) \in Nat
  BY ConstantsAssumption
<1>6. /\ batch \in Seq([min : SeqHash, recs : Seq(Roots)])
      /\ resps \in Seq([min : SeqHash, recs : Seq(Roots)])
  BY EmptySeq DEF Init
<1>7. /\ target \in 0..Len(Canon)
      /\ targetRoot \in Roots \cup {Empty}
      /\ minRec \in SeqHash
      /\ submissions \in 0..ABANDON_THRESHOLD
      /\ retargets \in 0..MaxRetargets
  BY <1>4, <1>5, ConstantsAssumption DEF Init
<1>10. /\ syncing \in BOOLEAN
       /\ requested \in BOOLEAN
       /\ processed \in BOOLEAN
       /\ spc \in {"idle", "check", "handle"}
       /\ cpc \in {"idle", "reset"}
       /\ reqs \subseteq [to : Peers, target : 1..Len(Canon), min : SeqHash]
  BY DEF Init
<1>11. TypeOK
  BY <1>1, <1>2, <1>3, <1>6, <1>7, <1>10 DEF TypeOK
<1>8. JoiningPointOnLedger
  BY DEF Init, JoiningPointOnLedger
<1>9. QED
  BY <1>11, <1>8 DEF IInv

-----------------------------------------------------------------------------
(***************************************************************************)
(* set_sync_target's locked part stores the joining point computed by     *)
(* get_verified_min_record, which lies on the (unchanged) ledger.         *)
(***************************************************************************)
LEMMA SetSyncTargetIInv ==
    ASSUME IInv, NEW t \in 1..Len(Canon), SetSyncTarget(t)
    PROVE  IInv'
<1> DEFINE v == GetVerifiedMinRecord(Canon[t])
<1>1. TypeOK /\ JoiningPointOnLedger
  BY DEF IInv
<1>2. /\ v.res \in {0, 1}
      /\ v.index \in Seq(Roots)
      /\ v.min \in SeqHash
      /\ v.res = 0 => OnLedger(v.min)
      /\ v.res = 1 => v.min = minRec
  BY <1>1, VerifyCorrect
<1>3. /\ index' = v.index /\ minRec' = v.min /\ target' = t
      /\ targetRoot' = Canon[t] /\ retargets' = retargets + 1
      /\ retargets < MaxRetargets
      /\ parentHash' = IF v.res = 1 THEN Canon[t] ELSE parentHash
      /\ cpc' = IF v.res = 0 THEN "reset" ELSE "idle"
      /\ UNCHANGED <<syncing, requested, submissions, ledger, localVars, netVars>>
  BY DEF SetSyncTarget
<1>4. Canon[t] \in Roots
  BY ConstantsAssumption
<1>5. TypeOK'
  BY <1>1, <1>2, <1>3, <1>4, ConstantsAssumption DEF TypeOK, localVars, netVars
<1>6. JoiningPointOnLedger'
  BY <1>1, <1>2, <1>3 DEF JoiningPointOnLedger, OnLedger, LedgerRoot
<1>7. QED
  BY <1>5, <1>6 DEF IInv

\* The unlocked tail of set_sync_target touches neither index nor ledger.
LEMMA SetSyncTargetResetIInv ==
    ASSUME IInv, SetSyncTargetReset
    PROVE  IInv'
<1>1. TypeOK /\ JoiningPointOnLedger
  BY DEF IInv
<1>2. syncing' \in BOOLEAN /\ requested' \in BOOLEAN
  BY Zenon DEF SetSyncTargetReset
<1>5. submissions' \in 0..ABANDON_THRESHOLD
  BY ConstantsAssumption DEF SetSyncTargetReset
<1>6. TypeOK'
  BY <1>1, <1>2, <1>5 DEF SetSyncTargetReset, TypeOK, fsVars, localVars, netVars
<1>3. JoiningPointOnLedger'
  BY <1>1 DEF SetSyncTargetReset, JoiningPointOnLedger, LedgerRoot
<1>4. QED
  BY <1>6, <1>3 DEF IInv

(***************************************************************************)
(* Appending the next agreed ledger keeps every recorded root, so a       *)
(* joining point on the ledger stays on it.                               *)
(***************************************************************************)
LEMMA LedgerAdvanceIInv ==
    ASSUME IInv, LedgerAdvance
    PROVE  IInv'
<1>1. TypeOK /\ JoiningPointOnLedger
  BY DEF IInv
<1>2. Canon[Len(ledger) + 1] \in Roots
  BY <1>1, ConstantsAssumption DEF LedgerAdvance, TypeOK
<1>3. /\ ledger' \in Seq(Roots)
      /\ Len(ledger') = Len(ledger) + 1
      /\ \A i \in 1..Len(ledger) : ledger'[i] = ledger[i]
  BY <1>1, <1>2, AppendProperties DEF LedgerAdvance, TypeOK
<1>4. TypeOK'
  BY <1>1, <1>3 DEF LedgerAdvance, TypeOK, ctxVars, fsVars, localVars, netVars
<1>5. JoiningPointOnLedger'
  BY <1>1, <1>3 DEF LedgerAdvance, JoiningPointOnLedger, LedgerRoot, TypeOK,
                    ctxVars, SeqHash, NilRec
<1>6. QED
  BY <1>4, <1>5 DEF IInv

\* A syncer pass with nothing due changes only the syncer's position.
LEMMA SyncerTickIInv ==
    ASSUME IInv, SyncerTick
    PROVE  IInv'
BY DEF IInv, SyncerTick, TypeOK, JoiningPointOnLedger, LedgerRoot,
       ctxVars, fsVars, netVars

\* A (re)submission stays within the threshold and sends a well-formed request.
LEMMA SyncerRequestIInv ==
    ASSUME IInv, SyncerRequest
    PROVE  IInv'
<1>1. TypeOK /\ JoiningPointOnLedger
  BY DEF IInv
<1>2. reqs' \subseteq [to : Peers, target : 1..Len(Canon), min : SeqHash]
  BY <1>1 DEF SyncerRequest, TypeOK
<1>3. submissions' \in 0..ABANDON_THRESHOLD
  BY <1>1, ConstantsAssumption DEF SyncerRequest, TypeOK
<1>4. TypeOK'
  BY <1>1, <1>2, <1>3 DEF SyncerRequest, TypeOK, fsVars
<1>5. JoiningPointOnLedger'
  BY <1>1 DEF SyncerRequest, JoiningPointOnLedger, LedgerRoot
<1>6. QED
  BY <1>4, <1>5 DEF IInv

\* Abandoning clears the joining point.
LEMMA SyncerAbandonIInv ==
    ASSUME IInv, SyncerAbandon
    PROVE  IInv'
<1>1. TypeOK
  BY DEF IInv
<1>2. NilRec \in SeqHash /\ 0 \in 0..Len(Canon) /\ 0 \in 0..ABANDON_THRESHOLD
  BY ConstantsAssumption DEF NilRec, SeqHash
<1>3. TypeOK'
  BY <1>1, <1>2 DEF SyncerAbandon, ClearTarget, TypeOK, fsVars, netVars
<1>4. JoiningPointOnLedger'
  BY DEF SyncerAbandon, ClearTarget, JoiningPointOnLedger
<1>5. QED
  BY <1>3, <1>4 DEF IInv

\* Splicing moves the collected responses into the syncer's local list.
LEMMA SyncerSpliceIInv ==
    ASSUME IInv, SyncerSplice
    PROVE  IInv'
<1>1. TypeOK /\ JoiningPointOnLedger
  BY DEF IInv
<1>2. TypeOK'
  BY <1>1, EmptySeq DEF SyncerSplice, TypeOK, ctxVars, fsVars
<1>3. JoiningPointOnLedger'
  BY <1>1 DEF SyncerSplice, JoiningPointOnLedger, LedgerRoot, ctxVars
<1>4. QED
  BY <1>2, <1>3 DEF IInv

\* Appending the records of a response keeps the index a sequence of roots.
LEMMA SyncerHandleIInv ==
    ASSUME IInv, SyncerHandle
    PROVE  IInv'
<1>1. TypeOK /\ JoiningPointOnLedger
  BY DEF IInv
<1>2. /\ Head(batch) \in [min : SeqHash, recs : Seq(Roots)]
      /\ Tail(batch) \in Seq([min : SeqHash, recs : Seq(Roots)])
  BY <1>1, HeadTailProperties DEF SyncerHandle, TypeOK
<1>3. index \o Head(batch).recs \in Seq(Roots)
  BY <1>1, <1>2, ConcatProperties DEF TypeOK
<1>4. index' \in Seq(Roots)
  BY <1>1, <1>3 DEF SyncerHandle, TypeOK
<1>5. TypeOK'
  BY <1>1, <1>2, <1>4 DEF SyncerHandle, TypeOK, ctxVars, netVars
<1>6. JoiningPointOnLedger'
  BY <1>1 DEF SyncerHandle, JoiningPointOnLedger, LedgerRoot, ctxVars
<1>7. QED
  BY <1>5, <1>6 DEF IInv

(***************************************************************************)
(* The re-verification at the end of the syncer's locked block either     *)
(* clears the target or stores a joining point computed by                *)
(* get_verified_min_record, which lies on the ledger.                     *)
(***************************************************************************)
LEMMA SyncerVerifyIInv ==
    ASSUME IInv, SyncerVerify
    PROVE  IInv'
<1> DEFINE v == GetVerifiedMinRecord(targetRoot)
<1>1. TypeOK /\ JoiningPointOnLedger
  BY DEF IInv
<1>2. /\ v.res \in {0, 1}
      /\ v.index \in Seq(Roots)
      /\ v.min \in SeqHash
      /\ v.res = 0 => OnLedger(v.min)
  BY <1>1, VerifyCorrect
<1>3. /\ processed' \in BOOLEAN
      /\ spc' \in {"idle", "check", "handle"}
      /\ UNCHANGED <<ledger, batch, cpc, retargets, netVars>>
  BY DEF SyncerVerify
<1>4. CASE syncing /\ processed /\ v.res = 1
  <2>1. ClearTarget /\ parentHash' = targetRoot /\ UNCHANGED index
    BY <1>4 DEF SyncerVerify
  <2>2. NilRec \in SeqHash /\ 0 \in 0..Len(Canon) /\ 0 \in 0..ABANDON_THRESHOLD
    BY ConstantsAssumption DEF NilRec, SeqHash
  <2>3. TypeOK'
    BY <1>1, <1>3, <2>1, <2>2 DEF ClearTarget, TypeOK, netVars
  <2>4. JoiningPointOnLedger'
    BY <2>1 DEF ClearTarget, JoiningPointOnLedger
  <2>5. QED
    BY <2>3, <2>4 DEF IInv
<1>5. CASE syncing /\ processed /\ v.res # 1
  <2>1. /\ index' = v.index /\ minRec' = v.min
        /\ UNCHANGED <<target, targetRoot, syncing, requested, submissions,
                       parentHash>>
    BY <1>5 DEF SyncerVerify
  <2>2. TypeOK'
    BY <1>1, <1>2, <1>3, <2>1 DEF TypeOK, netVars
  <2>3. JoiningPointOnLedger'
    BY <1>2, <1>3, <1>5, <2>1 DEF JoiningPointOnLedger, OnLedger, LedgerRoot
  <2>4. QED
    BY <2>2, <2>3 DEF IInv
<1>6. CASE ~(syncing /\ processed)
  <2>1. UNCHANGED <<ctxVars, fsVars>>
    BY <1>6 DEF SyncerVerify
  <2>2. TypeOK'
    BY <1>1, <1>3, <2>1 DEF TypeOK, ctxVars, fsVars, netVars
  <2>3. JoiningPointOnLedger'
    BY <1>1, <1>3, <2>1 DEF JoiningPointOnLedger, LedgerRoot, ctxVars
  <2>4. QED
    BY <2>2, <2>3 DEF IInv
<1>7. QED
  BY <1>4, <1>5, <1>6

\* A served request adds a response whose records are roots of the peer's log.
LEMMA ServeRequestIInv ==
    ASSUME IInv, NEW p \in Peers, ServeRequest(p)
    PROVE  IInv'
<1>1. TypeOK /\ JoiningPointOnLedger
  BY DEF IInv
<1>2. PICK r \in reqs :
        /\ r.to = p
        /\ reqs' = reqs \ {r}
        /\ IF CheckRequiredLogRecordAvailability(p, r.min)
             THEN /\ Len(resps) < MaxResponses
                  /\ resps' = Append(resps,
                        [min  |-> r.min,
                         recs |-> SubSeq(PeerLog(p), r.min.seq + 1,
                                         MinNat(r.target, PeerLen[p]))])
             ELSE UNCHANGED resps
        /\ UNCHANGED <<ctxVars, fsVars, ledger, localVars, cpc, retargets>>
  BY DEF ServeRequest
<1>3. r.min \in SeqHash /\ r.target \in 1..Len(Canon)
  BY <1>1 DEF TypeOK
<1>4. SubSeq(PeerLog(p), r.min.seq + 1, MinNat(r.target, PeerLen[p])) \in Seq(Roots)
  <2>1. MinNat(r.target, PeerLen[p]) \in Int /\ MinNat(r.target, PeerLen[p]) <= PeerLen[p]
    BY <1>3, ConstantsAssumption DEF MinNat
  <2>2. r.min.seq \in Nat
    BY <1>3 DEF SeqHash
  <2>3. QED
    BY <2>1, <2>2, PeerLogTyped
<1>5. resps' \in Seq([min : SeqHash, recs : Seq(Roots)])
  <2> DEFINE e == [min  |-> r.min,
                   recs |-> SubSeq(PeerLog(p), r.min.seq + 1,
                                   MinNat(r.target, PeerLen[p]))]
             RespT == [min : SeqHash, recs : Seq(Roots)]
  <2>1. e \in RespT
    BY <1>3, <1>4
  <2>2. CASE CheckRequiredLogRecordAvailability(p, r.min)
    <3>1. resps' = Append(resps, e)
      BY <1>2, <2>2
    <3>2. resps \in Seq(RespT)
      BY <1>1 DEF TypeOK
    <3>3. QED
      BY <2>1, <3>1, <3>2, AppendProperties
  <2>3. CASE ~CheckRequiredLogRecordAvailability(p, r.min)
    BY <1>1, <1>2, <2>3 DEF TypeOK
  <2>4. QED
    BY <2>2, <2>3
<1>6. TypeOK'
  BY <1>1, <1>2, <1>5 DEF TypeOK, ctxVars, fsVars, localVars
<1>7. JoiningPointOnLedger'
  BY <1>1, <1>2 DEF JoiningPointOnLedger, LedgerRoot, ctxVars
<1>8. QED
  BY <1>6, <1>7 DEF IInv

\* Losing a request only removes it.
LEMMA LoseRequestIInv ==
    ASSUME IInv, LoseRequest
    PROVE  IInv'
<1>1. TypeOK /\ JoiningPointOnLedger
  BY DEF IInv
<1>2. TypeOK'
  BY <1>1 DEF LoseRequest, TypeOK, ctxVars, fsVars, localVars
<1>3. JoiningPointOnLedger'
  BY <1>1 DEF LoseRequest, JoiningPointOnLedger, LedgerRoot, ctxVars
<1>4. QED
  BY <1>2, <1>3 DEF IInv

-----------------------------------------------------------------------------
(* Every step of the system, or a stutter, preserves the invariant.      *)
LEMMA NextIInv == IInv /\ [Next]_vars => IInv'
<1> SUFFICES ASSUME IInv, [Next]_vars PROVE IInv'
  OBVIOUS
<1>1. CASE \E t \in 1..Len(Canon) : SetSyncTarget(t)
  BY <1>1, SetSyncTargetIInv
<1>2. CASE SetSyncTargetReset
  BY <1>2, SetSyncTargetResetIInv
<1>3. CASE LedgerAdvance
  BY <1>3, LedgerAdvanceIInv
<1>4. CASE SyncerTick
  BY <1>4, SyncerTickIInv
<1>5. CASE SyncerRequest
  BY <1>5, SyncerRequestIInv
<1>6. CASE SyncerAbandon
  BY <1>6, SyncerAbandonIInv
<1>7. CASE SyncerSplice
  BY <1>7, SyncerSpliceIInv
<1>8. CASE SyncerHandle
  BY <1>8, SyncerHandleIInv
<1>9. CASE SyncerVerify
  BY <1>9, SyncerVerifyIInv
<1>10. CASE \E p \in Peers : ServeRequest(p)
  BY <1>10, ServeRequestIInv
<1>11. CASE LoseRequest
  BY <1>11, LoseRequestIInv
<1>12. CASE UNCHANGED vars
  BY <1>12 DEF IInv, TypeOK, JoiningPointOnLedger, LedgerRoot, vars,
                ctxVars, fsVars, localVars, netVars
<1>13. QED
  BY <1>1, <1>2, <1>3, <1>4, <1>5, <1>6, <1>7, <1>8, <1>9, <1>10, <1>11,
     <1>12 DEF Next

(***************************************************************************)
(* Type correctness of the log sync state: every variable of sync_ctx,   *)
(* the index, the ledger and the message lists keeps its type in every    *)
(* reachable state, for all peers, roots, chains and bounds.              *)
(***************************************************************************)
THEOREM TypeCorrect == Spec => []TypeOK
<1>1. Init => IInv
  BY InitIInv
<1>2. IInv /\ [Next]_vars => IInv'
  BY NextIInv
<1>3. IInv => TypeOK
  BY DEF IInv
<1>4. QED
  BY <1>1, <1>2, <1>3, PTL DEF Spec

(***************************************************************************)
(* The joining point the log syncer requests records from always lies on *)
(* the local ledger's chain, whatever get_verified_min_record and         *)
(* set_joining_point_for_fork are called on and however the ledger        *)
(* advances in between.                                                   *)
(***************************************************************************)
THEOREM JoiningPointOnLedgerHolds == Spec => []JoiningPointOnLedger
<1>1. Init => IInv
  BY InitIInv
<1>2. IInv /\ [Next]_vars => IInv'
  BY NextIInv
<1>3. IInv => JoiningPointOnLedger
  BY DEF IInv
<1>4. QED
  BY <1>1, <1>2, <1>3, PTL DEF Spec

=============================================================================
