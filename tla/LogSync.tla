------------------------------ MODULE LogSync ------------------------------
(***************************************************************************)
(* Full-history contract log sync (sc::hpfs_log_sync).                     *)
(*                                                                         *)
(* A full-history node keeps a replayable hpfs operation log with an index *)
(* seq_no -> root hash.  When its contract state falls behind the UNL it   *)
(* cannot block-sync; instead it finds the joining point where its log     *)
(* index agrees with its ledger, truncates the log there and asks a random *)
(* full-history peer for the log records from that point to the target.   *)
(*                                                                         *)
(* Actors: the consensus thread (set_sync_target, whose last three writes  *)
(* are made after the mutex is released), the log syncer thread           *)
(* (hpfs_log_syncer_loop), the peers that serve log requests, and a lossy  *)
(* network.  The ledger is advanced by ledger sync along the UNL-agreed    *)
(* chain Canon.                                                            *)
(*                                                                         *)
(* Abstraction: a root hash is a model value; the log index is the         *)
(* sequence of roots of seq 1..Len(index) and the contract fs root is the  *)
(* root of the last indexed seq.  A block of log records for seqs m+1..n   *)
(* is the sequence of the roots it produces.                               *)
(***************************************************************************)
EXTENDS Naturals, Sequences, FiniteSets

CONSTANTS
    Peers,              \* full-history peers send_message_to_random_peer may pick
    Roots,              \* root hashes hpfs::get_root_hash(patch, state)
    Genesis,            \* root hash of the genesis ledger (seq_no 0)
    Empty,              \* util::h32_empty
    Canon,              \* UNL-agreed roots of ledger seq 1..Len(Canon)
    PeerLen,            \* last indexed seq_no of each peer's (agreed) log
    InitIndex,          \* possible log indexes of the node when it starts
    ABANDON_THRESHOLD,  \* max request submissions before abandoning
    MaxResponses,       \* bound: responses waiting in collected_msgs
    MaxRetargets        \* bound: calls of set_sync_target

ASSUME ConstantsAssumption ==
    /\ Genesis \in Roots
    /\ Empty \notin Roots
    /\ Canon \in Seq(Roots)
    /\ PeerLen \in [Peers -> 0..Len(Canon)]
    /\ InitIndex \subseteq Seq(Roots)
    /\ ABANDON_THRESHOLD \in Nat
    /\ MaxResponses \in Nat
    /\ MaxRetargets \in Nat

VARIABLES
    index,        \* contract_fs log index: index[s] = root hash at seq_no s
    ledger,       \* local ledger: ledger[s] = root hash recorded at seq_no s
    target,       \* sync_ctx.target_log_seq_no (0 = no target)
    targetRoot,   \* sync_ctx.target_root_hash
    minRec,       \* sync_ctx.min_log_record (the joining point)
    syncing,      \* sync_ctx.is_syncing
    requested,    \* sync_ctx.target_requested_on # 0
    submissions,  \* sync_ctx.request_submissions
    parentHash,   \* contract_fs parent_hashes[STATE_DIR_PATH] cache
    spc,          \* syncer thread: "idle" | "check" | "handle"
    processed,    \* syncer loop local: a response was processed this pass
    batch,        \* syncer loop local: responses spliced from collected_msgs
    cpc,          \* consensus thread: "idle" | "reset" (lines 802-804 pending)
    retargets,    \* number of set_sync_target calls so far
    reqs,         \* HpfsLogRequests in flight: [to, target, min]
    resps         \* collected_msgs.hpfs_log_responses: Seq of [min, recs]

ctxVars   == <<target, targetRoot, minRec, syncing, requested, submissions>>
fsVars    == <<index, parentHash>>
localVars == <<spc, processed, batch>>
netVars   == <<reqs, resps>>
vars == <<ctxVars, fsVars, ledger, localVars, cpc, retargets, netVars>>

-----------------------------------------------------------------------------
(* util::sequence_hash values.                                             *)
SeqHash == [seq : Nat, hash : Roots \cup {Empty}]

\* genesis_seq_hash: {genesis.seq_no, root hash of the genesis ledger}.
GenesisRec == [seq |-> 0, hash |-> Genesis]

\* A default-constructed sequence_hash, as left by clear_target().
NilRec == [seq |-> 0, hash |-> Empty]

\* get_hash_from_index_by_seq_no on a log index (seq 0 is genesis).
IndexRoot(ix, s) == IF s = 0 THEN Genesis ELSE ix[s]

\* ledger::get_root_hash_from_ledger: get_root_hash(config_hash, state_hash).
LedgerRoot(s) == IF s = 0 THEN Genesis ELSE ledger[s]

\* The log of a peer: the agreed roots up to its last indexed seq.
PeerLog(p) == SubSeq(Canon, 1, PeerLen[p])

MinNat(a, b) == IF a <= b THEN a ELSE b

-----------------------------------------------------------------------------
(***************************************************************************)
(* set_joining_point_for_fork(starting_point): walk back from the starting *)
(* point to the first (so highest) seq_no >= 1 whose ledger root equals    *)
(* the index root.  If one is found the log is truncated there and it     *)
(* becomes the joining point; if none is found the log is truncated to    *)
(* genesis.  A starting point of 0 returns genesis at once, without       *)
(* truncating.  Result: [index, min] after the call.                       *)
(***************************************************************************)
\* Fault variant: the current_seq_no++ after the walk is missing.
SetJoiningPointForForkNoIncrement(start) ==
    LET agree == {s \in 1..start : LedgerRoot(s) = index[s]}
        top   == {s \in agree : \A t \in agree : t <= s}
        j     == CHOOSE s \in top : TRUE
    IN  IF start = 0
          THEN [index |-> index, min |-> GenesisRec]
        ELSE IF top = {}
          THEN [index |-> <<>>, min |-> GenesisRec]
        ELSE [index |-> SubSeq(index, 1, j - 1),
              min   |-> [seq |-> j - 1, hash |-> LedgerRoot(j)]]

SetJoiningPointForFork(start) ==
    LET agree == {s \in 1..start : LedgerRoot(s) = index[s]}
        top   == {s \in agree : \A t \in agree : t <= s}
        j     == CHOOSE s \in top : TRUE
    IN  IF start = 0
          THEN [index |-> index, min |-> GenesisRec]
        ELSE IF top = {}
          THEN [index |-> <<>>, min |-> GenesisRec]
        ELSE [index |-> SubSeq(index, 1, j),
              min   |-> [seq |-> j, hash |-> LedgerRoot(j)]]

(***************************************************************************)
(* get_verified_min_record() against target root troot.  Result:          *)
(* [res, index, min]: res = 1 when the log already reaches the target     *)
(* (the fs root equals troot), 0 when a joining point was set.            *)
(***************************************************************************)
GetVerifiedMinRecord(troot) ==
    LET li      == Len(index)
        ll      == Len(ledger)
        lastIdx == [seq |-> li, hash |-> IndexRoot(index, li)]
        lastLed == [seq |-> ll, hash |-> LedgerRoot(ll)]
        Fork(s) == [res   |-> 0,
                    index |-> SetJoiningPointForFork(s).index,
                    min   |-> SetJoiningPointForFork(s).min]
    IN  IF li = 0 \/ ll = 0
          THEN [res |-> 0, index |-> index, min |-> GenesisRec]
        ELSE IF lastIdx = lastLed
          THEN IF IndexRoot(index, li) = troot
                 THEN [res |-> 1, index |-> index, min |-> minRec]
                 ELSE [res |-> 0, index |-> SubSeq(index, 1, ll), min |-> lastLed]
        ELSE IF li = ll
          THEN Fork(li - 1)
        ELSE IF ll > li
          THEN IF LedgerRoot(li) = lastIdx.hash
                 THEN [res |-> 0, index |-> index, min |-> lastIdx]
                 ELSE Fork(li - 1)
        ELSE Fork(ll - 1)

\* sync_ctx.clear_target(): forget the target and reset the request state.
ClearTarget ==
    /\ target' = 0
    /\ targetRoot' = Empty
    /\ minRec' = NilRec
    /\ syncing' = FALSE
    /\ requested' = FALSE
    /\ submissions' = 0

-----------------------------------------------------------------------------
Init ==
    /\ index \in InitIndex
    /\ ledger \in {SubSeq(Canon, 1, n) : n \in 0..Len(Canon)}
    /\ target = 0
    /\ targetRoot = Empty
    /\ minRec = NilRec
    /\ syncing = FALSE
    /\ requested = FALSE
    /\ submissions = 0
    /\ parentHash = IndexRoot(index, Len(index))
    /\ spc = "idle"
    /\ processed = FALSE
    /\ batch = <<>>
    /\ cpc = "idle"
    /\ retargets = 0
    /\ reqs = {}
    /\ resps = <<>>

(***************************************************************************)
(* Consensus thread, set_sync_target(t, Canon[t]), the part under          *)
(* target_log_seq_no_mutex: set the target and compute the joining point. *)
(* Returns early when already syncing to t, or when the min record        *)
(* reports the log in sync; otherwise the counter reset follows unlocked. *)
(***************************************************************************)
SetSyncTarget(t) ==
    LET v == GetVerifiedMinRecord(Canon[t]) IN
    /\ cpc = "idle"
    /\ spc = "idle"
    /\ retargets < MaxRetargets
    /\ ~(syncing /\ target = t)
    /\ retargets' = retargets + 1
    /\ target' = t
    /\ targetRoot' = Canon[t]
    /\ index' = v.index
    /\ minRec' = v.min
    /\ parentHash' = IF v.res = 1 THEN Canon[t] ELSE parentHash
    /\ cpc' = IF v.res = 0 THEN "reset" ELSE "idle"
    /\ UNCHANGED <<syncing, requested, submissions, ledger, localVars, netVars>>

\* set_sync_target, lines 802-804: written after the mutex is released.
SetSyncTargetReset ==
    /\ cpc = "reset"
    /\ requested' = FALSE
    /\ submissions' = 0
    /\ syncing' = TRUE
    /\ cpc' = "idle"
    /\ UNCHANGED <<target, targetRoot, minRec, fsVars, ledger, localVars,
                   retargets, netVars>>

\* Ledger sync / consensus commits the next agreed ledger.
LedgerAdvance ==
    /\ Len(ledger) < Len(Canon)
    /\ ledger' = Append(ledger, Canon[Len(ledger) + 1])
    /\ UNCHANGED <<ctxVars, fsVars, localVars, cpc, retargets, netVars>>

-----------------------------------------------------------------------------
(* Log syncer thread, one pass of hpfs_log_syncer_loop per cycle           *)
(* idle -> check -> handle -> idle; the mutex is held from the first step *)
(* to the end of the verification.                                        *)

\* send_hpfs_log_sync_request with nothing due: no target, or the last
\* request has not yet timed out.
SyncerTick ==
    /\ spc = "idle"
    /\ target = 0 \/ requested
    /\ spc' = "check"
    /\ UNCHANGED <<ctxVars, fsVars, ledger, processed, batch, cpc, retargets, netVars>>

\* Fault variants of SyncerRequest: the threshold test is `<=`, or the
\* submission counter is not incremented.
SyncerRequestOffByOne ==
    /\ spc = "idle"
    /\ target > 0
    /\ submissions <= ABANDON_THRESHOLD
    /\ \E p \in Peers :
          reqs' = reqs \cup {[to |-> p, target |-> target, min |-> minRec]}
    /\ requested' = TRUE
    /\ submissions' = submissions + 1
    /\ spc' = "check"
    /\ UNCHANGED <<target, targetRoot, minRec, syncing, fsVars, ledger,
                   processed, batch, cpc, retargets, resps>>

SyncerRequestNoCount ==
    /\ spc = "idle"
    /\ target > 0
    /\ submissions < ABANDON_THRESHOLD
    /\ \E p \in Peers :
          reqs' = reqs \cup {[to |-> p, target |-> target, min |-> minRec]}
    /\ requested' = TRUE
    /\ spc' = "check"
    /\ UNCHANGED <<target, targetRoot, minRec, syncing, submissions, fsVars,
                   ledger, processed, batch, cpc, retargets, resps>>

\* send_hpfs_log_sync_request: (re)submit to a random peer.
SyncerRequest ==
    /\ spc = "idle"
    /\ target > 0
    /\ submissions < ABANDON_THRESHOLD
    /\ \E p \in Peers :
          reqs' = reqs \cup {[to |-> p, target |-> target, min |-> minRec]}
    /\ requested' = TRUE
    /\ submissions' = submissions + 1
    /\ spc' = "check"
    /\ UNCHANGED <<target, targetRoot, minRec, syncing, fsVars, ledger,
                   processed, batch, cpc, retargets, resps>>

\* send_hpfs_log_sync_request: resubmission threshold reached.
SyncerAbandon ==
    /\ spc = "idle"
    /\ target > 0
    /\ submissions >= ABANDON_THRESHOLD
    /\ ClearTarget
    /\ spc' = "check"
    /\ UNCHANGED <<fsVars, ledger, processed, batch, cpc, retargets, netVars>>

\* check_hpfs_log_sync_responses: splice the collected responses.
SyncerSplice ==
    /\ spc = "check"
    /\ IF target > 0
         THEN /\ batch' = resps
              /\ resps' = <<>>
              /\ processed' = (resps # <<>>)
         ELSE UNCHANGED <<batch, resps, processed>>
    /\ spc' = "handle"
    /\ UNCHANGED <<ctxVars, fsVars, ledger, cpc, retargets, reqs>>

\* handle_hpfs_log_sync_response: append when the joining point matches.
SyncerHandle ==
    /\ spc = "handle"
    /\ batch # <<>>
    /\ index' = IF Head(batch).min = minRec
                  THEN index \o Head(batch).recs
                  ELSE index
    /\ batch' = Tail(batch)
    /\ UNCHANGED <<ctxVars, parentHash, ledger, spc, processed, cpc, retargets, netVars>>

\* End of the locked block: if responses were processed while syncing,
\* re-verify; clear the target when it is achieved.
SyncerVerify ==
    LET v == GetVerifiedMinRecord(targetRoot) IN
    /\ spc = "handle"
    /\ batch = <<>>
    /\ IF syncing /\ processed
         THEN IF v.res = 1
                THEN /\ ClearTarget
                     /\ parentHash' = targetRoot
                     /\ UNCHANGED index
                ELSE /\ index' = v.index
                     /\ minRec' = v.min
                     /\ UNCHANGED <<target, targetRoot, syncing, requested,
                                    submissions, parentHash>>
         ELSE UNCHANGED <<ctxVars, fsVars>>
    /\ spc' = "idle"
    /\ processed' = FALSE
    /\ UNCHANGED <<ledger, batch, cpc, retargets, netVars>>

-----------------------------------------------------------------------------
(***************************************************************************)
(* A peer serves a log request (check_hpfs_log_sync_requests): only when  *)
(* the min record is genesis or its own index holds the same hash at that *)
(* seq (check_required_log_record_availability); the response carries the *)
(* records after min up to the target (read_hpfs_logs).                    *)
(***************************************************************************)
CheckRequiredLogRecordAvailability(p, m) ==
    \/ m = GenesisRec
    \/ m.seq \in 1..PeerLen[p] /\ PeerLog(p)[m.seq] = m.hash

ServeRequest(p) ==
    \E r \in reqs :
       /\ r.to = p
       /\ reqs' = reqs \ {r}
       /\ IF CheckRequiredLogRecordAvailability(p, r.min)
            THEN /\ Len(resps) < MaxResponses
                 /\ resps' = Append(resps,
                       [min  |-> r.min,
                        recs |-> SubSeq(PeerLog(p), r.min.seq + 1,
                                        MinNat(r.target, PeerLen[p]))])
            ELSE UNCHANGED resps
       /\ UNCHANGED <<ctxVars, fsVars, ledger, localVars, cpc, retargets>>

\* The peer session drops: a request is never answered.
LoseRequest ==
    /\ \E r \in reqs : reqs' = reqs \ {r}
    /\ UNCHANGED <<ctxVars, fsVars, ledger, localVars, cpc, retargets, resps>>

-----------------------------------------------------------------------------
Next ==
    \/ \E t \in 1..Len(Canon) : SetSyncTarget(t)
    \/ SetSyncTargetReset
    \/ LedgerAdvance
    \/ SyncerTick
    \/ SyncerRequest
    \/ SyncerAbandon
    \/ SyncerSplice
    \/ SyncerHandle
    \/ SyncerVerify
    \/ \E p \in Peers : ServeRequest(p)
    \/ LoseRequest

Spec == Init /\ [][Next]_vars

(***************************************************************************)
(* The syncer thread runs its loop forever and its resubmission timer     *)
(* keeps expiring (strong fairness: a request or abandonment is due at    *)
(* every pass once the timer has run out); the consensus thread finishes  *)
(* a set_sync_target call it has started.  Peers, the network and ledger  *)
(* sync are not assumed fair.                                              *)
(***************************************************************************)
FairSpec ==
    /\ Spec
    /\ WF_vars(SyncerTick \/ SyncerSplice \/ SyncerHandle \/ SyncerVerify)
    /\ SF_vars(SyncerRequest \/ SyncerAbandon)
    /\ WF_vars(SetSyncTargetReset)

-----------------------------------------------------------------------------
TypeOK ==
    /\ index \in Seq(Roots)
    /\ ledger \in Seq(Roots)
    /\ target \in 0..Len(Canon)
    /\ targetRoot \in Roots \cup {Empty}
    /\ minRec \in SeqHash
    /\ syncing \in BOOLEAN
    /\ requested \in BOOLEAN
    /\ submissions \in 0..ABANDON_THRESHOLD
    /\ parentHash \in Roots \cup {Empty}
    /\ spc \in {"idle", "check", "handle"}
    /\ processed \in BOOLEAN
    /\ batch \in Seq([min : SeqHash, recs : Seq(Roots)])
    /\ cpc \in {"idle", "reset"}
    /\ retargets \in 0..MaxRetargets
    /\ reqs \subseteq [to : Peers, target : 1..Len(Canon), min : SeqHash]
    /\ resps \in Seq([min : SeqHash, recs : Seq(Roots)])

(***************************************************************************)
(* The joining point the syncer requests logs from always lies on the     *)
(* local ledger's chain: its hash is the root the ledger records at its   *)
(* seq_no.  get_verified_min_record and set_joining_point_for_fork must   *)
(* only ever choose a point where ledger and index agree.                 *)
(***************************************************************************)
JoiningPointOnLedger ==
    minRec # NilRec =>
        /\ minRec.seq <= Len(ledger)
        /\ minRec.hash = LedgerRoot(minRec.seq)

(***************************************************************************)
(* Log records are appended only at the joining point: while a joining    *)
(* point is set, every index entry after it holds the agreed root.  This  *)
(* is what the check in handle_hpfs_log_sync_response ("append only if    *)
(* the response starts from the requested min") and the truncation in     *)
(* get_verified_min_record / set_joining_point_for_fork are for.          *)
(***************************************************************************)
AppendedLogCanonical ==
    minRec # NilRec =>
        \A k \in (minRec.seq + 1)..Len(index) :
            k \in 1..Len(Canon) /\ index[k] = Canon[k]

(***************************************************************************)
(* is_syncing is only set while there is a target to sync to: a sync in   *)
(* progress is never left without a target (clear_target resets both, and *)
(* set_sync_target sets both).                                            *)
(***************************************************************************)
SyncingHasTarget == syncing => target > 0

(***************************************************************************)
(* Every sync target the syncer is given is eventually cleared, achieved  *)
(* or abandoned: the resubmission counter bounds the retries of           *)
(* send_hpfs_log_sync_request.                                             *)
(***************************************************************************)
LogSyncTerminates == (target > 0) ~> (target = 0)

=============================================================================
