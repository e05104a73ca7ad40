# Formal models of hpcore

This directory holds TLA+ models of the HotPocket node (`hpcore`). It also has
the TLC configurations that model-check them and the TLAPS proofs about them.
Source paths below are relative to the repository root (`src/src/...`). Line
numbers are those of the files as they are in the repository. Note that
`src/src/msg/fbuf/p2pmsg_conversion.cpp` holds three concatenated sources:

- lines 1-707: the p2p message conversion;
- lines 707-733: `unl.hpp`;
- lines 734-1222: `sc/hpfs_log_sync.cpp`.

## 1. Inventory

### Components and how they interact

| Part | Source | State | Operations | Interacts with |
|---|---|---|---|---|
| Full-history log sync | `p2pmsg_conversion.cpp` 734-1222 | `sync_ctx`: target seq, target root, joining point (`min_log_record`), `is_syncing`, `target_requested_on`, `request_submissions`, mutex; the vfs log and its index | `set_sync_target` (consensus thread), `hpfs_log_syncer_loop` (own thread): send/resubmit/abandon, splice and handle responses, re-verify; `get_verified_min_record`, `set_joining_point_for_fork`; serve peers' requests | consensus (sets targets), ledger (roots per seq), vfs log API, peers via the transport |
| vfs mount | `hpfs/hpfs_mount.hpp` | rw session refcount, parent-hash cache (shared mutex), log index | sessions, hashes, log index / truncate / read / append | daemon process (not in repository) |
| Proposal trust and message conversion | `p2pmsg_conversion.cpp` 1-707 | none (pure functions) | staleness window, UNL and signature check of proposals, proposal hash, NPL trust | consensus, UNL, crypto |
| Contract configuration | `conf.cpp` | `cfg` (live), the config file, the config lock file | `init`, `rekey`, `create_contract`, `read_config` / `write_config` / `validate_config`, `change_role`, `apply_patch_config`, `persist_updated_configs`, `set_config_lock` / `release_config_lock` | contract sync (patch file), UNL, consensus time config |
| Patch sync callback | `sc/contract_sync.cpp` | none of its own | `on_sync_target_acheived`: apply the patch, refresh UNL and time config, set the patch hash | conf, UNL, consensus, vfs |
| Ledger store | `ledger/sqlite.cpp` | two SQLite databases: the primary shard (ledger table, hp version table, their indexes) and the raw shard (users, inputs, outputs tables and indexes) | `open_db`, `is_table_exists`, `initialize_ledger_db`, `create_hp_table`, `initialize_ledger_raw_db`, `begin/commit/rollback_transaction`, `get_last_ledger`, `insert_ledger_row`, `insert_user_*_record`; queries by seq and hash | ledger builder (not in repository), log sync (reads roots) |
| Consensus, ledger builder, state/block sync, vfs daemon | not in repository | | | spec.md §4 |

### Behaviours that make this system hard

- Two threads share `sync_ctx`. `set_sync_target` runs on the consensus thread
  and writes three fields after it releases the mutex. The syncer loop writes
  them under the mutex.
- Peers answer requests late, never, or twice. Resubmissions after a timeout
  produce several answers for one joining point. Responses are spliced into a
  local list and handled one by one.
- The local log index can be behind, ahead of, or forked from the ledger. The
  ledger itself advances between calls.
- Joining-point search walks backward with a do-while loop whose exit needs a
  compensating increment.
- `apply_patch_config` changes the live config before it persists it. Its
  caller refreshes the UNL only on success.

## 2. Plan

1. **LogSync** (done): the full-history log sync component. It has an MC
   module, a passing run for safety and termination, and violation runs for
   the two disagreements found. Proofs are in `LogSyncProofs`.
2. **ProposalTrust** (done): `verify_proposal_msg_trust`,
   `get_peer_message_info` and the hash/signature pair, over a small set of
   proposals and keys. Against the spec's validity rule (§3, §4.D).
   Proofs in `ProposalTrustProofs`.
3. **Config** (done): `apply_patch_config`, `persist_updated_configs`,
   `change_role`, the config lock (an fcntl record lock), and the
   patch-sync callback in `contract_sync.cpp`. Proofs in `ConfigProofs`.
4. **LedgerStore** (done): shard initialisation and the two-transaction
   save of `sqlite.cpp`, with the writer that drives it, shown to refine the
   abstract hash-chained ledger `AbsLedger`. Proofs in `LedgerStoreProofs`.
5. **ResubmitTimer** (done): the resubmission and abandon timer of log sync
   against a wall clock that may step back. Proofs in `ResubmitTimerProofs`.
6. Next: the read queries of `sqlite.cpp` (`get_ledger_by_seq_no`,
   `get_ledger_by_hash`) as operators checked against `AbsLedger`; the raw
   shard as its own refinement; an action property and its proof for
   `Config`.

## 3. Modules

### `LogSync.tla`: full-history log sync

Constants:

- `Peers`;
- `Roots` (root hashes as model values), `Genesis`, `Empty`;
- `Canon`, the roots the UNL agreed for ledgers `1..Len(Canon)`;
- `PeerLen`, how far each peer's log reaches on that chain;
- `InitIndex`, the local logs the node may start with;
- `ABANDON_THRESHOLD`;
- bounds `MaxResponses` (responses waiting) and `MaxRetargets`
  (`set_sync_target` calls).

Abstraction of data:

- A root hash is a model value.
- The vfs log index is the sequence of roots of seq `1..Len(index)`.
- A block of log records for seqs `m+1..n` is the sequence of roots it
  produces.
- The contract fs root is the root at the last index seq. The model has no
  log records past the last index entry.
- The ledger is a prefix of `Canon`. It grows by `LedgerAdvance`, which stands
  for ledger sync and consensus.

State and actions:

| Code | Model |
|---|---|
| `sync_ctx` fields | `target`, `targetRoot`, `minRec`, `syncing`, `requested` (`target_requested_on # 0`), `submissions` |
| `set_sync_target`, locked part (784-798) | `SetSyncTarget(t)`; enabled only when the syncer is not inside its locked block (`spc = "idle"`) |
| `set_sync_target`, lines 802-804 after the unlock | `SetSyncTargetReset` (consensus thread position `cpc = "reset"`) |
| `send_hpfs_log_sync_request` | `SyncerTick` (nothing due: no target or timer not expired), `SyncerRequest` (to a random peer, counted), `SyncerAbandon` |
| `check_hpfs_log_sync_responses` | `SyncerSplice` (move the collected list), `SyncerHandle` (one response at a time, `handle_hpfs_log_sync_response`) |
| end of the locked block (828-836) | `SyncerVerify`: re-verify if syncing and a response was processed; clear the target when reached |
| `get_verified_min_record`, `set_joining_point_for_fork` | operators `GetVerifiedMinRecord`, `SetJoiningPointForFork`: each branch of the code, with its truncation and the joining point it stores |
| `check_hpfs_log_sync_requests` on a peer | `ServeRequest(p)` with `CheckRequiredLogRecordAvailability` |
| lost peer session | `LoseRequest` |

How the thread interleaving is modelled:

- The syncer's locked block spans `SyncerTick`/`SyncerRequest`/
  `SyncerAbandon`, `SyncerSplice`, `SyncerHandle` and `SyncerVerify`. The
  consensus thread's locked part cannot run in the middle of it.
- The consensus thread's unlocked tail is a separate step. It can run at any
  point of the syncer's pass.
- Serving requests happens outside the lock in the code. Here the peers serve
  them as independent actors.

Not modelled:

- shutdown (`is_shutting_down`);
- I/O errors (`-1` returns, which leave the state unchanged);
- the wall-clock value of the resubmission timer. Only "expired or not"
  matters, and `SyncerTick` versus `SyncerRequest` is a free choice.
  `ResubmitTimer` models the timer itself.

### `MC_LogSync.tla` and the runs

The instance has:

- two peers, one with the whole agreed chain `<<r1, r2>>` and one with only
  `r1`;
- initial logs `<<>>`, `<<x>>` (forked at 1), `<<r1, x>>` (forked at 2) and
  `<<r1, r2, x>>` (ahead of every ledger);
- ledgers of length 0 to 2.

These bounds reach every branch of `get_verified_min_record`:

- genesis;
- equal and in sync;
- equal seq with a different root;
- ledger ahead, with and without agreement;
- index ahead.

They also reach both outcomes of the backward walk, a joining point at 1 and
none.

Further bounds:

- `ABANDON_THRESHOLD = 2`, so a resubmission happens before abandonment.
- `MaxRetargets = 2`, so a second `set_sync_target` can race the syncer.
- `MaxResponses = 2`, so two answers to one joining point can sit in one
  batch.

| Run | cfg | Expect | Checks |
|---|---|---|---|
| `logsync` | `LogSync.cfg` | pass (1.94M states, about 2 min) | `TypeOK`; `JoiningPointOnLedger`: the joining point is always a point of the local ledger (`minRec.hash` = the ledger's root at `minRec.seq`); `LogSyncTerminates`: every target is eventually cleared |
| `logsync_append` | `LogSync_append.cfg` | violation | `AppendedLogCanonical`: while a joining point is set, every index entry after it is the agreed root |
| `logsync_race` | `LogSync_race.cfg` | violation | `SyncingHasTarget`: `is_syncing` implies a target |

Fairness (`FairSpec`):

- Weak fairness on the syncer's steps. The loop runs forever and sleeps only
  20 ms.
- Strong fairness on `SyncerRequest \/ SyncerAbandon`. The resubmission timer
  of 0.7 × roundtime eventually expires, so one of the two is due again and
  again.
- Weak fairness on `SetSyncTargetReset`. A started call returns.
- Peers, the network and ledger sync get no fairness. A target may therefore
  end only by abandonment, which is what `LogSyncTerminates` must survive.

### Findings

1. **Genesis joining point without truncation** (`logsync_append`). TLC's
   trace:
   - the node starts with index `<<x>>` and an empty ledger;
   - `set_sync_target(1)` takes the `last seq == genesis` branch (line 1017)
     and stores the genesis joining point without truncating;
   - the trace ends there, with the forked `x` still in the index. The
     append at lines 988-994 then puts the records fetched from genesis
     after it; that last step is read from the code, not shown by TLC.

   `set_joining_point_for_fork(0)` (line 1129) has the same gap. spec.md §4.I
   step 2 requires truncation whenever the joining point is genesis.
2. **Unlocked reset in `set_sync_target`** (`logsync_race`). TLC's trace:
   - the target is set, and the consensus thread is between the unlock and
     line 802;
   - the syncer sends twice and abandons;
   - line 804 then sets `is_syncing = true` with no target.

   The unlocked writes are also a data race with the syncer's locked reads.

### `ProposalTrust.tla`: trust in peer proposals

A UNL node signs the hash of its proposal's consensus fields
(`generate_proposal_signature`, 344-361). It sends the proposal in a
container stamped with its own `created_on` (`create_msg_from_proposal`,
`create_p2p_msg`, 372-439). Peers relay consensus messages, and only the
signature protects a message in transit. The receiver does three things:

- drops messages older than `3 * roundtime` (`get_peer_message_info`, 36-52);
- checks that the signer is in the UNL and that the signature covers
  `hash_proposal_msg` (59-99);
- builds the `p2p::proposal` that consensus uses
  (`create_proposal_from_msg`, 142-176).

Abstraction of data:

- A digest is the record of the hashed fields (collision-free).
- A signature is the pair of a key and a digest (unforgeable).
- Field values are `0` or `1`.

| Code | Model |
|---|---|
| honest node sends a proposal | `SendProposal(n, p)`; `signed[n]` records what it signed |
| a peer sends under its own key | `SendOwnProposal(k, p)` |
| a relaying peer rewrites a body field or `created_on` | `TamperField(m, f, v)`, `Retime(m, t)` |
| lost message | `Drop(m)` |
| receive: time check, trust check, build the proposal | `Receive(m)`; `accepted`/`rejected` hold the latest outcome |
| wall clock | `now`, `Tick` |

The instance (`MC_ProposalTrust`) has:

- one honest UNL node and one peer outside the UNL;
- two honest proposals that differ in `state_hash`;
- rewritable fields `node_nonce`, `state_hash` and `output_sig`, which cover
  the unhashed field and two hashed ones;
- `RoundTime = 1` and a clock to 4, so a message can be too old, in the
  window, or in the future;
- at most two messages in flight, so an original and a rewritten copy can
  both exist.

| Run | cfg | Expect | Checks |
|---|---|---|---|
| `proposaltrust` | `ProposalTrust.cfg` | pass (4.76M states, 1.5 min) | `TypeOK` (accepted proposals come from UNL keys); `AcceptedConsensusFieldsSigned`: a proposal accepted under an honest key agrees with one the node signed on every consensus field but the nonce; `NoFalseRejection`: an unmodified honest proposal is never rejected, so the sender's and the receiver's copies of the field list agree |
| `proposaltrust_intact` | `ProposalTrust_Intact.cfg` | violation | `AcceptedProposalIntact`: the accepted body equals a signed one |

No fairness is assumed; the properties are all safety.

Findings:

3. **`node_nonce` is not signed** (`proposaltrust_intact`). Neither
   `hash_proposal_msg` (line 83) nor `generate_proposal_signature` adds
   `node_nonce`. A relaying peer rewrites it, and the receiver accepts the
   proposal under the honest key. spec.md §4.D says the signature covers
   every field but `pubkey`, `sig` and the wall timestamps.
A second disagreement is plain from the code and has no run of its own:
line 44 rejects only `created_on < now - 3 * roundtime`, so a `created_on`
in the future passes, while spec.md §3 bounds `|created_on - now|`.

### `Config.tla`: the contract configuration

Several hpcore processes may be started on one contract directory: node
processes (`init` ... `deinit`) and `rekey` commands. The config lock
(`set_config_lock`) is what spec.md §5 calls the single-instance guard. It
is taken by `util::set_lock(config_fd, config_lock, true, 0, 0)`, with a
lock struct, a start and a length, and `EACCES` or `EAGAIN` is read as
"another instance is running". That is the interface of an
`fcntl(F_SETLK)` record lock. Such a lock belongs to the process and is
dropped when the process closes *any* descriptor of the file, and
`write_json_file` opens hp.cfg and closes it (lines 1171, 1174).
`util::set_lock` itself is not in the repository; the model takes the
record-lock semantics its interface shows (`DropLock`). A running node works on
its live `cfg`. When the patch file reaches its sync target,
`on_sync_target_acheived` calls `apply_patch_config`, which:

1. reads the patch;
2. reads hp.cfg into `temp_cfg`;
3. parses the patch into `temp_cfg` and then into the live `cfg.contract`;
4. writes `temp_cfg` back.

On success the UNL and time config are refreshed and the patch hash is
recorded. `deinit` persists the known peers into a fresh read of hp.cfg.

Abstraction of data:

- A config is the record of the fields the properties tell apart: key,
  contract section (UNL, version), role and known peers.
- A patch that fails parsing or validation is `BadPatch`.
- `write_json_file` opens with `O_TRUNC` and then writes. It succeeds, fails
  before truncating, or leaves a truncated file (`Corrupt`, which
  `read_config` rejects).

| Code | Model |
|---|---|
| `init` (40-60) with `set_config_lock`, `read_config` | `StartNode(p)` |
| `release_config_lock` (914-920), the close in `write_json_file` | `DropLock(p)`: p's lock is gone; a lock another process took stays |
| `rekey` (82-121) | `Rekey(p)`: atomic, it holds the lock throughout; its failure returns leave the lock to the OS at exit |
| `change_role` (748-760) | `ChangeRole(p, r)` |
| `on_sync_target_acheived` + `apply_patch_config` (810-858) | `PatchSynced(p, c)` over the outcomes `ApplyPatchConfig(p, c)`; an outcome that opened hp.cfg drops p's lock |
| `deinit` + `persist_updated_configs` (863-883) | `Deinit(p)` |
| peer discovery, process kill | `DiscoverPeers(p, ps)`, `Crash(p)` |

The instance (`MC_Config`) has:

- two processes, so a second start or a rekey can race a running node;
- two keys, so rekey can swap between them;
- three patch contents: a new version, a UNL of both keys, and an invalid
  patch;
- at most three patch syncs, so a failed write can be followed by another
  patch and by an exit.

The state graph is finite without a bound on restarts.

| Run | cfg | Expect | Checks |
|---|---|---|---|
| `config` | `Config.cfg` | pass (43.8K states) | `TypeOK`; `PersistedRoleStable`: while a node runs and hp.cfg is readable, hp.cfg holds that node's startup role, although `change_role` changes the live role and other processes may write hp.cfg |
| `config_consistent` | `Config_Consistent.cfg` | violation | `ConfigFilesConsistent`: the live contract section equals hp.cfg's (the comment on `apply_patch_config`) |
| `config_lock` | `Config_Lock.cfg` | violation | `PersistedNodeSectionStable`: while a node runs and hp.cfg is readable, hp.cfg holds that node's key and startup role (the single-instance guard) |

The mutant of `PersistedRoleStable` is `ApplyPatchConfigFromLive`: the
patch is written into the live config instead of a fresh read of hp.cfg,
so a role change reaches the file.

Findings:

4. **Live config diverges from hp.cfg** (`config_consistent`). Line 849
   parses the patch into the live `cfg.contract`. Then `write_config(temp_cfg)`
   (line 850) fails, so the function returns -1 with hp.cfg unchanged (or
   truncated), against its own comment. `on_sync_target_acheived` then
   skips the UNL and time config refresh. The running node keeps the
   patched `cfg.contract` while its UNL is the old one, and the next start
   reads the old contract section.
5. **The single-instance guard is lost after the first patch write**
   (`config_lock`). TLC's trace:
   - node `n1` starts and takes the lock;
   - a patch is synced and `apply_patch_config` writes hp.cfg, whose close
     drops `n1`'s lock;
   - a `rekey` command takes the free lock and writes a new signing key to
     hp.cfg under the running node.

   A second `hpcore` process can start the same way. If `util::set_lock`
   used `flock(2)` or an open-file-description lock, the close would not
   drop it and this run would pass.

### `LedgerStore.tla` and `AbsLedger.tla`: the ledger store

`LedgerStore` models `ledger/sqlite.cpp` together with the ledger writer
that drives it. The writer (spec §4.G) is not in the repository, so its
order of calls is taken from the spec; those definitions are marked
`spec_modelled` in PROJECT.json.

State:

- `schemaP`, `schemaR`: the tables, indexes and version row each shard has.
- `ledgerTbl`: the committed ledger table, a function from seq_no to
  `[seq, prev, content, hash]`.
- `rawTbl`: a count per `[seq, kind]` of the users, inputs and outputs rows.
- `pendP`, `pendR`: what an open transaction has written.
- `pc`, `step`, `cur`: where the node is (down, initialising a shard, idle,
  or inside a save), which init statement runs next, and the round being
  saved.

A round's content is the set of side-row kinds it has; a side row is one
row per kind. `ledger_hash` is an injective tuple of its fields.

Actions, in code order:

- `OpenLedgerDb` / `OpenRawDb`: `open_db` and the `is_table_exists` test.
  A failing prepare or step reads as "no such table".
- `InitLedgerDb` / `InitRawDb`: one autocommitted statement per step. A
  failure is fatal, and the node goes down. `CREATE TABLE IF NOT EXISTS`
  can be rerun; a plain `CREATE INDEX` fails when its index exists.
- `SaveBegin`, `InsertLedger`, `CommitLedger`: the primary transaction.
  `InsertLedger` covers `get_last_ledger` (which returns -1 both for an
  empty table and on error), the seq check, and `insert_ledger_row` against
  the seq_no PRIMARY KEY. The writer goes on to the raw shard only when the
  COMMIT returned 0 (`SaveContinues`).
- `BeginRaw`, `InsertRaw`, `CommitRaw`: the raw transaction.
- `Crash`: open transactions are lost, while committed rows and the schema
  stay.

`AbsLedger` is what the store promises: a sequence of records 1..n in which
each record's `prev` is the hash of the one before (the genesis hash for the
first). It grows only by `AppendLedger`. `LedgerStore` instantiates it with
`ledger <- ledgerTbl`. The refinement mapping is the identity, because the
committed table is 1..n as a function and is therefore a sequence.

Runs (`MC_LedgerStore`: three side-row kinds, contents {all three} and
{users}, `MaxSeq = 3`, 76,675 states):

- `ledger_store` (pass) checks `TypeOK`, `RawRowsMatchLedger` (every
  committed side row belongs to a committed record of that kind, once),
  `LedgerRefinement` (`Abs!Spec`) and the action property
  `RawRowsOnlyForNewest`: a step that adds a side row adds it for the
  newest record of the ledger table, never an older one. A round retried
  after a crash between the two commits finds its record committed and its
  side rows missing. Only the seq check and the PRIMARY KEY stop it from
  writing them onto that record, and such rows would still satisfy
  `RawRowsMatchLedger`; the mutant `InsertLedgerIgnoringFailure` (the writer
  goes on to the raw shard after a failed insert) breaks it, and it also
  breaks `RawRowsMatchLedger`. Three records are enough to reach a
  retried round, a stale `get_last_ledger`, a crash between the commits and
  the error-as-genesis case on a non-empty table.
- `ledger_raw_data` (violation): `LedgerRowsHaveRawData`. A failed raw
  BEGIN, insert or COMMIT, or a crash between the two commits, leaves a
  committed ledger record with no users, inputs or outputs. Nothing repairs
  it on restart.
- `ledger_schema` (violation): `SchemaComplete`. A failure or crash after
  `CREATE TABLE ledger` leaves a shard that `is_table_exists` reports as
  initialised. The restart skips its indexes and version row. A rerun would
  have failed anyway, because `CREATE INDEX` has no `IF NOT EXISTS`.

### `ResubmitTimer.tla`: the log sync resubmission timer

This module models `send_hpfs_log_sync_request` (lines 854-886), the counter
reset of `set_sync_target` and the target clear of the syncer loop. It
measures the timer against two clocks:

- `now`, the value `util::get_epoch_milliseconds` returns;
- `real`, a ghost for the time that really passed.

`Elapsed` is `time_now - target_requested_on` taken modulo 2^`Width`, as
`uint64_t` arithmetic does. The clock stays below 2^`Width`, so only a
backward step can wrap it. With `ClockMonotonic` a `Tick` adds 1 ms.
Otherwise a tick may also set the clock back by up to `MaxStepBack` ms.

`AbandonNotEarly` says that a sync is abandoned only after more than
`ABANDON_THRESHOLD` timeouts of real time since its first request. It
breaks if any one of these is wrong:

- the timeout test;
- the stamp of each request;
- the threshold test.

Run `resubmit_timer` (timeout 2 ms, threshold 3, `Width = 5`, 14 ms of
real time: enough for three spaced requests and the abandon, 1,594 states)
checks `TypeOK` and `AbandonNotEarly` under the monotonic clock spec §2
assumes.

Without that assumption the property fails. A TLC run of the same cfg with
`ClockMonotonic = FALSE` shows a 1 ms backward step right after a request
wrapping the unsigned difference. Every loop iteration then resubmits, and
the sync is abandoned within 2 ms of real time. This depends on the clock
behind `util::get_epoch_milliseconds`, which is not in the repository. It is
recorded as a hazard, not as a finding.

## 4. Proofs

### `LogSyncProofs.tla`

Proved with TLAPS, for every value of the constants that satisfies
`ConstantsAssumption`:

- `TypeCorrect`: `Spec => []TypeOK`.
- `JoiningPointOnLedgerHolds`: `Spec => []JoiningPointOnLedger`.

Both rest on the inductive invariant `IInv == TypeOK /\ JoiningPointOnLedger`.
`JoiningPointOnLedger` alone is not inductive: its preservation needs the
types of the index, the ledger and `minRec`. The argument:

- `ForkCorrect`: `set_joining_point_for_fork` returns one of three shapes:
  - the index unchanged with genesis;
  - the empty index with genesis;
  - the index cut at some `k` with `[seq |-> k, hash |-> ledger root at k]`.

  Each is well typed and on the ledger. The model defines the highest
  agreeing seq as a `CHOOSE` over the set of upper bounds. When that set is
  empty it falls back to the no-match branch. That never happens for a
  finite non-empty set, so TLC evaluates exactly the code's walk, and the
  proof does not need to show that a maximum exists.
- `VerifyCorrect`: each branch of `get_verified_min_record` answers 0 or 1.
  It stores a joining point on the ledger, or keeps the current one when it
  answers 1.
- One lemma per action. The ledger only grows by `Append`, so roots at
  existing seqs never change (`AppendProperties`). Responses and
  concatenations stay sequences of roots (`SubSeqProperties`,
  `ConcatProperties`, `HeadTailProperties`).
- `NextIInv` combines them. The theorems follow by `PTL`.

Only model-checked:

- `LogSyncTerminates`, because liveness is outside the prover's reach;
- the two violated properties.

### `ConfigProofs.tla`

Proved for every value of the constants satisfying `ConstantsAssumption`:

- `TypeCorrect`: `Spec => []TypeOK`;
- `PersistedRoleStableHolds`: `Spec => []PersistedRoleStable`.

The inductive invariant is `IInv == TypeOK /\ RunningHasConfig /\
PersistedRoleStable`, where `RunningHasConfig` says a running node has a
live config. The lock plays no part, since it does not keep other writers
out (`config_lock`). `ApplyPatchShape` and `PersistShape` state what the
writers can leave in hp.cfg:

- the file unchanged;
- a truncated file;
- a fresh read of hp.cfg with only the contract section, or only the known
  peers, replaced.

`RekeyIInv` shows the same for rekey, with the key and the UNL replaced.
`RoleKept` names this common shape, and `RoleStableStep` shows that a step
that has it, and starts no node, keeps `PersistedRoleStable`. One lemma per
action, then `NextIInv`, then `PTL`. `PersistedNodeSectionStable` is false
(finding 5), so it has no theorem.

### `LedgerStoreProofs.tla`

Proved for every value of the constants satisfying
`LedgerConstantsAssumption`:

- `TypeCorrect`: `Spec => []TypeOK`;
- `RawRowsMatchLedgerHolds`: `Spec => []RawRowsMatchLedger`;
- `LedgerRefinementHolds`: `Spec => LedgerRefinement`, that is, `LedgerStore`
  implements `AbsLedger` under `ledger <- ledgerTbl`;
- `RawRowsOnlyForNewestHolds`: `Spec => RawRowsOnlyForNewest`, the action
  property `[][RawRowAddedForNewest]_vars`.

The inductive invariant `IInv` adds the following to `TypeOK` and
`RawRowsMatchLedger`:

- `InitStepInRange`: the init step stays within its statement list;
- `LedgerContiguous`: the table's domain is 1..n, so it is a sequence;
- `SaveHasRound`: inside a save there is a round;
- `PendingIsNext`: at the primary COMMIT, the round's seq is `Len + 1` and
  the pending row is `Abs!NewRecord` of the table;
- `RawRoundCommitted`: past the primary COMMIT, the round's record is
  committed with its content, and no side row of its seq_no is;
- `PendingRawRows`: at the raw COMMIT the pending raw rows are the round's
  side rows, and otherwise there are none.

`PendingIsNext` carries the seq check and the last-row read from
`InsertLedger` to `CommitLedger`. This is what makes the commit step an
`AppendLedger`: `AppendContiguous` shows that adding key `n + 1` to a table
on 1..n is `Append` (`AppendProperties`, `SeqEqual`). `RawRoundCommitted`
and `PendingRawRows` give `RawRowsMatchLedger` at the raw COMMIT. There is
one lemma per action, then `NextIInv`; `RefinementStep` shows that every step
is an `Abs!Next` step or leaves `ledgerTbl` unchanged.

The action property needs one more conjunct, `RawRoundIsNewest`: while the
side rows are saved, every key of the ledger table is at most the round's
seq_no. `NInv == IInv /\ RawRoundIsNewest` is inductive:
`CommitLedgerNewest` shows the primary COMMIT adds key `n + 1 = cur.seq`
(from `PendingIsNext`), and no other step changes the table or the round
inside the raw steps. `RawRowStep` shows that under `NInv` every step
satisfies `[RawRowAddedForNewest]_vars`: only `CommitRaw` changes `rawTbl`,
and it adds exactly the pending rows, whose seq_no is the round's.

### `ResubmitTimerProofs.tla`

`AbandonNotEarlyHolds`: `ClockMonotonic => (Spec => []AbandonNotEarly)`, for
every width, timeout and threshold satisfying `TimerConstantsAssumption`.
`AbandonNotEarly` is not inductive, because it speaks only of the moment of
abandon. The strengthening has three parts:

- `ClockTracksReal`: `now = StartTime + real`;
- `StampCounted`: a stamp exists exactly when a request was counted;
- `RequestSpacing`: the real time since the first request is at least
  (`submissions` - 1) × (timeout + 1), plus the time since the last stamp.

`ElapsedNoWrap` shows that the modular difference is the plain one under the
monotonic clock. At abandon, `submissions = ABANDON_THRESHOLD` and the last
gap exceeds the timeout, so the elapsed real time is at least threshold ×
(timeout + 1). Without `ClockMonotonic` the theorem is false (see
`ResubmitTimer` above).

`TypeCorrect`: `Spec => []TypeOK` for any clock, including one that steps
back. The invariant `TInv` adds `ClockBehindReal` (the clock never reads
more than `StartTime + real`) and `firstAt <= real` to `TypeOK`.
`ClockReadingsBound` shows a tick yields a reading in 1..now+1 whichever
way the clock moves. The threshold test keeps `submissions` within
`0..ABANDON_THRESHOLD`.

### `ProposalTrustProofs.tla`

Proved for every UNL, set of honest keys, proposal set and value set
satisfying `ConstantsAssumption`:

- `TypeCorrect`: `Spec => []TypeOK`;
- `AcceptedConsensusFieldsSignedHolds`: `Spec => []AcceptedConsensusFieldsSigned`;
- `NoFalseRejectionHolds`: `Spec => []NoFalseRejection`.

The inductive invariant is `IInv == TypeOK /\ SigsAuthentic /\
AcceptedConsensusFieldsSigned /\ RejectedUntrusted`:

- `SigsAuthentic`: every message in transit whose signature is under an
  honest key carries that key's signature over the digest of a proposal it
  signed. Forwarders copy signatures and rewrite bodies, tamper fields and
  re-time messages, but cannot forge an honest signature, so this holds of
  every message they build.
- `RejectedUntrusted`: the latest rejected message failed
  `verify_proposal_msg_trust`.

`AcceptedConsensusFieldsSigned` alone is not inductive: a receipt accepts a
message from the network, and what it accepts depends on every message in
transit, which is what `SigsAuthentic` constrains. At a receipt,
`TrustedMeansVerified` gives the digest of the accepted body equal to the
signed digest. `FieldListsAgree` (the two copies of the field list in
`generate_proposal_signature` and `hash_proposal_msg` are equal, and leave
out only the node nonce) and `DigestAgrees` carry every signed field over
to the accepted body. `HonestSignedTrusted` and `RejectedUntrusted` give
`NoFalseRejection`. There is one lemma per action, then `NextIInv`, then
`PTL`.

### What stays model-checked only

- `LogSyncTerminates` (liveness under fairness) is beyond TLAPS, whose
  temporal reasoning here is limited to `PTL` over proved invariants.
- The violation runs' properties are false, so they have no proofs:
  `AppendedLogCanonical` and `SyncingHasTarget` of `LogSync`,
  `AcceptedProposalIntact` of `ProposalTrust`, `ConfigFilesConsistent` and
  `PersistedNodeSectionStable` of `Config`, `LedgerRowsHaveRawData` and
  `SchemaComplete`.
  `AbandonNotEarly` is proved only under `ClockMonotonic`; without it, it is
  false (see `ResubmitTimer` above).

## 5. Not modelled, and why

- Flatbuffer encoding and decoding: generated code. Of the conversions in
  `p2pmsg_conversion.cpp` 1-707, only the proposal path is modelled
  (`ProposalTrust`); the NPL, challenge, hpfs request and user input
  conversions move fields between flatbuffers and structs.
- `create_contract`, `set_contract_dir_paths`, `validate_contract_dir_paths`:
  directory creation and path strings.
- The read side of `ledger/sqlite.cpp` (`get_ledger_by_seq_no`,
  `get_ledger_by_hash`, `get_last_ledger_and_update_context` callers) and
  `close_db`: queries that change no state. `insert_rows` and the SQL text
  builders are string construction; the model keeps what the statements do.
- `open_db(..., journal=false)`: no caller in the repository passes it, so
  the model keeps SQLite's journaled transactions.
- The ledger builder that calls the store (spec §4.G) is not in the
  repository. Its order of calls is modelled from the spec and marked so.
- JSON reading and writing of the config: data formatting, except where a
  later Config module needs the fields.
- SQL text building: string construction.
- `examples/` and `test/`: a sample contract and deployment scripts.
- The vfs daemon, consensus, the ledger builder and block/state sync: not in
  this repository. Only their effect on log sync is modelled.
