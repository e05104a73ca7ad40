------------------------------- MODULE Config -------------------------------
(***************************************************************************)
(* The contract configuration of hpcore processes sharing one contract    *)
(* directory (conf.cpp, sc/contract_sync.cpp).                            *)
(*                                                                         *)
(* The config lock (set_config_lock) is a POSIX record lock on hp.cfg:   *)
(* util::set_lock takes the descriptor, a lock struct, a start and a      *)
(* length, and failure with EACCES or EAGAIN means another holder, as     *)
(* fcntl(F_SETLK) reports.  A node takes it at init and releases it at    *)
(* deinit; a rekey command takes it for its one write.  Such a lock is    *)
(* dropped when the process closes any descriptor of the file, and        *)
(* write_json_file opens hp.cfg and closes it.  A running node keeps the  *)
(* live config cfg; a synced patch                                        *)
(* file is applied to the live contract section and to a copy of hp.cfg   *)
(* that is then written back (apply_patch_config), and on success the UNL *)
(* and time config are refreshed and the patch hash recorded              *)
(* (on_sync_target_acheived).  At exit the known peers are persisted      *)
(* (persist_updated_configs).                                             *)
(*                                                                         *)
(* Abstraction: a config file is the record of the fields the properties  *)
(* tell apart (signing key, contract section, role, known peers); a       *)
(* contract section is its UNL and its version; a patch that fails JSON   *)
(* parsing or validation is BadPatch.  write_json_file opens hp.cfg with  *)
(* O_TRUNC and then writes: it succeeds, fails before truncating, or      *)
(* leaves a truncated file (Corrupt).                                     *)
(***************************************************************************)
EXTENDS Integers, FiniteSets

CONSTANTS
    Procs,          \* hpcore processes started on the contract directory
    Keys,           \* signing public keys
    Vers,           \* contract versions
    Peers,          \* known peer addresses
    PatchContents,  \* patch.cfg contents consensus may sync
    InitFile,       \* hp.cfg as created by create_contract / the operator
    MaxSyncs        \* bound: patch syncs explored

Roles == {"observer", "validator"}

\* A contract section that parse_contract_section_json accepts (unl non-empty).
ContractRec == [unl : (SUBSET Keys) \ {{}}, ver : Vers]

\* The fields of hp_config the model keeps.
ConfigRec == [key : Keys, contract : ContractRec, role : Roles, peers : SUBSET Peers]

BadPatch == [bad |-> TRUE]
Corrupt == [corrupt |-> TRUE]
NoProc == "none"
NoCfg == [nocfg |-> TRUE]
None == [none |-> TRUE]

ASSUME ConstantsAssumption ==
    /\ NoProc \notin Procs
    /\ PatchContents \subseteq ContractRec \cup {BadPatch}
    /\ InitFile \in ConfigRec
    /\ MaxSyncs \in Nat

VARIABLES
    file,         \* hp.cfg: a ConfigRec or Corrupt
    lock,         \* the process holding the config lock, or NoProc
    pc,           \* "down" or "running" for each process
    live,         \* conf::cfg of a running process
    startupRole,  \* conf::startup_role
    runtime,      \* the contract section the UNL and time config were refreshed from
    recorded,     \* the patch content whose hash fs_mount->set_parent_hash recorded
    syncs         \* patch syncs so far

vars == <<file, lock, pc, live, startupRole, runtime, recorded, syncs>>

-----------------------------------------------------------------------------
(* read_config: the parsed hp.cfg, or failure on an unreadable file.      *)
ReadConfigFails == file = Corrupt

(* write_json_file: the outcomes of writing new contents to hp.cfg:       *)
(* written, open failed (file untouched), or write failed after O_TRUNC;  *)
(* closed says whether a descriptor of hp.cfg was opened and closed.      *)
WriteJsonFile(new) ==
    {[ok |-> TRUE, file |-> new, closed |-> TRUE],
     [ok |-> FALSE, file |-> file, closed |-> FALSE],
     [ok |-> FALSE, file |-> Corrupt, closed |-> TRUE]}

(* write_config: serialises every field of the given config.              *)
WriteConfig(cfg) == WriteJsonFile(cfg)

\* Fault variant: the patch section is taken without its validations.
ParsePatchOkUnchecked(c) == TRUE

(* parse_contract_section_json on a patch document: does it succeed?      *)
ParsePatchOk(c) == c \in ContractRec

(* set_config_lock: the lock is free (another holder makes it fail).      *)
SetConfigLockOk(p) == lock = NoProc

(* The lock after process p closes a descriptor of hp.cfg, or releases    *)
(* the lock (release_config_lock), or dies: p's record lock is gone, and  *)
(* a lock another process took in the meantime stays.                    *)
DropLock(p) == IF lock = p THEN NoProc ELSE lock

\* Fault variant: hp.cfg is written from the live config, not a fresh read.
ApplyPatchConfigFromLive(p, c) ==
    {[res |-> -1, contract |-> live[p].contract, file |-> file, closed |-> FALSE]}
    \cup IF ~ParsePatchOk(c) \/ ReadConfigFails THEN {}
         ELSE {[res |-> IF w.ok THEN 0 ELSE -1, contract |-> c, file |-> w.file,
                closed |-> w.closed] :
               w \in WriteConfig([live[p] EXCEPT !.contract = c])}

(* apply_patch_config: the result, the live contract section and hp.cfg   *)
(* it can leave.  Opening, reading or parsing the patch, reading hp.cfg   *)
(* into temp_cfg, or parsing into temp_cfg can fail with nothing changed; *)
(* after the live section is parsed, write_config(temp_cfg) can fail.     *)
ApplyPatchConfig(p, c) ==
    {[res |-> -1, contract |-> live[p].contract, file |-> file, closed |-> FALSE]}
    \cup IF ~ParsePatchOk(c) \/ ReadConfigFails THEN {}
         ELSE {[res |-> IF w.ok THEN 0 ELSE -1, contract |-> c, file |-> w.file,
                closed |-> w.closed] :
               w \in WriteConfig([file EXCEPT !.contract = c])}

(* persist_updated_configs: hp.cfg contents after the known peers of p    *)
(* are persisted into a fresh read of hp.cfg.                             *)
PersistUpdatedConfigs(p) ==
    IF ReadConfigFails \/ live[p].peers = {} THEN {file}
    ELSE {w.file : w \in WriteConfig([file EXCEPT !.peers = live[p].peers])}

-----------------------------------------------------------------------------
Init ==
    /\ file = InitFile
    /\ lock = NoProc
    /\ pc = [p \in Procs |-> "down"]
    /\ live = [p \in Procs |-> NoCfg]
    /\ startupRole = [p \in Procs |-> "validator"]
    /\ runtime = [p \in Procs |-> None]
    /\ recorded = [p \in Procs |-> None]
    /\ syncs = 0

(* init: take the config lock, read and validate hp.cfg.  On failure the  *)
(* lock is released and the process exits.  The UNL and time config are   *)
(* loaded from the contract section read.                                 *)
StartNode(p) ==
    /\ pc[p] = "down"
    /\ IF ~SetConfigLockOk(p) \/ ReadConfigFails
         THEN UNCHANGED <<file, lock, pc, live, startupRole, runtime, recorded>>
         ELSE /\ lock' = p
              /\ pc' = [pc EXCEPT ![p] = "running"]
              /\ live' = [live EXCEPT ![p] = file]
              /\ startupRole' = [startupRole EXCEPT ![p] = file.role]
              /\ runtime' = [runtime EXCEPT ![p] = file.contract]
              /\ recorded' = [recorded EXCEPT ![p] = None]
              /\ UNCHANGED file
    /\ UNCHANGED syncs

(* rekey: under the lock, read hp.cfg, generate a key pair, replace the   *)
(* old public key in the UNL by the new one and write hp.cfg.  Every      *)
(* failure returns; the process exits and the OS drops its lock.          *)
Rekey(p) ==
    /\ pc[p] = "down"
    /\ IF ~SetConfigLockOk(p) \/ ReadConfigFails
          \/ file.key \notin file.contract.unl
         THEN UNCHANGED file
         ELSE \E k \in Keys \ {file.key} :
                file' \in {w.file : w \in WriteConfig(
                    [file EXCEPT !.key = k,
                                 !.contract.unl = (@ \ {file.key}) \cup {k}])}
    /\ UNCHANGED <<lock, pc, live, startupRole, runtime, recorded, syncs>>

(* change_role: a node started as observer never changes role.            *)
ChangeRole(p, r) ==
    /\ pc[p] = "running"
    /\ startupRole[p] # "observer"
    /\ live[p].role # r
    /\ live' = [live EXCEPT ![p].role = r]
    /\ UNCHANGED <<file, lock, pc, startupRole, runtime, recorded, syncs>>

(* Peer discovery replaces the node's known peer list.                   *)
DiscoverPeers(p, ps) ==
    /\ pc[p] = "running"
    /\ live[p].peers # ps
    /\ live' = [live EXCEPT ![p].peers = ps]
    /\ UNCHANGED <<file, lock, pc, startupRole, runtime, recorded, syncs>>

(* The patch file reaches its sync target c and on_sync_target_acheived   *)
(* applies it; on success the UNL and time config are refreshed from the *)
(* live contract section and the patch hash is recorded.  Writing hp.cfg *)
(* closes a descriptor of it, which drops p's config lock.               *)
PatchSynced(p, c) ==
    /\ pc[p] = "running"
    /\ syncs < MaxSyncs
    /\ syncs' = syncs + 1
    /\ \E o \in ApplyPatchConfig(p, c) :
         /\ live' = [live EXCEPT ![p].contract = o.contract]
         /\ file' = o.file
         /\ lock' = IF o.closed THEN DropLock(p) ELSE lock
         /\ IF o.res = 0
              THEN /\ runtime' = [runtime EXCEPT ![p] = o.contract]
                   /\ recorded' = [recorded EXCEPT ![p] = c]
              ELSE UNCHANGED <<runtime, recorded>>
    /\ UNCHANGED <<pc, startupRole>>

(* deinit: persist the updated config fields, then release the lock.     *)
Deinit(p) ==
    /\ pc[p] = "running"
    /\ file' \in PersistUpdatedConfigs(p)
    /\ lock' = DropLock(p)
    /\ pc' = [pc EXCEPT ![p] = "down"]
    /\ live' = [live EXCEPT ![p] = NoCfg]
    /\ UNCHANGED <<startupRole, runtime, recorded, syncs>>

(* The process is killed: nothing is persisted; the OS drops its lock.   *)
Crash(p) ==
    /\ pc[p] = "running"
    /\ lock' = DropLock(p)
    /\ pc' = [pc EXCEPT ![p] = "down"]
    /\ live' = [live EXCEPT ![p] = NoCfg]
    /\ UNCHANGED <<file, startupRole, runtime, recorded, syncs>>

Next ==
    \E p \in Procs :
        \/ StartNode(p)
        \/ Rekey(p)
        \/ \E r \in Roles : ChangeRole(p, r)
        \/ \E ps \in SUBSET Peers : DiscoverPeers(p, ps)
        \/ \E c \in PatchContents : PatchSynced(p, c)
        \/ Deinit(p)
        \/ Crash(p)

Spec == Init /\ [][Next]_vars

-----------------------------------------------------------------------------
TypeOK ==
    /\ file \in ConfigRec \cup {Corrupt}
    /\ lock \in Procs \cup {NoProc}
    /\ pc \in [Procs -> {"down", "running"}]
    /\ live \in [Procs -> ConfigRec \cup {NoCfg}]
    /\ startupRole \in [Procs -> Roles]
    /\ runtime \in [Procs -> ContractRec \cup {None}]
    /\ recorded \in [Procs -> PatchContents \cup {None}]
    /\ syncs \in 0..MaxSyncs

(***************************************************************************)
(* hp.cfg never receives runtime-only state: while a node runs and hp.cfg *)
(* is readable, its role is the node's startup role, although change_role *)
(* changes the live role, other nodes may start, patches are applied and  *)
(* exiting nodes persist their peers.  It needs every write of hp.cfg     *)
(* (apply_patch_config, persist_updated_configs, rekey) to start from a   *)
(* fresh read of the file rather than from a live config.                 *)
(***************************************************************************)
PersistedRoleStable ==
    \A p \in Procs :
        pc[p] = "running" /\ file # Corrupt => file.role = startupRole[p]

(***************************************************************************)
(* The single-instance guard (spec.md 5: a second process cannot acquire  *)
(* the lock): hp.cfg is never overwritten behind a running node, so while *)
(* a node runs and hp.cfg is readable it holds the node's signing key and *)
(* its startup role.  This needs the config lock to keep rekey and a      *)
(* second node out for as long as the node runs.                          *)
(***************************************************************************)
PersistedNodeSectionStable ==
    \A p \in Procs :
        pc[p] = "running" /\ file # Corrupt =>
            /\ file.key = live[p].key
            /\ file.role = startupRole[p]

(***************************************************************************)
(* The comment on apply_patch_config: a patch is also persisted to hp.cfg *)
(* "so that both config files are consistent with each other": while a   *)
(* node runs and hp.cfg is readable, its contract section is the live one.*)
(***************************************************************************)
ConfigFilesConsistent ==
    \A p \in Procs :
        pc[p] = "running" /\ file # Corrupt =>
            file.contract = live[p].contract

=============================================================================
