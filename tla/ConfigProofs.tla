---------------------------- MODULE ConfigProofs ----------------------------
(***************************************************************************)
(* Proofs about Config: type correctness, and that no runtime-only role   *)
(* reaches hp.cfg, for every value of the constants.                      *)
(*                                                                         *)
(* The config lock plays no part: it is dropped when a node's patch write *)
(* closes hp.cfg, so rekey and other nodes may write hp.cfg while a node  *)
(* runs (the violation PersistedNodeSectionStable).  The role survives    *)
(* because every writer of hp.cfg starts from a fresh read of the file    *)
(* and changes only its own field.                                        *)
(***************************************************************************)
EXTENDS Config, TLAPS

(* A running node has a live config.                                      *)
RunningHasConfig ==
    \A p \in Procs : pc[p] = "running" => live[p] \in ConfigRec

IInv ==
    /\ TypeOK
    /\ RunningHasConfig
    /\ PersistedRoleStable

(* A write of hp.cfg kept the role: hp.cfg is unchanged, truncated, or a  *)
(* config with the role it had.                                           *)
RoleKept ==
    \/ file' = file
    \/ file' = Corrupt
    \/ file \in ConfigRec /\ file'.role = file.role

-----------------------------------------------------------------------------
(* A truncated hp.cfg is not a config.                                   *)
LEMMA CorruptNotConfig == Corrupt \notin ConfigRec
BY DEF Corrupt, ConfigRec

(* What apply_patch_config can return: nothing changed, or the patch      *)
(* parsed into the live section with hp.cfg written, kept or truncated.   *)
LEMMA ApplyPatchShape ==
    ASSUME TypeOK, NEW p \in Procs, NEW c \in PatchContents,
           NEW o \in ApplyPatchConfig(p, c)
    PROVE  \/ o = [res |-> -1, contract |-> live[p].contract, file |-> file,
                   closed |-> FALSE]
           \/ /\ c \in ContractRec
              /\ file \in ConfigRec
              /\ o.contract = c
              /\ o.file \in {[file EXCEPT !.contract = c], file, Corrupt}
              /\ o.res = 0 => o.file = [file EXCEPT !.contract = c]
<1>1. CASE ~ParsePatchOk(c) \/ ReadConfigFails
  BY <1>1 DEF ApplyPatchConfig
<1>2. CASE ~(~ParsePatchOk(c) \/ ReadConfigFails)
  <2>1. c \in ContractRec /\ file \in ConfigRec
    BY <1>2 DEF ParsePatchOk, ReadConfigFails, TypeOK
  <2>2. \/ o = [res |-> -1, contract |-> live[p].contract, file |-> file,
               closed |-> FALSE]
        \/ \E w \in WriteConfig([file EXCEPT !.contract = c]) :
              o = [res |-> IF w.ok THEN 0 ELSE -1, contract |-> c, file |-> w.file,
                   closed |-> w.closed]
    BY <1>2, Zenon DEF ApplyPatchConfig
  <2>3. QED
    BY <2>1, <2>2 DEF WriteConfig, WriteJsonFile
<1>3. QED
  BY <1>1, <1>2

(* What persist_updated_configs can leave in hp.cfg.                      *)
LEMMA PersistShape ==
    ASSUME TypeOK, NEW p \in Procs, live[p] \in ConfigRec,
           NEW f \in PersistUpdatedConfigs(p)
    PROVE  \/ f = file
           \/ f = Corrupt
           \/ file \in ConfigRec /\ f = [file EXCEPT !.peers = live[p].peers]
<1>1. CASE ReadConfigFails \/ live[p].peers = {}
  BY <1>1 DEF PersistUpdatedConfigs
<1>2. CASE ~(ReadConfigFails \/ live[p].peers = {})
  <2>1. file \in ConfigRec
    BY <1>2 DEF ReadConfigFails, TypeOK
  <2>2. \E w \in WriteConfig([file EXCEPT !.peers = live[p].peers]) : f = w.file
    BY <1>2, Zenon DEF PersistUpdatedConfigs
  <2>3. QED
    BY <2>1, <2>2 DEF WriteConfig, WriteJsonFile
<1>3. QED
  BY <1>1, <1>2

-----------------------------------------------------------------------------
(* A step that keeps the running nodes, their startup roles and the role  *)
(* of hp.cfg keeps PersistedRoleStable.                                    *)
LEMMA RoleStableStep ==
    ASSUME PersistedRoleStable, RoleKept,
           \A q \in Procs : pc'[q] = "running" =>
                               pc[q] = "running" /\ startupRole'[q] = startupRole[q]
    PROVE  PersistedRoleStable'
<1> SUFFICES ASSUME NEW q \in Procs, pc'[q] = "running", file' # Corrupt
             PROVE  file'.role = startupRole'[q]
  BY DEF PersistedRoleStable
<1>1. pc[q] = "running" /\ startupRole'[q] = startupRole[q]
  OBVIOUS
<1>2. file # Corrupt
  BY CorruptNotConfig DEF RoleKept
<1>3. file.role = startupRole[q]
  BY <1>1, <1>2 DEF PersistedRoleStable
<1>. QED
  BY <1>1, <1>3 DEF RoleKept

LEMMA InitIInv == Init => IInv
<1> SUFFICES ASSUME Init PROVE IInv
  OBVIOUS
<1>1. TypeOK
  BY ConstantsAssumption DEF Init, TypeOK, Roles
<1>2. RunningHasConfig /\ PersistedRoleStable
  BY ConstantsAssumption DEF Init, RunningHasConfig, PersistedRoleStable
<1>3. QED
  BY <1>1, <1>2 DEF IInv

LEMMA StartNodeIInv ==
    ASSUME IInv, NEW p \in Procs, StartNode(p)
    PROVE  IInv'
<1>1. CASE ~SetConfigLockOk(p) \/ ReadConfigFails
  <2>1. UNCHANGED vars
    BY <1>1 DEF StartNode, vars
  <2>2. QED
    BY <2>1 DEF vars, IInv, TypeOK, RunningHasConfig, PersistedRoleStable
<1>2. CASE ~(~SetConfigLockOk(p) \/ ReadConfigFails)
  <2>1. file \in ConfigRec /\ pc[p] = "down"
    BY <1>2 DEF StartNode, ReadConfigFails, IInv, TypeOK
  <2>3. /\ lock' = p
        /\ pc' = [pc EXCEPT ![p] = "running"]
        /\ live' = [live EXCEPT ![p] = file]
        /\ startupRole' = [startupRole EXCEPT ![p] = file.role]
        /\ runtime' = [runtime EXCEPT ![p] = file.contract]
        /\ recorded' = [recorded EXCEPT ![p] = None]
        /\ UNCHANGED <<file, syncs>>
    BY <1>2 DEF StartNode
  <2>4. TypeOK'
    BY <2>1, <2>3 DEF IInv, TypeOK, ConfigRec
  <2>5. RunningHasConfig'
    BY <2>1, <2>3 DEF IInv, TypeOK, RunningHasConfig
  <2>6. PersistedRoleStable'
    BY <2>1, <2>3 DEF IInv, TypeOK, PersistedRoleStable
  <2>7. QED
    BY <2>4, <2>5, <2>6 DEF IInv
<1>3. QED
  BY <1>1, <1>2

LEMMA RekeyIInv ==
    ASSUME IInv, NEW p \in Procs, Rekey(p)
    PROVE  IInv'
<1>1. UNCHANGED <<lock, pc, live, startupRole, runtime, recorded, syncs>>
  BY DEF Rekey
<1>2. file' \in ConfigRec \cup {Corrupt} /\ RoleKept
  <2>1. CASE ~SetConfigLockOk(p) \/ ReadConfigFails
                \/ file.key \notin file.contract.unl
    BY <2>1 DEF Rekey, IInv, TypeOK, RoleKept
  <2>2. CASE ~(~SetConfigLockOk(p) \/ ReadConfigFails
                \/ file.key \notin file.contract.unl)
    <3>1. file \in ConfigRec
      BY <2>2 DEF ReadConfigFails, IInv, TypeOK
    <3>2. PICK k \in Keys \ {file.key} :
             file' \in {w.file : w \in WriteConfig(
                 [file EXCEPT !.key = k,
                              !.contract.unl = (@ \ {file.key}) \cup {k}])}
      BY <2>2 DEF Rekey
    <3> DEFINE new == [file EXCEPT !.key = k,
                                   !.contract.unl = (@ \ {file.key}) \cup {k}]
    <3>3. new \in ConfigRec /\ new.role = file.role
      <4>1. (file.contract.unl \ {file.key}) \cup {k} \in (SUBSET Keys) \ {{}}
        BY <3>1 DEF ConfigRec, ContractRec
      <4>2. QED
        BY <3>1, <4>1 DEF ConfigRec, ContractRec
    <3>4. file' \in {w.file : w \in WriteConfig(new)}
      BY <3>2
    <3>5. {w.file : w \in WriteConfig(new)} = {new, file, Corrupt}
      BY DEF WriteConfig, WriteJsonFile
    <3>6. QED
      BY <3>1, <3>3, <3>4, <3>5 DEF RoleKept
  <2>3. QED
    BY <2>1, <2>2
<1>3. PersistedRoleStable'
  BY <1>1, <1>2, RoleStableStep DEF IInv
<1>4. QED
  BY <1>1, <1>2, <1>3 DEF IInv, TypeOK, RunningHasConfig

LEMMA ChangeRoleIInv ==
    ASSUME IInv, NEW p \in Procs, NEW r \in Roles, ChangeRole(p, r)
    PROVE  IInv'
<1>1. /\ live[p] \in ConfigRec
      /\ live' = [live EXCEPT ![p].role = r]
      /\ UNCHANGED <<file, lock, pc, startupRole, runtime, recorded, syncs>>
  BY DEF ChangeRole, IInv, RunningHasConfig
<1>2. live'[p] \in ConfigRec
  BY <1>1 DEF IInv, TypeOK, ConfigRec
<1>3. QED
  BY <1>1, <1>2 DEF IInv, TypeOK, RunningHasConfig, PersistedRoleStable

LEMMA DiscoverPeersIInv ==
    ASSUME IInv, NEW p \in Procs, NEW ps \in SUBSET Peers, DiscoverPeers(p, ps)
    PROVE  IInv'
<1>1. /\ live[p] \in ConfigRec
      /\ live' = [live EXCEPT ![p].peers = ps]
      /\ UNCHANGED <<file, lock, pc, startupRole, runtime, recorded, syncs>>
  BY DEF DiscoverPeers, IInv, RunningHasConfig
<1>2. live'[p] \in ConfigRec
  BY <1>1 DEF IInv, TypeOK, ConfigRec
<1>3. QED
  BY <1>1, <1>2 DEF IInv, TypeOK, RunningHasConfig, PersistedRoleStable

(* Dropping p's lock leaves a process or no holder.                       *)
LEMMA DropLockType ==
    ASSUME TypeOK, NEW p \in Procs
    PROVE  DropLock(p) \in Procs \cup {NoProc}
BY DEF DropLock, TypeOK

LEMMA PatchSyncedIInv ==
    ASSUME IInv, NEW p \in Procs, NEW c \in PatchContents, PatchSynced(p, c)
    PROVE  IInv'
<1>1. PICK o \in ApplyPatchConfig(p, c) :
         /\ live' = [live EXCEPT ![p].contract = o.contract]
         /\ file' = o.file
         /\ lock' = IF o.closed THEN DropLock(p) ELSE lock
         /\ IF o.res = 0
              THEN /\ runtime' = [runtime EXCEPT ![p] = o.contract]
                   /\ recorded' = [recorded EXCEPT ![p] = c]
              ELSE UNCHANGED <<runtime, recorded>>
  BY DEF PatchSynced
<1>2. /\ pc[p] = "running" /\ live[p] \in ConfigRec
      /\ syncs' = syncs + 1 /\ syncs < MaxSyncs
      /\ UNCHANGED <<pc, startupRole>>
  BY DEF PatchSynced, IInv, RunningHasConfig
<1>0. lock' \in Procs \cup {NoProc}
  BY <1>1, DropLockType DEF IInv, TypeOK
<1>9. syncs' \in 0..MaxSyncs
  BY <1>2, ConstantsAssumption DEF IInv, TypeOK
<1>3. CASE o = [res |-> -1, contract |-> live[p].contract, file |-> file,
                closed |-> FALSE]
  <2>0. o.res = -1 /\ o.contract = live[p].contract /\ o.file = file
    BY <1>3
  <2>a. [live[p] EXCEPT !.contract = live[p].contract] = live[p]
    BY <1>2 DEF ConfigRec
  <2>1. /\ live' = live /\ file' = file
        /\ UNCHANGED <<runtime, recorded>>
    BY <1>1, <2>0, <2>a DEF IInv, TypeOK
  <2>3. QED
    BY <1>0, <1>2, <1>9, <2>1 DEF IInv, TypeOK, RunningHasConfig,
                                   PersistedRoleStable
<1>4. CASE /\ c \in ContractRec
           /\ file \in ConfigRec
           /\ o.contract = c
           /\ o.file \in {[file EXCEPT !.contract = c], file, Corrupt}
           /\ o.res = 0 => o.file = [file EXCEPT !.contract = c]
  <2>1. live'[p] \in ConfigRec
    BY <1>1, <1>2, <1>4 DEF IInv, TypeOK, ConfigRec
  <2>2. file' \in ConfigRec \cup {Corrupt}
    BY <1>1, <1>4 DEF ConfigRec
  <2>3. RoleKept
    <3>1. [file EXCEPT !.contract = c].role = file.role
      BY <1>4 DEF ConfigRec
    <3>2. QED
      BY <1>1, <1>4, <3>1 DEF RoleKept
  <2>4. runtime' \in [Procs -> ContractRec \cup {None}]
        /\ recorded' \in [Procs -> PatchContents \cup {None}]
    BY <1>1, <1>4 DEF IInv, TypeOK
  <2>6. TypeOK'
    BY <1>0, <1>1, <1>2, <1>9, <2>1, <2>2, <2>4 DEF IInv, TypeOK
  <2>7. RunningHasConfig'
    BY <1>1, <1>2, <2>1 DEF IInv, TypeOK, RunningHasConfig
  <2>8. PersistedRoleStable'
    BY <1>2, <2>3, RoleStableStep DEF IInv
  <2>9. QED
    BY <2>6, <2>7, <2>8 DEF IInv
<1>5. QED
  BY <1>3, <1>4, ApplyPatchShape DEF IInv

LEMMA DeinitIInv ==
    ASSUME IInv, NEW p \in Procs, Deinit(p)
    PROVE  IInv'
<1>1. /\ pc[p] = "running" /\ live[p] \in ConfigRec
      /\ file' \in PersistUpdatedConfigs(p)
      /\ lock' = DropLock(p)
      /\ pc' = [pc EXCEPT ![p] = "down"]
      /\ live' = [live EXCEPT ![p] = NoCfg]
      /\ UNCHANGED <<startupRole, runtime, recorded, syncs>>
  BY DEF Deinit, IInv, RunningHasConfig
<1>2. file' \in ConfigRec \cup {Corrupt} /\ RoleKept
  <2>1. \/ file' = file
        \/ file' = Corrupt
        \/ file \in ConfigRec /\ file' = [file EXCEPT !.peers = live[p].peers]
    BY <1>1, PersistShape DEF IInv
  <2>2. file \in ConfigRec => [file EXCEPT !.peers = live[p].peers] \in ConfigRec
                              /\ [file EXCEPT !.peers = live[p].peers].role = file.role
    BY <1>1 DEF ConfigRec
  <2>3. QED
    BY <2>1, <2>2 DEF IInv, TypeOK, RoleKept
<1>3. \A q \in Procs : pc'[q] = "running" =>
                          pc[q] = "running" /\ startupRole'[q] = startupRole[q]
  BY <1>1 DEF IInv, TypeOK
<1>4. TypeOK'
  BY <1>1, <1>2, DropLockType DEF IInv, TypeOK
<1>5. RunningHasConfig'
  BY <1>1 DEF IInv, TypeOK, RunningHasConfig
<1>6. QED
  BY <1>2, <1>3, <1>4, <1>5, RoleStableStep DEF IInv

LEMMA CrashIInv ==
    ASSUME IInv, NEW p \in Procs, Crash(p)
    PROVE  IInv'
<1>1. /\ pc[p] = "running"
      /\ lock' = DropLock(p)
      /\ pc' = [pc EXCEPT ![p] = "down"]
      /\ live' = [live EXCEPT ![p] = NoCfg]
      /\ UNCHANGED <<file, startupRole, runtime, recorded, syncs>>
  BY DEF Crash
<1>2. TypeOK'
  BY <1>1, DropLockType DEF IInv, TypeOK
<1>3. QED
  BY <1>1, <1>2 DEF IInv, TypeOK, RunningHasConfig, PersistedRoleStable

LEMMA NextIInv ==
    ASSUME IInv, [Next]_vars
    PROVE  IInv'
<1>1. CASE UNCHANGED vars
  BY <1>1 DEF vars, IInv, TypeOK, RunningHasConfig, PersistedRoleStable
<1>2. CASE Next
  <2>1. PICK p \in Procs :
           \/ StartNode(p)
           \/ Rekey(p)
           \/ \E r \in Roles : ChangeRole(p, r)
           \/ \E ps \in SUBSET Peers : DiscoverPeers(p, ps)
           \/ \E c \in PatchContents : PatchSynced(p, c)
           \/ Deinit(p)
           \/ Crash(p)
    BY <1>2 DEF Next
  <2>2. QED
    BY <2>1, StartNodeIInv, RekeyIInv, ChangeRoleIInv, DiscoverPeersIInv,
       PatchSyncedIInv, DeinitIInv, CrashIInv
<1>3. QED
  BY <1>1, <1>2

-----------------------------------------------------------------------------
(***************************************************************************)
(* Every reachable state is well typed: hp.cfg is a config or a truncated *)
(* file, the lock is held by a process or free, and every running node   *)
(* has a live config (init, apply_patch_config, persist_updated_configs, *)
(* rekey, change_role, release_config_lock).                              *)
(***************************************************************************)
THEOREM TypeCorrect == Spec => []TypeOK
<1>1. Init => IInv
  BY InitIInv
<1>2. IInv /\ [Next]_vars => IInv'
  BY NextIInv
<1>3. IInv => TypeOK
  BY DEF IInv
<1>4. QED
  BY <1>1, <1>2, <1>3, PTL DEF Spec

(***************************************************************************)
(* For every number of processes, keys and patches: while a node runs and *)
(* hp.cfg is readable, hp.cfg holds the node's startup role, whatever     *)
(* change_role does to the live role and whoever writes hp.cfg, since     *)
(* apply_patch_config, persist_updated_configs and rekey each write a     *)
(* fresh read of hp.cfg with only their own field changed.                *)
(***************************************************************************)
THEOREM PersistedRoleStableHolds == Spec => []PersistedRoleStable
<1>1. Init => IInv
  BY InitIInv
<1>2. IInv /\ [Next]_vars => IInv'
  BY NextIInv
<1>3. IInv => PersistedRoleStable
  BY DEF IInv
<1>4. QED
  BY <1>1, <1>2, <1>3, PTL DEF Spec

=============================================================================
