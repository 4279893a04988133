-------------------------- MODULE DeviceLifecycle --------------------------
(***************************************************************************)
(* The life of a VPN profile under the panel's process-wide lifecycle lock *)
(* (core._wireguard_lock): creation, deletion, account deletion, pause and *)
(* resume, the permanent Safe internet policy, deletion protection, the    *)
(* panel's startup and the host's boot.                                    *)
(*                                                                         *)
(* The lock admits one transaction at a time; pc is the step it is at and  *)
(* txn its local variables.  A step is one call that leaves the process: a *)
(* file replaced (users.json, device_meta.json, account_policy.json), a    *)
(* helper run, an nftables transaction.  Between two steps the panel may   *)
(* crash, the host may reboot, and requests that write users.json without  *)
(* the lifecycle lock (registration, approval, rejection) may run.         *)
(*                                                                         *)
(* Simplifications.  Every name is a generated one; the guesses migration  *)
(* makes about legacy names are left out.  The infrastructure registry is  *)
(* complete and constant (module InfrastructureAdoption changes it).       *)
(* Device limits are constant.  What a file holds survives a reboot.       *)
(***************************************************************************)
EXTENDS PeerStore, Integers

CONSTANTS
    Users,        \* login names
    Admins,       \* the users with role "admin"
    Owner,        \* the user each generated name belongs to
    Limit,        \* max_devices of each user, -1 for no limit
    InfraAddrs,   \* addresses claimed by infrastructure peers
    Faults,       \* which failures happen, see FaultKinds
    Maintenance   \* which operator-only changes happen: "protect", "unprotect"

\* "helper": a helper fails and rolls back.  "torn": it fails halfway.
\* "lost": a write fails and changes nothing.  "committed": os.replace took
\* effect and a later chmod or unlink raised.  "firewall": safe-dns.sh fails,
\* before or after the kernel took the batch.  "crash", "reboot": as named.
FaultKinds == {"helper", "torn", "lost", "committed", "firewall", "crash", "reboot"}

ASSUME OwnerAssumption  == Owner \in [Devices -> Users]
ASSUME AdminsAssumption == Admins \subseteq Users
ASSUME LimitAssumption  == Limit \in [Users -> Nat \cup {-1}]
ASSUME InfraAssumption  == InfraAddrs \subseteq Addrs
ASSUME FaultsAssumption == Faults \subseteq FaultKinds
ASSUME MaintenanceAssumption == Maintenance \subseteq {"protect", "unprotect"}

VARIABLES
    users,    \* users.json: per login, the flags of its record
    policy,   \* account_policy.json: the owners locked to Safe internet
    meta,     \* device_meta.json: per name, the flags of its record
    store,    \* what the helpers keep, see PeerStore
    nft,      \* addresses matched by the managed nftables set
    host,     \* "booting" -> "dnsReady" -> "up" (wg0 exists)
    panel,    \* "down" -> "starting" -> "serving"
    pc,       \* the step the transaction holding the lock is at
    txn       \* its local variables

vars == <<users, policy, meta, store, nft, host, panel, pc, txn>>

UserRecords == [present : BOOLEAN, approved : BOOLEAN, paused : BOOLEAN,
                pending : BOOLEAN, revoking : BOOLEAN]
MetaRecords == [present : BOOLEAN, safe : BOOLEAN, locked : BOOLEAN,
                revoked : BOOLEAN, provisioning : BOOLEAN, delprot : BOOLEAN]

\* A missing key reads as a record whose every flag is false.
NoUser == [present |-> FALSE, approved |-> FALSE, paused |-> FALSE,
           pending |-> FALSE, revoking |-> FALSE]
NoMeta == [present |-> FALSE, safe |-> FALSE, locked |-> FALSE,
           revoked |-> FALSE, provisioning |-> FALSE, delprot |-> FALSE]

NewUser   == [NoUser EXCEPT !.present = TRUE]
NewMeta   == [NoMeta EXCEPT !.present = TRUE]
Incomplete == [NewMeta EXCEPT !.provisioning = TRUE]
Tombstone == [NoMeta EXCEPT !.present = TRUE, !.safe = TRUE, !.locked = TRUE,
                            !.revoked = TRUE]

\* txn.kind names the operation.  user, dev: its subject; todo, queue: the
\* devices and users its loops have still to visit; bad: a failure was noted;
\* prev: metadata to restore; old, new: the address sets computed up front.
Nobody == "nobody"
NoTxn == [kind |-> "none", user |-> Nobody, dev |-> Nobody, todo |-> {},
          queue |-> {}, bad |-> FALSE, prev |-> NoMeta, old |-> {}, new |-> {}]

Kinds == {"none", "start", "create", "delete", "confirmed", "deleteUser", "pause", "resume",
          "account", "protect", "unprotect"}

Steps == {"idle", "migrate", "startPauses", "startDns",
          "addClient", "createMeta", "createSync", "createResume",
          "createPublish", "rollbackRemove", "rollbackMeta", "rollbackSync",
          "removeClient", "markRevoked", "deleteSync", "dropMeta", "deleteUndo",
          "nextDevice", "pauseNext", "resumeSync", "resumeNext", "repause",
          "savePolicy", "undoPolicy", "saveSafe", "undoSafe"}

-----------------------------------------------------------------------------
(* What the code reads *)

Owned(u) == {d \in Devices : Owner[d] = u}

\* effective_safe_internet, for the entries of a policy pol.
Effective(d, pol) == meta[d].safe \/ Owner[d] \in pol

\* Mutants: the account's policy, or the device's own flag, is forgotten.
SafeDevicesByFlag(pol) ==
    {d \in Devices : meta[d].present /\ ~meta[d].revoked /\ meta[d].safe}
SafeDevicesByPolicy(pol) ==
    {d \in Devices : meta[d].present /\ ~meta[d].revoked /\ Owner[d] \in pol}

SafeDevices(pol) ==
    {d \in Devices : meta[d].present /\ ~meta[d].revoked /\ Effective(d, pol)}

\* _safe_dns_ips raises when a safe device has no readable configuration.
Resolved(D) == D \subseteq Configured(store)

\* Mutant: the infrastructure addresses are left out of the set.
PersonalIpsOf(D) == {store.conf[d].addr : d \in D \cap Configured(store)}

IpsOf(D) == InfraAddrs \cup {store.conf[d].addr : d \in D \cap Configured(store)}

\* _get_all_devices and get_device.
Listed(d)  == meta[d].present /\ ~meta[d].revoked /\ HasConf(store, d)
Visible(d) == Listed(d) /\ ~meta[d].provisioning

\* Configurations no metadata accounts for: unresolved authority.
Unowned == {d \in Configured(store) : ~meta[d].present}

\* _owned_devices: the devices to pause or resume; it raises unless all of
\* them, and every configuration on the server, can be resolved.
\*
\* Mutant: an incomplete profile is skipped instead of raising.
FinishedDevices(u) == {d \in Owned(u) : Visible(d)}

PausableDevices(u) == {d \in Owned(u) : meta[d].present /\ ~meta[d].revoked}
PausablesResolved(u) == Unowned = {} /\ \A d \in PausableDevices(u) : Visible(d)

\* _is_prepared_client: one envelope carries the name, with the address of
\* the client file, and its key is in no active block.
Prepared(s, d) ==
    \E p \in s.paused : /\ {q \in s.paused : q.dev = d} = {p}
                        /\ p.addr = s.conf[d].addr
                        /\ p \notin s.active

-----------------------------------------------------------------------------
(* How calls end *)

\* Every result may be a success; a failure needs its fault, or no choice.
Permitted(results) ==
    {r \in results : \/ r.ok
                     \/ "torn" \in Faults
                     \/ "helper" \in Faults /\ r.store = store
                     \/ \A q \in results : ~q.ok}

SyncFails(ips) == "firewall" \in Faults /\ nft' \in {nft, ips}

\* reconcile_safe_dns recomputes the whole set from what is stored.
\*
\* Mutant: addresses are only ever added.
ReconcileGrows ==
    Resolved(SafeDevices(policy)) /\ nft' = nft \cup IpsOf(SafeDevices(policy))

ReconcileSucceeds ==
    Resolved(SafeDevices(policy)) /\ nft' = IpsOf(SafeDevices(policy))
ReconcileFails ==
    \/ ~Resolved(SafeDevices(policy)) /\ UNCHANGED nft
    \/ Resolved(SafeDevices(policy)) /\ SyncFails(IpsOf(SafeDevices(policy)))

\* write_json_private returns, or raises before or after os.replace.
UsersNotSaved(new) == \/ "lost" \in Faults /\ users' = users
                      \/ "committed" \in Faults /\ users' = new
MetaNotSaved(new)  == \/ "lost" \in Faults /\ meta' = meta
                      \/ "committed" \in Faults /\ meta' = new

\* Go on to a step; or return from the operation and release the lock.
Goto(step, locals) == pc' = step /\ txn' = locals /\ UNCHANGED panel
Release == Goto("idle", NoTxn)

Idle    == pc = "idle" /\ txn = NoTxn
Serving == panel = "serving" /\ pc = "idle"

\* An error while main() is still reconciling ends the process.
Abort ==
    /\ pc' = "idle" /\ txn' = NoTxn
    /\ panel' = IF panel = "starting" THEN "down" ELSE panel

-----------------------------------------------------------------------------
(* create_device *)

\* Is this name free for the account?  A revoked tombstone may be replaced
\* only while the owner's policy keeps the identity protected.
\*
\* Mutant: any tombstone may be replaced.
NameFreeOverTombstone(d) ==
    ~HasConf(store, d) /\ (meta[d].present => meta[d].revoked)

NameFree(d) ==
    /\ ~HasConf(store, d)
    /\ meta[d].present => meta[d].revoked /\ Owner[d] \in policy
    /\ meta[d].locked /\ meta[d].revoked => Owner[d] \in policy

Limited == {u \in Users : Limit[u] # -1}

\* Mutant: the limit itself still counts as room.
RoomOffByOne(u) == u \in Limited => Cardinality({e \in Owned(u) : Listed(e)}) =< Limit[u]

RoomForDevice(u) == u \in Limited => Cardinality({e \in Owned(u) : Listed(e)}) < Limit[u]

\* The guards, then the reconciliation that frees stale addresses.
CreateBegin(d) ==
    LET u == Owner[d]
    IN  /\ Serving
        /\ users[u].present /\ users[u].approved
        /\ ~users[u].revoking /\ ~users[u].paused
        /\ RoomForDevice(u)
        /\ NameFree(d)
        /\ \/ /\ ReconcileSucceeds
              /\ Goto("addClient",
                      [NoTxn EXCEPT !.kind = "create", !.user = u, !.dev = d,
                                    !.prev = meta[d]])
           \/ ReconcileFails /\ Release
        /\ UNCHANGED <<users, policy, meta, store, host>>

\* add-client.sh, --prepare for a locked account.  After an error nothing is
\* rolled back here; an unrecognized envelope is.
AddClientStep ==
    /\ pc = "addClient"
    /\ LET d == txn.dev
           locked == Owner[d] \in policy
           results == IF locked THEN PrepareClient(store, d, InfraAddrs)
                      ELSE AddClient(store, d, InfraAddrs, host)
       IN  \E r \in Permitted(results) :
              /\ store' = r.store
              /\ IF ~r.ok THEN Release
                 ELSE IF locked /\ ~Prepared(r.store, d) THEN Goto("rollbackRemove", txn)
                 ELSE Goto("createMeta", txn)
    /\ UNCHANGED <<users, policy, meta, nft, host>>

\* set_device_meta refuses to overwrite a deletion-protected identity.
CreateMeta ==
    /\ pc = "createMeta"
    /\ LET d == txn.dev
           locked == Owner[d] \in policy
           new == [meta EXCEPT ![d] = IF locked THEN Incomplete ELSE NewMeta]
       IN  \/ /\ meta[d].delprot
              /\ meta' = meta /\ Goto("rollbackRemove", txn)
           \/ /\ ~meta[d].delprot
              /\ meta' = new
              /\ IF locked THEN Goto("createSync", txn) ELSE Release
           \/ /\ ~meta[d].delprot
              /\ MetaNotSaved(new) /\ Goto("rollbackRemove", txn)
    /\ UNCHANGED <<users, policy, store, nft, host>>

\* Enforce the new address before its peer is enabled.
CreateSync ==
    /\ pc = "createSync"
    /\ \/ ReconcileSucceeds /\ Goto("createResume", txn)
       \/ ReconcileFails /\ Goto("rollbackRemove", txn)
    /\ UNCHANGED <<users, policy, meta, store, host>>

CreateResume ==
    /\ pc = "createResume"
    /\ \E r \in Permitted(ResumeClient(store, txn.dev, host)) :
          /\ store' = r.store
          /\ Goto(IF r.ok THEN "createPublish" ELSE "rollbackRemove", txn)
    /\ UNCHANGED <<users, policy, meta, nft, host>>

\* Drop the provisioning mark: only now can the profile be seen.
CreatePublish ==
    /\ pc = "createPublish"
    /\ LET new == [meta EXCEPT ![txn.dev].provisioning = FALSE]
       IN  \/ meta' = new /\ Release
           \/ MetaNotSaved(new) /\ Goto("rollbackRemove", txn)
    /\ UNCHANGED <<users, policy, store, nft, host>>

\* _rollback_provision: the peer first, then its metadata, then its address.
RollbackRemove ==
    /\ pc = "rollbackRemove"
    /\ \E r \in Permitted(RemoveClient(store, txn.dev, host)) :
          /\ store' = r.store
          /\ IF r.ok THEN Goto("rollbackMeta", txn) ELSE Release
    /\ UNCHANGED <<users, policy, meta, nft, host>>

RollbackMeta ==
    /\ pc = "rollbackMeta"
    /\ LET new == [meta EXCEPT ![txn.dev] = txn.prev]
       IN  \/ meta' = new /\ Goto("rollbackSync", txn)
           \/ MetaNotSaved(new) /\ Release
    /\ UNCHANGED <<users, policy, store, nft, host>>

RollbackSync ==
    /\ pc = "rollbackSync"
    /\ ReconcileSucceeds \/ ReconcileFails
    /\ Release
    /\ UNCHANGED <<users, policy, meta, store, host>>

-----------------------------------------------------------------------------
(* delete_device, delete_device_confirmed, delete_user *)

\* _delete_device would go on: the device is known, a revoked one has no
\* configuration, and the address sets it needs can be computed.
Deletable(d) ==
    /\ IF meta[d].revoked THEN ~HasConf(store, d) ELSE Visible(d)
    /\ Effective(d, policy) => Resolved(SafeDevices(policy))

\* Its locals.  The address leaves the set only after peer and file are gone.
DeleteStart(d, locals) ==
    Goto(IF ~meta[d].revoked THEN "removeClient"
         ELSE IF Effective(d, policy) THEN "deleteSync" ELSE "dropMeta",
         [locals EXCEPT !.dev = d,
                        !.old = IpsOf(SafeDevices(policy)),
                        !.new = IpsOf(SafeDevices(policy) \ {d})])

\* Return from _delete_device, to the loop of delete_user if it was called
\* from there.
\*
\* Mutant: delete_user retries a device that could not be deleted.
DeleteRetries(ok) ==
    IF txn.kind = "deleteUser"
    THEN Goto("nextDevice", [txn EXCEPT !.dev = Nobody, !.old = {}, !.new = {},
                                        !.todo = IF ok THEN @ ELSE @ \cup {txn.dev}])
    ELSE Release

DeleteEnds(ok) ==
    IF txn.kind = "deleteUser"
    THEN Goto("nextDevice", [txn EXCEPT !.dev = Nobody, !.old = {}, !.new = {},
                                        !.bad = @ \/ ~ok])
    ELSE Release

\* A request whose challenge was confirmed may delete a protected profile;
\* delete_device, for the idle-profile cleanup and delete_user, may not.
\*
\* Mutant: the protection is not looked at.
DeleteAnyway(d, confirmed) == confirmed \in BOOLEAN

MayDelete(d, confirmed) == meta[d].delprot => confirmed

DeleteBegin(d, confirmed) ==
    /\ Serving
    /\ Visible(d)
    /\ MayDelete(d, confirmed)
    /\ Deletable(d)
    /\ DeleteStart(d, [NoTxn EXCEPT !.kind = IF confirmed THEN "confirmed" ELSE "delete",
                                    !.user = Owner[d]])
    /\ UNCHANGED <<users, policy, meta, store, nft, host>>

DeleteRemove ==
    /\ pc = "removeClient"
    /\ \E r \in Permitted(RemoveClient(store, txn.dev, host)) :
          /\ store' = r.store
          /\ IF r.ok THEN Goto("markRevoked", txn) ELSE DeleteEnds(FALSE)
    /\ UNCHANGED <<users, policy, meta, nft, host>>

MarkRevoked ==
    /\ pc = "markRevoked"
    /\ LET new == [meta EXCEPT ![txn.dev].revoked = TRUE]
       IN  \/ /\ meta' = new
              /\ Goto(IF Effective(txn.dev, policy) THEN "deleteSync" ELSE "dropMeta", txn)
           \/ MetaNotSaved(new) /\ DeleteEnds(FALSE)
    /\ UNCHANGED <<users, policy, store, nft, host>>

DeleteSync ==
    /\ pc = "deleteSync"
    /\ \/ nft' = txn.new /\ Goto("dropMeta", txn)
       \/ SyncFails(txn.new) /\ DeleteEnds(FALSE)
    /\ UNCHANGED <<users, policy, meta, store, host>>

\* remove_device_meta keeps a locked identity as a tombstone.
DropMeta ==
    /\ pc = "dropMeta"
    /\ LET d == txn.dev
           new == [meta EXCEPT ![d] = IF @.locked THEN Tombstone ELSE NoMeta]
       IN  \/ meta' = new /\ DeleteEnds(TRUE)
           \/ /\ MetaNotSaved(new)
              /\ IF Effective(d, policy) THEN Goto("deleteUndo", txn)
                 ELSE DeleteEnds(FALSE)
    /\ UNCHANGED <<users, policy, store, nft, host>>

DeleteUndo ==
    /\ pc = "deleteUndo"
    /\ nft' = txn.old \/ SyncFails(txn.old)
    /\ DeleteEnds(FALSE)
    /\ UNCHANGED <<users, policy, meta, store, host>>

\* delete_user disables the account before it looks at a single peer.
DeleteUserBegin(u) ==
    LET new == [users EXCEPT ![u].revoking = TRUE, ![u].approved = FALSE]
    IN  /\ Serving
        /\ users[u].present /\ u \notin Admins
        /\ \A d \in Owned(u) : MayDelete(d, FALSE)
        /\ \/ /\ users' = new
              /\ IF Unowned # {} THEN Release
                 ELSE Goto("nextDevice",
                           [NoTxn EXCEPT !.kind = "deleteUser", !.user = u,
                                         !.todo = {d \in Owned(u) : meta[d].present}])
           \/ UsersNotSaved(new) /\ Release
        /\ UNCHANGED <<policy, meta, store, nft, host>>

\* The next record of the account; one that cannot be deleted is a failure.
DeleteUserNext ==
    /\ pc = "nextDevice"
    /\ \E d \in txn.todo :
          LET rest == [txn EXCEPT !.todo = @ \ {d}]
          IN  IF Deletable(d) /\ MayDelete(d, FALSE) THEN DeleteStart(d, rest)
              ELSE Goto("nextDevice", [rest EXCEPT !.bad = TRUE])
    /\ UNCHANGED <<users, policy, meta, store, nft, host>>

\* The account goes only when every peer of it went.
DeleteUserEnd ==
    /\ pc = "nextDevice" /\ txn.todo = {}
    /\ LET new == [users EXCEPT ![txn.user] = NoUser]
       IN  IF txn.bad THEN users' = users ELSE users' = new \/ UsersNotSaved(new)
    /\ Release
    /\ UNCHANGED <<policy, meta, store, nft, host>>

-----------------------------------------------------------------------------
(* set_user_paused *)

\* _checkpoint writes both flags.
Checkpoint(u, paused, pending) ==
    [users EXCEPT ![u].paused = paused, ![u].pending = pending]

\* The restriction is recorded before any peer is touched.
\*
\* Mutant: only that something is pending is recorded.
RecordPendingOnly(u) == Checkpoint(u, users[u].paused, TRUE)

RecordPause(u) == Checkpoint(u, TRUE, TRUE)

CanPause(u) ==
    /\ users[u].present /\ u \notin Admins
    /\ ~users[u].revoking /\ users[u].approved

\* Record the restriction, pending until every peer is off; then find the
\* devices.  Startup runs the same code for each paused account.
PauseBegin(u, resume, locals) ==
    LET new == RecordPause(u)
    IN  /\ CanPause(u)
        /\ \/ /\ users' = new
              /\ IF PausablesResolved(u)
                 THEN Goto(IF resume THEN "resumeSync" ELSE "pauseNext",
                           [locals EXCEPT !.kind = IF resume THEN "resume" ELSE "pause",
                                          !.user = u, !.todo = PausableDevices(u)])
                 ELSE Abort
           \/ UsersNotSaved(new) /\ Abort
        /\ UNCHANGED <<policy, meta, store, nft, host>>

Pause(u)  == Serving /\ PauseBegin(u, FALSE, NoTxn)
Resume(u) == Serving /\ users[u].paused /\ PauseBegin(u, TRUE, NoTxn)

\* _pause_peers goes on after a failure and remembers it.
PausePeer ==
    /\ pc \in {"pauseNext", "repause"}
    /\ \E d \in txn.todo :
          \E r \in Permitted(PauseClient(store, d, host)) :
             /\ store' = r.store
             /\ Goto(pc, [txn EXCEPT !.todo = @ \ {d}, !.bad = @ \/ ~r.ok])
    /\ UNCHANGED <<users, policy, meta, nft, host>>

\* Only a pause without failures is confirmed.
PauseConfirm ==
    /\ pc = "pauseNext" /\ txn.todo = {}
    /\ LET new == Checkpoint(txn.user, TRUE, FALSE)
       IN  \/ txn.bad /\ users' = users /\ Abort
           \/ /\ ~txn.bad
              /\ users' = new
              /\ IF panel = "starting"
                 THEN Goto("startPauses", [NoTxn EXCEPT !.kind = "start", !.queue = txn.queue])
                 ELSE Release
           \/ ~txn.bad /\ UsersNotSaved(new) /\ Abort
    /\ UNCHANGED <<policy, meta, store, nft, host>>

\* Safe internet is enforced before the first peer is restored.
ResumeSync ==
    /\ pc = "resumeSync"
    /\ \/ ReconcileSucceeds /\ Goto("resumeNext", txn)
       \/ ReconcileFails /\ Goto("repause", txn)
    /\ UNCHANGED <<users, policy, meta, store, host>>

\* The first failure stops the loop; every peer is then paused again.
ResumePeer ==
    /\ pc = "resumeNext"
    /\ \E d \in txn.todo :
          \E r \in Permitted(ResumeClient(store, d, host)) :
             /\ store' = r.store
             /\ IF r.ok THEN Goto("resumeNext", [txn EXCEPT !.todo = @ \ {d}])
                ELSE Goto("repause", [txn EXCEPT !.todo = PausableDevices(txn.user)])
    /\ UNCHANGED <<users, policy, meta, nft, host>>

ResumeConfirm ==
    /\ pc = "resumeNext" /\ txn.todo = {}
    /\ LET new == Checkpoint(txn.user, FALSE, FALSE)
       IN  \/ users' = new /\ Release
           \/ /\ UsersNotSaved(new)
              /\ Goto("repause", [txn EXCEPT !.todo = PausableDevices(txn.user)])
    /\ UNCHANGED <<policy, meta, store, nft, host>>

\* The rollback of a resume records whether it succeeded.
RepauseEnd ==
    /\ pc = "repause" /\ txn.todo = {}
    /\ LET new == Checkpoint(txn.user, TRUE, txn.bad)
       IN  users' = new \/ UsersNotSaved(new)
    /\ Release
    /\ UNCHANGED <<policy, meta, store, nft, host>>

-----------------------------------------------------------------------------
(* set_account_safe_internet, set_device_safe_internet,                    *)
(* set_device_deletion_protected                                           *)

\* Enforce every current profile, then lock the owner.
AccountBegin(u) ==
    LET now    == SafeDevices(policy)
        wanted == SafeDevices(policy \cup {u})
    IN  /\ Serving
        /\ users[u].present /\ users[u].approved /\ ~users[u].revoking
        /\ Resolved(now) /\ Resolved(wanted)
        /\ \/ /\ nft' = IpsOf(wanted)
              /\ IF u \in policy THEN Release
                 ELSE Goto("savePolicy", [NoTxn EXCEPT !.kind = "account", !.user = u,
                                                       !.old = IpsOf(now)])
           \/ SyncFails(IpsOf(wanted)) /\ Release
        /\ UNCHANGED <<users, policy, meta, store, host>>

\* A write that raised may have been committed (then the lock is visible and
\* the call succeeds): enforcement is rolled back only when it was lost.
SavePolicy ==
    /\ pc = "savePolicy"
    /\ \/ policy' = policy \cup {txn.user} /\ Release
       \/ /\ "lost" \in Faults
          /\ policy' = policy /\ Goto("undoPolicy", txn)
    /\ UNCHANGED <<users, meta, store, nft, host>>

UndoPolicy ==
    /\ pc = "undoPolicy"
    /\ nft' = txn.old \/ SyncFails(txn.old)
    /\ Release
    /\ UNCHANGED <<users, policy, meta, store, host>>

\* Operator maintenance: lock one profile, or lift its lock unless the
\* account's own policy covers it.  The firewall changes before the metadata.
ProtectBegin(d, enabled) ==
    LET now    == SafeDevices(policy)
        wanted == IF enabled THEN now \cup {d} ELSE now \ {d}
    IN  /\ Serving /\ Visible(d) /\ Resolved(now)
        /\ (IF enabled THEN "protect" ELSE "unprotect") \in Maintenance
        /\ ~enabled => Owner[d] \notin policy /\ (meta[d].safe \/ meta[d].locked)
        /\ \/ /\ nft' = IpsOf(wanted)
              /\ IF enabled /\ meta[d].safe /\ meta[d].locked THEN Release
                 ELSE Goto("saveSafe",
                           [NoTxn EXCEPT !.kind = IF enabled THEN "protect" ELSE "unprotect",
                                         !.user = Owner[d], !.dev = d, !.old = IpsOf(now)])
           \/ SyncFails(IpsOf(wanted)) /\ Release
        /\ UNCHANGED <<users, policy, meta, store, host>>

SaveSafe ==
    /\ pc = "saveSafe"
    /\ LET on  == txn.kind = "protect"
           new == [meta EXCEPT ![txn.dev].safe = on, ![txn.dev].locked = on]
       IN  \/ meta' = new /\ Release
           \/ MetaNotSaved(new) /\ Goto("undoSafe", txn)
    /\ UNCHANGED <<users, policy, store, nft, host>>

UndoSafe ==
    /\ pc = "undoSafe"
    /\ nft' = txn.old \/ SyncFails(txn.old)
    /\ Release
    /\ UNCHANGED <<users, policy, meta, store, host>>

SetDeletionProtected(d, enabled) ==
    /\ Serving /\ Visible(d)
    /\ LET new == [meta EXCEPT ![d].delprot = enabled]
       IN  meta' = new \/ MetaNotSaved(new)
    /\ UNCHANGED <<users, policy, store, nft, host, panel, pc, txn>>

-----------------------------------------------------------------------------
(* runner.main, dns_bootstrap, the units' order *)

\* The names migrate_device_metadata refuses to guess about.
Blocked == {d \in Configured(store) :
               meta[d].revoked \/ ~meta[d].present \/ ~users[Owner[d]].present}

PanelStart ==
    /\ panel = "down" /\ host # "booting"
    /\ panel' = "starting" /\ pc' = "migrate" /\ txn' = [NoTxn EXCEPT !.kind = "start"]
    /\ UNCHANGED <<users, policy, meta, store, nft, host>>

\* Metadata without a configuration goes, unless it carries protection or its
\* account is being revoked.
\*
\* Mutant: a lock does not keep it.
StaleDespiteLock == {d \in Devices : /\ ~HasConf(store, d) /\ ~meta[d].delprot
                                     /\ ~users[Owner[d]].revoking}

Stale == {d \in Devices : /\ ~HasConf(store, d)
                          /\ ~meta[d].locked /\ ~meta[d].delprot
                          /\ ~users[Owner[d]].revoking}

\* reconcile_paused_users: the pauses to apply again.
\*
\* Mutant: only the ones reported as complete.
ConfirmedPauses == {u \in Users : users[u].paused /\ ~users[u].pending}

PersistedPauses == {u \in Users : users[u].paused /\ ~users[u].revoking}

Migrate ==
    /\ pc = "migrate"
    /\ LET new == [d \in Devices |-> IF d \in Stale THEN NoMeta ELSE meta[d]]
       IN  \/ Blocked # {} /\ meta' = meta /\ Abort
           \/ /\ Blocked = {}
              /\ meta' = new /\ Goto("startPauses", [txn EXCEPT !.queue = PersistedPauses])
           \/ Blocked = {} /\ MetaNotSaved(new) /\ Abort
    /\ UNCHANGED <<users, policy, store, nft, host>>

StartPause ==
    /\ pc = "startPauses"
    /\ \E u \in txn.queue :
          \/ PauseBegin(u, FALSE, [NoTxn EXCEPT !.queue = txn.queue \ {u}])
          \/ /\ ~CanPause(u) /\ Abort
             /\ UNCHANGED <<users, policy, meta, store, nft, host>>

StartPausesEnd ==
    /\ pc = "startPauses" /\ txn.queue = {}
    /\ Goto("startDns", txn)
    /\ UNCHANGED <<users, policy, meta, store, nft, host>>

\* Serve only what is enforced.
StartDns ==
    /\ pc = "startDns"
    /\ \/ /\ ReconcileSucceeds
          /\ panel' = "serving" /\ pc' = "idle" /\ txn' = NoTxn
       \/ ReconcileFails /\ Abort
    /\ UNCHANGED <<users, policy, meta, store, host>>

\* wg-panel-safe-dns.service, before wg-quick: a dry run of the migration and
\* the reconciliation.
Bootstrap ==
    /\ host = "booting"
    /\ Blocked = {}
    /\ \/ ReconcileSucceeds /\ host' = "dnsReady"
       \/ ReconcileFails /\ UNCHANGED host
    /\ UNCHANGED <<users, policy, meta, store, panel, pc, txn>>

\* wg-quick@wg0 loads the plain blocks of wg0.conf.
WgQuickUp ==
    /\ host = "dnsReady"
    /\ host' = "up"
    /\ store' = [store EXCEPT !.live = store.active]
    /\ UNCHANGED <<users, policy, meta, nft, panel, pc, txn>>

PanelCrash ==
    /\ "crash" \in Faults
    /\ panel # "down"
    /\ panel' = "down" /\ pc' = "idle" /\ txn' = NoTxn
    /\ UNCHANGED <<users, policy, meta, store, nft, host>>

\* The interface and the nftables rules are the kernel's: a reboot drops them.
HostReboot ==
    /\ "reboot" \in Faults
    /\ host # "booting"
    /\ host' = "booting" /\ nft' = {} /\ store' = [store EXCEPT !.live = {}]
    /\ panel' = "down" /\ pc' = "idle" /\ txn' = NoTxn
    /\ UNCHANGED <<users, policy, meta>>

-----------------------------------------------------------------------------
(* Requests that write users.json without the lifecycle lock.  A failed    *)
(* write either happened or did not: no action of its own.                 *)

\* register
Register(u) ==
    /\ panel = "serving" /\ ~users[u].present
    /\ users' = [users EXCEPT ![u] = NewUser]
    /\ UNCHANGED <<policy, meta, store, nft, host, panel, pc, txn>>

\* admin_approve, and the approve button of tg_webhook
Approve(u) ==
    /\ panel = "serving"
    /\ users[u].present /\ u \notin Admins /\ ~users[u].revoking
    /\ users' = [users EXCEPT ![u].approved = TRUE]
    /\ UNCHANGED <<policy, meta, store, nft, host, panel, pc, txn>>

\* the reject button of tg_webhook, and register's own rollback
\*
\* Mutant: an account that was approved in the meantime is dropped too.
RejectApproved(u) ==
    /\ panel = "serving"
    /\ users[u].present /\ u \notin Admins /\ ~users[u].revoking
    /\ users' = [users EXCEPT ![u] = NoUser]
    /\ UNCHANGED <<policy, meta, store, nft, host, panel, pc, txn>>

Reject(u) ==
    /\ panel = "serving"
    /\ users[u].present /\ u \notin Admins
    /\ ~users[u].revoking /\ ~users[u].approved
    /\ users' = [users EXCEPT ![u] = NoUser]
    /\ UNCHANGED <<policy, meta, store, nft, host, panel, pc, txn>>

-----------------------------------------------------------------------------

\* A fresh installation on a booted host: only the administrators exist.
Init ==
    /\ users = [u \in Users |-> IF u \in Admins
                                 THEN [NewUser EXCEPT !.approved = TRUE] ELSE NoUser]
    /\ policy = {}
    /\ meta = [d \in Devices |-> NoMeta]
    /\ store = EmptyStore
    /\ nft = InfraAddrs
    /\ host = "up"
    /\ panel = "serving"
    /\ pc = "idle"
    /\ txn = NoTxn

CreateSteps == AddClientStep \/ CreateMeta \/ CreateSync \/ CreateResume
               \/ CreatePublish \/ RollbackRemove \/ RollbackMeta \/ RollbackSync
DeleteSteps == DeleteRemove \/ MarkRevoked \/ DeleteSync \/ DropMeta \/ DeleteUndo
               \/ DeleteUserNext \/ DeleteUserEnd
PauseSteps  == PausePeer \/ PauseConfirm \/ ResumeSync \/ ResumePeer
               \/ ResumeConfirm \/ RepauseEnd
PolicySteps == SavePolicy \/ UndoPolicy \/ SaveSafe \/ UndoSafe
StartSteps  == Migrate \/ StartPause \/ StartPausesEnd \/ StartDns

\* The transaction that holds the lock takes its next step.
LockedStep == CreateSteps \/ DeleteSteps \/ PauseSteps \/ PolicySteps \/ StartSteps

\* A request takes the lock.
Begin ==
    \/ \E d \in Devices : CreateBegin(d)
    \/ \E d \in Devices, confirmed \in BOOLEAN : DeleteBegin(d, confirmed)
    \/ \E d \in Devices, enabled \in BOOLEAN :
          ProtectBegin(d, enabled) \/ SetDeletionProtected(d, enabled)
    \/ \E u \in Users : DeleteUserBegin(u) \/ Pause(u) \/ Resume(u) \/ AccountBegin(u)

Web  == \E u \in Users : Register(u) \/ Approve(u) \/ Reject(u)
Boot == PanelStart \/ Bootstrap \/ WgQuickUp \/ PanelCrash \/ HostReboot

Next == LockedStep \/ Begin \/ Web \/ Boot

Spec == Init /\ [][Next]_vars

\* Every step of a transaction ends: helpers and writes are bounded by
\* timeouts, and the lock is not waited for inside a transaction.
FairSpec == Spec /\ WF_vars(LockedStep)

-----------------------------------------------------------------------------
(* Properties *)

Records == [kind : Kinds, user : Users \cup {Nobody}, dev : Devices \cup {Nobody},
            todo : SUBSET Devices, queue : SUBSET Users, bad : BOOLEAN,
            prev : MetaRecords, old : SUBSET Addrs, new : SUBSET Addrs]

\* Every variable keeps its type.
TypeOK ==
    /\ users \in [Users -> UserRecords]
    /\ policy \in SUBSET Users
    /\ meta \in [Devices -> MetaRecords]
    /\ store \in Stores
    /\ nft \in SUBSET Addrs
    /\ host \in {"booting", "dnsReady", "up"}
    /\ panel \in {"down", "starting", "serving"}
    /\ pc \in Steps
    /\ txn \in Records

\* The configured peer of d has a route now, or gets one when wg0 comes up.
On(d) == HasConf(store, d) /\ store.conf[d] \in store.live \cup store.active

\* A profile of an account locked to Safe internet never has a route that
\* nftables does not match: not while another step fails, not after a crash,
\* and not when wg-quick brings the interface up (wireguard.py:308-354 and the
\* order of safe-DNS and WireGuard in systemd/).
AccountEnforced ==
    host # "booting" =>
        \A d \in Devices :
            meta[d].present /\ ~meta[d].revoked /\ Owner[d] \in policy /\ On(d)
                => store.conf[d].addr \in nft

\* The same for a profile marked safe by itself: set_device_safe_internet says
\* an enable failure "cannot leave a client marked safe without server
\* enforcement" (wireguard.py:360-362).
OptInEnforced ==
    host # "booting" =>
        \A d \in Devices :
            meta[d].present /\ ~meta[d].revoked /\ meta[d].safe /\ On(d)
                => store.conf[d].addr \in nft

\* Whatever the personal profiles go through, infrastructure addresses stay
\* matched and are handed to nobody (_safe_dns_ips, add-client.sh:218-226).
InfrastructureKept ==
    /\ host # "booting" => InfraAddrs \subseteq nft
    /\ \A p \in ConfPeers(store) \cup store.active : p.addr \notin InfraAddrs

\* No two profiles, and no profile and leftover block, share an address, so a
\* resume or a boot never takes another peer's route (add-client.sh:238-253).
AddressesUnique ==
    \A p, q \in ConfPeers(store) \cup store.active : p.addr = q.addr => p = q

\* A pause reported as complete is complete: no profile of the account with a
\* client file has a route or gets one at boot, whatever was created, deleted,
\* resumed or torn since (access.set_user_paused, which goes through the client
\* files).  A peer that a torn removal left live without its file is not seen by
\* a pause, and is outside this property.
PauseConfirmed ==
    \A u \in Users :
        users[u].paused /\ ~users[u].pending => \A d \in Owned(u) : ~On(d)

\* The panel never serves with a pause it has not applied again since it
\* started (access.reconcile_paused_users).
ServingResolvesPauses ==
    [][panel # "serving" /\ panel' = "serving" =>
         \A u \in Users : users[u].paused /\ ~users[u].revoking
                              => ~users[u].pending /\ \A d \in Owned(u) : ~On(d)]_vars

\* A peer whose revocation is on record never comes back on, even if a file
\* with its name does (wireguard._delete_device, _migrate_device_metadata).
RevokedStaysOff == \A d \in Devices : meta[d].revoked => ~On(d)

\* The account checks of create_device are made once, at its start; still no
\* configuration outlives its account, and no account with configurations is
\* merely pending (a rejection would drop it without revoking anything).
OwnersAccountable ==
    \A d \in Devices :
        LET u == users[Owner[d]]
        IN  /\ HasConf(store, d) => u.present /\ (u.approved \/ u.revoking)
            /\ ~u.present /\ meta[d].present => meta[d].revoked

\* Failed and rolled back creations never add up to more profiles than the
\* account's limit (create_device's count of committed profiles).
WithinLimit ==
    \A u \in Limited : Cardinality({d \in Owned(u) : Listed(d)}) <= Limit[u]

\* Once an identity is protected, by its own lock or its account's, it stays
\* protected through deletion, re-creation, account deletion, rollbacks and
\* restarts; only operator maintenance lifts it.
Protected(d) == meta[d].locked \/ Owner[d] \in policy
ProtectionIsPermanent ==
    [][txn.kind # "unprotect" =>
         \A d \in Devices : Protected(d) => Protected(d)']_vars

\* A deletion-protected profile loses its configuration only to a confirmed
\* deletion or to the rollback of its own creation.
ProtectedRemovalConfirmed ==
    [][\A d \in Devices :
         meta[d].delprot /\ HasConf(store, d) /\ ~HasConf(store', d)
             => txn.dev = d /\ txn.kind \in {"confirmed", "create"}]_vars

\* "An address left fail-closed by an earlier cleanup error cannot be
\* reassigned to an ordinary client" (README.md:217-219, wireguard.py:615-617).
OrdinaryNotMatched ==
    [][pc = "addClient" /\ Owner[txn.dev] \notin policy =>
         \A p \in store'.live \ (store.live \cup store.active) : p.addr \notin nft]_vars

\* An account shown as active has no visible profile left in an envelope: a
\* failed pause or resume stays on record (access._pause_peers, the rollback).
UnpausedNotEnveloped ==
    Serving =>
        \A d \in Devices :
            users[Owner[d]].approved /\ ~users[Owner[d]].paused /\ Visible(d)
                => store.conf[d] \notin store.paused

\* Whoever holds the lifecycle lock releases it.
LockReleased == pc # "idle" ~> pc = "idle"
=============================================================================
