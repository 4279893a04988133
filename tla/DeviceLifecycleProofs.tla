----------------------- MODULE DeviceLifecycleProofs -----------------------
(***************************************************************************)
(* Type correctness of DeviceLifecycle, and the panel's central promise:   *)
(* while the host is past its DNS bootstrap, no profile of an account      *)
(* locked to Safe internet has a route without being matched by nftables,  *)
(* whatever fails, crashes or reboots.                                     *)
(*                                                                         *)
(* A step that works on a profile or an account relies on the locals an    *)
(* earlier step of its transaction set: that is what TypeInv adds to       *)
(* TypeOK.  AccountEnforced is not inductive either: a step relies on what *)
(* an earlier step of the same transaction established while it held the   *)
(* lifecycle lock.  EnforcedInv adds those facts, one conjunct per stretch *)
(* of steps.  LifecycleSafetyProofs builds on both.                        *)
(***************************************************************************)
EXTENDS DeviceLifecycle, PeerStoreProofs

-----------------------------------------------------------------------------
(* Types *)

\* The steps at which txn.dev, and those at which txn.user, is in use.
DeviceSteps == {"addClient", "createMeta", "createSync", "createResume",
                "createPublish", "rollbackRemove", "rollbackMeta", "rollbackSync",
                "removeClient", "markRevoked", "deleteSync", "dropMeta", "deleteUndo",
                "saveSafe", "undoSafe"}
UserSteps == Steps \ {"idle", "migrate", "startPauses", "startDns"}

Subjects == /\ pc \in DeviceSteps => txn.dev \in Devices
            /\ pc \in UserSteps => txn.user \in Users

TypeInv == TypeOK /\ Subjects

USE OwnerAssumption, InfraAssumption, AdminsAssumption, AddrsAssumption, NoPeerAssumption

LEMMA RecordsOfNoTxn ==
    NoTxn \in Records /\ NoTxn.dev = Nobody /\ NoUser \in UserRecords /\ NoMeta \in MetaRecords
BY DEF NoTxn, Records, Kinds, Nobody, NoMeta, MetaRecords, NoUser, UserRecords

\* Setting a flag of a record keeps its type.
LEMMA MetaFlags ==
    ASSUME NEW m \in MetaRecords, NEW x \in BOOLEAN
    PROVE  /\ [m EXCEPT !.provisioning = x] \in MetaRecords
           /\ [m EXCEPT !.revoked = x] \in MetaRecords
           /\ [m EXCEPT !.delprot = x] \in MetaRecords
           /\ [m EXCEPT !.safe = x, !.locked = x] \in MetaRecords
BY DEF MetaRecords

LEMMA UserFlags ==
    ASSUME NEW r \in UserRecords, NEW x \in BOOLEAN, NEW y \in BOOLEAN
    PROVE  /\ [r EXCEPT !.approved = x] \in UserRecords
           /\ [r EXCEPT !.paused = x, !.pending = y] \in UserRecords
           /\ [r EXCEPT !.revoking = x, !.approved = y] \in UserRecords
BY DEF UserRecords

LEMMA IpsOfType ==
    ASSUME store \in Stores, NEW D \in SUBSET Devices
    PROVE  IpsOf(D) \in SUBSET Addrs
BY DEF IpsOf, Configured, HasConf, Stores, Peers

LEMMA SafeDevicesType == \A pol : SafeDevices(pol) \in SUBSET Devices
BY DEF SafeDevices

LEMMA InitType == Init => TypeInv
<1> SUFFICES ASSUME Init PROVE TypeInv
  OBVIOUS
<1>1. users \in [Users -> UserRecords]
  BY DEF Init, NewUser, NoUser, UserRecords
<1>2. meta \in [Devices -> MetaRecords]
  BY RecordsOfNoTxn DEF Init
<1>3. store \in Stores
  BY DEF Init, EmptyStore, Stores
<1>4. txn \in Records
  BY RecordsOfNoTxn DEF Init
<1> QED
  BY <1>1, <1>2, <1>3, <1>4 DEF Init, TypeInv, TypeOK, Subjects, Steps, UserSteps, DeviceSteps

\* Releasing the lock, or leaving main(), keeps the types of pc and txn.
LEMMA ReleaseType ==
    ASSUME TypeInv, Release
    PROVE  /\ pc' \in Steps /\ txn' \in Records /\ Subjects'
           /\ panel' \in {"down", "starting", "serving"}
BY RecordsOfNoTxn DEF Release, Goto, Subjects, DeviceSteps, UserSteps, Steps, TypeInv, TypeOK

LEMMA AbortType ==
    ASSUME TypeInv, Abort
    PROVE  /\ pc' \in Steps /\ txn' \in Records /\ Subjects'
           /\ panel' \in {"down", "starting", "serving"}
BY RecordsOfNoTxn DEF Abort, Subjects, DeviceSteps, UserSteps, Steps, TypeInv, TypeOK

LEMMA GotoType ==
    ASSUME TypeInv, NEW step \in Steps, NEW locals \in Records, Goto(step, locals),
           step \in DeviceSteps => locals.dev \in Devices,
           step \in UserSteps => locals.user \in Users
    PROVE  /\ pc' \in Steps /\ txn' \in Records /\ Subjects'
           /\ panel' \in {"down", "starting", "serving"}
BY DEF Goto, Subjects, TypeInv, TypeOK

\* The nftables set always is a set of addresses.
LEMMA ReconcileType ==
    ASSUME TypeInv, ReconcileSucceeds \/ ReconcileFails
    PROVE  nft' \in SUBSET Addrs
<1>1. IpsOf(SafeDevices(policy)) \in SUBSET Addrs
  BY IpsOfType, SafeDevicesType DEF TypeInv, TypeOK
<1> QED
  BY <1>1 DEF ReconcileSucceeds, ReconcileFails, SyncFails, TypeInv, TypeOK

\* A step that goes to a known step with the locals it has.
LEMMA StayType ==
    ASSUME TypeInv, pc \in UserSteps, NEW step \in Steps, Goto(step, txn),
           step \in DeviceSteps => pc \in DeviceSteps
    PROVE  /\ pc' \in Steps /\ txn' \in Records /\ Subjects'
           /\ panel' \in {"down", "starting", "serving"}
<1>1. txn \in Records /\ txn.user \in Users /\ (pc \in DeviceSteps => txn.dev \in Devices)
  BY DEF TypeInv, TypeOK, Subjects
<1> QED
  BY <1>1, GotoType

LEMMA AddClientStepType == TypeInv /\ AddClientStep => TypeInv'
<1> SUFFICES ASSUME TypeInv, AddClientStep PROVE TypeInv'
  OBVIOUS
<1>1. txn.dev \in Devices /\ pc \in UserSteps /\ pc \in DeviceSteps
  BY DEF TypeInv, AddClientStep, Subjects, DeviceSteps, UserSteps, Steps
<1>2. \E r \in PrepareClient(store, txn.dev, InfraAddrs) \cup AddClient(store, txn.dev, InfraAddrs, host) :
         store' = r.store /\ (Release \/ Goto("rollbackRemove", txn) \/ Goto("createMeta", txn))
  BY DEF AddClientStep, Permitted
<1>3. store' \in Stores
  BY <1>1, <1>2, AddClientChanges, PrepareClientChanges DEF TypeInv, TypeOK
<1>4. Release \/ Goto("rollbackRemove", txn) \/ Goto("createMeta", txn)
  BY <1>2
<1>5. UNCHANGED <<users, policy, meta, nft, host>>
  BY DEF AddClientStep
<1> QED
  BY <1>1, <1>3, <1>4, <1>5, ReleaseType, StayType DEF TypeInv, TypeOK, Steps

LEMMA CreateMetaType == TypeInv /\ CreateMeta => TypeInv'
<1> SUFFICES ASSUME TypeInv, CreateMeta PROVE TypeInv'
  OBVIOUS
<1>1. txn.dev \in Devices /\ pc \in UserSteps /\ pc \in DeviceSteps
  BY DEF TypeInv, CreateMeta, Subjects, DeviceSteps, UserSteps, Steps
<1> DEFINE new == [meta EXCEPT ![txn.dev] =
                     IF Owner[txn.dev] \in policy THEN Incomplete ELSE NewMeta]
<1>2. new \in [Devices -> MetaRecords]
  <2>1. NewMeta \in MetaRecords /\ Incomplete \in MetaRecords
    BY DEF NewMeta, Incomplete, NoMeta, MetaRecords
  <2> QED
    BY <1>1, <2>1 DEF TypeInv, TypeOK
<1>3. meta' = meta \/ meta' = new
  BY DEF CreateMeta, MetaNotSaved
<1>4. Release \/ Goto("rollbackRemove", txn) \/ Goto("createSync", txn)
  BY DEF CreateMeta
<1>5. UNCHANGED <<users, policy, store, nft, host>>
  BY DEF CreateMeta
<1> QED
  BY <1>1, <1>2, <1>3, <1>4, <1>5, ReleaseType, StayType DEF TypeInv, TypeOK, Steps

LEMMA CreateSyncType == TypeInv /\ CreateSync => TypeInv'
<1> SUFFICES ASSUME TypeInv, CreateSync PROVE TypeInv'
  OBVIOUS
<1>1. pc \in UserSteps /\ pc \in DeviceSteps
  BY DEF CreateSync, DeviceSteps, UserSteps, Steps
<1>2. nft' \in SUBSET Addrs
  BY ReconcileType DEF CreateSync
<1>3. Goto("createResume", txn) \/ Goto("rollbackRemove", txn)
  BY DEF CreateSync
<1> QED
  BY <1>1, <1>2, <1>3, StayType DEF CreateSync, TypeInv, TypeOK, Steps

LEMMA CreateResumeType == TypeInv /\ CreateResume => TypeInv'
<1> SUFFICES ASSUME TypeInv, CreateResume PROVE TypeInv'
  OBVIOUS
<1>1. txn.dev \in Devices /\ pc \in UserSteps /\ pc \in DeviceSteps
  BY DEF TypeInv, CreateResume, Subjects, DeviceSteps, UserSteps, Steps
<1>2. \E r \in ResumeClient(store, txn.dev, host) :
         store' = r.store /\ (Goto("createPublish", txn) \/ Goto("rollbackRemove", txn))
  BY DEF CreateResume, Permitted
<1>3. store' \in Stores
  BY <1>1, <1>2, ResumeClientChanges DEF TypeInv, TypeOK
<1> QED
  BY <1>1, <1>2, <1>3, StayType DEF CreateResume, TypeInv, TypeOK, Steps

LEMMA CreatePublishType == TypeInv /\ CreatePublish => TypeInv'
<1> SUFFICES ASSUME TypeInv, CreatePublish PROVE TypeInv'
  OBVIOUS
<1>1. txn.dev \in Devices /\ pc \in UserSteps /\ pc \in DeviceSteps
  BY DEF TypeInv, CreatePublish, Subjects, DeviceSteps, UserSteps, Steps
<1>2. meta' \in [Devices -> MetaRecords]
  <2>1. [meta[txn.dev] EXCEPT !.provisioning = FALSE] \in MetaRecords
    <3>1. meta[txn.dev] \in MetaRecords
      BY <1>1 DEF TypeInv, TypeOK
    <3> QED
      BY <3>1, MetaFlags
  <2> QED
    BY <1>1, <2>1 DEF CreatePublish, MetaNotSaved, TypeInv, TypeOK
<1>3. Release \/ Goto("rollbackRemove", txn)
  BY DEF CreatePublish
<1> QED
  BY <1>1, <1>2, <1>3, ReleaseType, StayType DEF CreatePublish, TypeInv, TypeOK, Steps

LEMMA RollbackRemoveType == TypeInv /\ RollbackRemove => TypeInv'
<1> SUFFICES ASSUME TypeInv, RollbackRemove PROVE TypeInv'
  OBVIOUS
<1>1. txn.dev \in Devices /\ pc \in UserSteps /\ pc \in DeviceSteps
  BY DEF TypeInv, RollbackRemove, Subjects, DeviceSteps, UserSteps, Steps
<1>2. \E r \in RemoveClient(store, txn.dev, host) :
         store' = r.store /\ (Release \/ Goto("rollbackMeta", txn))
  BY DEF RollbackRemove, Permitted
<1>3. store' \in Stores
  BY <1>1, <1>2, RemoveClientChanges DEF TypeInv, TypeOK
<1> QED
  BY <1>1, <1>2, <1>3, ReleaseType, StayType DEF RollbackRemove, TypeInv, TypeOK, Steps

LEMMA RollbackMetaType == TypeInv /\ RollbackMeta => TypeInv'
<1> SUFFICES ASSUME TypeInv, RollbackMeta PROVE TypeInv'
  OBVIOUS
<1>1. txn.dev \in Devices /\ pc \in UserSteps /\ pc \in DeviceSteps
  BY DEF TypeInv, RollbackMeta, Subjects, DeviceSteps, UserSteps, Steps
<1>2. meta' \in [Devices -> MetaRecords]
  BY <1>1 DEF RollbackMeta, MetaNotSaved, Records, TypeInv, TypeOK
<1>3. Release \/ Goto("rollbackSync", txn)
  BY DEF RollbackMeta
<1> QED
  BY <1>1, <1>2, <1>3, ReleaseType, StayType DEF RollbackMeta, TypeInv, TypeOK, Steps

LEMMA RollbackSyncType == TypeInv /\ RollbackSync => TypeInv'
BY ReconcileType, ReleaseType DEF RollbackSync, TypeInv, TypeOK

LEMMA CreateType == TypeInv /\ CreateSteps => TypeInv'
BY AddClientStepType, CreateMetaType, CreateSyncType, CreateResumeType, CreatePublishType,
   RollbackRemoveType, RollbackMetaType, RollbackSyncType DEF CreateSteps

LEMMA CreateBeginType == \A d \in Devices : TypeInv /\ CreateBegin(d) => TypeInv'
<1> SUFFICES ASSUME TypeInv, NEW d \in Devices, CreateBegin(d) PROVE TypeInv'
  OBVIOUS
<1> DEFINE locals == [NoTxn EXCEPT !.kind = "create", !.user = Owner[d], !.dev = d,
                                   !.prev = meta[d]]
<1>1. locals \in Records /\ locals.dev \in Devices /\ locals.user \in Users
  BY RecordsOfNoTxn DEF TypeInv, TypeOK, NoTxn, Records, Kinds
<1>2. nft' \in SUBSET Addrs
  BY ReconcileType DEF CreateBegin
<1>3. Release \/ Goto("addClient", locals)
  BY DEF CreateBegin
<1> HIDE DEF locals
<1> QED
  BY <1>1, <1>2, <1>3, ReleaseType, GotoType DEF CreateBegin, TypeInv, TypeOK, Steps

-----------------------------------------------------------------------------

LEMMA DeleteEndsType ==
    ASSUME TypeInv, pc \in DeviceSteps, NEW ok, DeleteEnds(ok)
    PROVE  /\ pc' \in Steps /\ txn' \in Records /\ Subjects'
           /\ panel' \in {"down", "starting", "serving"}
<1>1. CASE Release
  BY <1>1, ReleaseType
<1>2. CASE ~Release
  <2> DEFINE locals == [txn EXCEPT !.dev = Nobody, !.old = {}, !.new = {},
                                   !.bad = @ \/ ~ok]
  <2>1. Goto("nextDevice", locals)
    BY <1>2 DEF DeleteEnds
  <2>2. locals \in Records /\ locals.user = txn.user
    BY DEF TypeInv, TypeOK, Records
  <2>3. txn.user \in Users
    BY DEF TypeInv, Subjects, DeviceSteps, UserSteps, Steps
  <2> HIDE DEF locals
  <2> QED
    BY <2>1, <2>2, <2>3, GotoType DEF Steps, DeviceSteps
<1> QED
  BY <1>1, <1>2

LEMMA DeleteStartType ==
    ASSUME TypeInv, NEW d \in Devices, NEW locals \in Records, locals.user \in Users,
           DeleteStart(d, locals)
    PROVE  /\ pc' \in Steps /\ txn' \in Records /\ Subjects'
           /\ panel' \in {"down", "starting", "serving"}
<1> DEFINE next == [locals EXCEPT !.dev = d, !.old = IpsOf(SafeDevices(policy)),
                                  !.new = IpsOf(SafeDevices(policy) \ {d})]
<1>1. /\ IpsOf(SafeDevices(policy)) \in SUBSET Addrs
      /\ IpsOf(SafeDevices(policy) \ {d}) \in SUBSET Addrs
  <2>1. SafeDevices(policy) \ {d} \in SUBSET Devices
    BY SafeDevicesType
  <2> QED
    BY <2>1, IpsOfType, SafeDevicesType DEF TypeInv, TypeOK
<1>2. next \in Records /\ next.dev = d /\ next.user = locals.user
  BY <1>1 DEF Records
<1>3. \E step \in {"removeClient", "deleteSync", "dropMeta"} : Goto(step, next)
  BY DEF DeleteStart
<1> HIDE DEF next
<1> QED
  BY <1>2, <1>3, GotoType DEF Steps

LEMMA DeleteRemoveType == TypeInv /\ DeleteRemove => TypeInv'
<1> SUFFICES ASSUME TypeInv, DeleteRemove PROVE TypeInv'
  OBVIOUS
<1>1. txn.dev \in Devices /\ pc \in UserSteps /\ pc \in DeviceSteps
  BY DEF TypeInv, DeleteRemove, Subjects, DeviceSteps, UserSteps, Steps
<1>2. \E r \in RemoveClient(store, txn.dev, host) :
         store' = r.store /\ (Goto("markRevoked", txn) \/ DeleteEnds(FALSE))
  BY DEF DeleteRemove, Permitted
<1>3. store' \in Stores
  BY <1>1, <1>2, RemoveClientChanges DEF TypeInv, TypeOK
<1> QED
  BY <1>1, <1>2, <1>3, DeleteEndsType, StayType DEF DeleteRemove, TypeInv, TypeOK, Steps

LEMMA MarkRevokedType == TypeInv /\ MarkRevoked => TypeInv'
<1> SUFFICES ASSUME TypeInv, MarkRevoked PROVE TypeInv'
  OBVIOUS
<1>1. txn.dev \in Devices /\ pc \in UserSteps /\ pc \in DeviceSteps
  BY DEF TypeInv, MarkRevoked, Subjects, DeviceSteps, UserSteps, Steps
<1>2. meta' \in [Devices -> MetaRecords]
  <2>1. [meta[txn.dev] EXCEPT !.revoked = TRUE] \in MetaRecords
    <3>1. meta[txn.dev] \in MetaRecords
      BY <1>1 DEF TypeInv, TypeOK
    <3> QED
      BY <3>1, MetaFlags
  <2> QED
    BY <1>1, <2>1 DEF MarkRevoked, MetaNotSaved, TypeInv, TypeOK
<1>3. Goto("deleteSync", txn) \/ Goto("dropMeta", txn) \/ DeleteEnds(FALSE)
  BY DEF MarkRevoked
<1> QED
  BY <1>1, <1>2, <1>3, DeleteEndsType, StayType DEF MarkRevoked, TypeInv, TypeOK, Steps

LEMMA DeleteSyncType == TypeInv /\ DeleteSync => TypeInv'
<1> SUFFICES ASSUME TypeInv, DeleteSync PROVE TypeInv'
  OBVIOUS
<1>1. pc \in UserSteps /\ pc \in DeviceSteps
  BY DEF DeleteSync, DeviceSteps, UserSteps, Steps
<1>2. nft' \in SUBSET Addrs
  BY DEF DeleteSync, SyncFails, Records, TypeInv, TypeOK
<1>3. Goto("dropMeta", txn) \/ DeleteEnds(FALSE)
  BY DEF DeleteSync
<1> QED
  BY <1>1, <1>2, <1>3, DeleteEndsType, StayType DEF DeleteSync, TypeInv, TypeOK, Steps

LEMMA DropMetaType == TypeInv /\ DropMeta => TypeInv'
<1> SUFFICES ASSUME TypeInv, DropMeta PROVE TypeInv'
  OBVIOUS
<1>1. txn.dev \in Devices /\ pc \in UserSteps /\ pc \in DeviceSteps
  BY DEF TypeInv, DropMeta, Subjects, DeviceSteps, UserSteps, Steps
<1>2. meta' \in [Devices -> MetaRecords]
  <2>1. Tombstone \in MetaRecords
    BY DEF Tombstone, NoMeta, MetaRecords
  <2> QED
    BY <1>1, <2>1, RecordsOfNoTxn DEF DropMeta, MetaNotSaved, TypeInv, TypeOK
<1>3. Goto("deleteUndo", txn) \/ DeleteEnds(TRUE) \/ DeleteEnds(FALSE)
  BY DEF DropMeta
<1> QED
  BY <1>1, <1>2, <1>3, DeleteEndsType, StayType DEF DropMeta, TypeInv, TypeOK, Steps

LEMMA DeleteUndoType == TypeInv /\ DeleteUndo => TypeInv'
<1> SUFFICES ASSUME TypeInv, DeleteUndo PROVE TypeInv'
  OBVIOUS
<1>1. pc \in DeviceSteps
  BY DEF DeleteUndo, DeviceSteps
<1>2. nft' \in SUBSET Addrs
  BY DEF DeleteUndo, SyncFails, Records, TypeInv, TypeOK
<1> QED
  BY <1>1, <1>2, DeleteEndsType DEF DeleteUndo, TypeInv, TypeOK

LEMMA DeleteUserNextType == TypeInv /\ DeleteUserNext => TypeInv'
<1> SUFFICES ASSUME TypeInv, DeleteUserNext PROVE TypeInv'
  OBVIOUS
<1>1. txn.user \in Users
  BY DEF DeleteUserNext, TypeInv, Subjects, UserSteps, Steps
<1>2. PICK d \in txn.todo :
         LET rest == [txn EXCEPT !.todo = @ \ {d}]
         IN  DeleteStart(d, rest) \/ Goto("nextDevice", [rest EXCEPT !.bad = TRUE])
  BY DEF DeleteUserNext
<1> DEFINE rest == [txn EXCEPT !.todo = @ \ {d}]
<1>3. /\ d \in Devices /\ rest \in Records /\ rest.user = txn.user
      /\ [rest EXCEPT !.bad = TRUE] \in Records /\ [rest EXCEPT !.bad = TRUE].user = txn.user
  BY DEF TypeInv, TypeOK, Records
<1>4. DeleteStart(d, rest) \/ Goto("nextDevice", [rest EXCEPT !.bad = TRUE])
  BY <1>2
<1>5. UNCHANGED <<users, policy, meta, store, nft, host>>
  BY DEF DeleteUserNext
<1> DEFINE failed == [rest EXCEPT !.bad = TRUE]
<1> HIDE DEF failed, rest
<1>6. CASE DeleteStart(d, rest)
  BY <1>1, <1>3, <1>5, <1>6, DeleteStartType DEF TypeInv, TypeOK
<1>7. CASE Goto("nextDevice", failed)
  <2>1. failed \in Records /\ failed.user \in Users
    BY <1>1, <1>3 DEF failed
  <2> QED
    BY <1>5, <1>7, <2>1, GotoType DEF TypeInv, TypeOK, Steps, DeviceSteps
<1> QED
  BY <1>4, <1>6, <1>7 DEF failed

LEMMA DeleteUserEndType == TypeInv /\ DeleteUserEnd => TypeInv'
<1> SUFFICES ASSUME TypeInv, DeleteUserEnd PROVE TypeInv'
  OBVIOUS
<1>1. users' \in [Users -> UserRecords]
  BY RecordsOfNoTxn DEF DeleteUserEnd, UsersNotSaved, TypeInv, TypeOK
<1> QED
  BY <1>1, ReleaseType DEF DeleteUserEnd, TypeInv, TypeOK

LEMMA DeleteType == TypeInv /\ DeleteSteps => TypeInv'
BY DeleteRemoveType, MarkRevokedType, DeleteSyncType, DropMetaType, DeleteUndoType,
   DeleteUserNextType, DeleteUserEndType DEF DeleteSteps

LEMMA DeleteBeginType ==
    \A d \in Devices, confirmed \in BOOLEAN :
        TypeInv /\ DeleteBegin(d, confirmed) => TypeInv'
<1> SUFFICES ASSUME TypeInv, NEW d \in Devices, NEW confirmed \in BOOLEAN,
                    DeleteBegin(d, confirmed)
             PROVE  TypeInv'
  OBVIOUS
<1> DEFINE locals == [NoTxn EXCEPT !.kind = IF confirmed THEN "confirmed" ELSE "delete",
                                   !.user = Owner[d]]
<1>1. locals \in Records /\ locals.user \in Users
  BY RecordsOfNoTxn DEF NoTxn, Records, Kinds
<1>2. DeleteStart(d, locals) /\ UNCHANGED <<users, policy, meta, store, nft, host>>
  BY DEF DeleteBegin
<1> HIDE DEF locals
<1> QED
  BY <1>1, <1>2, DeleteStartType DEF TypeInv, TypeOK

LEMMA DeleteUserBeginType == \A u \in Users : TypeInv /\ DeleteUserBegin(u) => TypeInv'
<1> SUFFICES ASSUME TypeInv, NEW u \in Users, DeleteUserBegin(u) PROVE TypeInv'
  OBVIOUS
<1> DEFINE new == [users EXCEPT ![u].revoking = TRUE, ![u].approved = FALSE]
           locals == [NoTxn EXCEPT !.kind = "deleteUser", !.user = u,
                                   !.todo = {d \in Owned(u) : meta[d].present}]
<1>1. new \in [Users -> UserRecords]
  <2>1. users \in [Users -> UserRecords]
    BY DEF TypeInv, TypeOK
  <2> QED
    BY <2>1 DEF UserRecords
<1>2. users' = users \/ users' = new
  BY DEF DeleteUserBegin, UsersNotSaved
<1>3. locals \in Records /\ locals.user = u
  BY RecordsOfNoTxn DEF NoTxn, Records, Kinds, Owned
<1>4. Release \/ Goto("nextDevice", locals)
  BY DEF DeleteUserBegin
<1>5. UNCHANGED <<policy, meta, store, nft, host>>
  BY DEF DeleteUserBegin
<1> HIDE DEF new, locals
<1> QED
  BY <1>1, <1>2, <1>3, <1>4, <1>5, ReleaseType, GotoType
     DEF TypeInv, TypeOK, Steps, DeviceSteps

-----------------------------------------------------------------------------

LEMMA CheckpointType ==
    ASSUME TypeInv, NEW u \in Users, NEW paused \in BOOLEAN, NEW pending \in BOOLEAN
    PROVE  Checkpoint(u, paused, pending) \in [Users -> UserRecords]
<1>1. [users[u] EXCEPT !.paused = paused, !.pending = pending] \in UserRecords
  <2>1. users[u] \in UserRecords
    BY DEF TypeInv, TypeOK
  <2> QED
    BY <2>1, UserFlags
<1> QED
  BY <1>1 DEF Checkpoint, TypeInv, TypeOK

LEMMA PausableType == \A u : PausableDevices(u) \in SUBSET Devices
BY DEF PausableDevices, Owned

LEMMA PauseBeginType ==
    ASSUME TypeInv, NEW u \in Users, NEW resume, NEW locals \in Records,
           PauseBegin(u, resume, locals)
    PROVE  TypeInv'
<1> DEFINE next(kind) == [locals EXCEPT !.kind = kind, !.user = u, !.todo = PausableDevices(u)]
<1>1. users' \in [Users -> UserRecords]
  <2>1. Checkpoint(u, TRUE, TRUE) \in [Users -> UserRecords]
    BY CheckpointType
  <2> QED
    BY <2>1 DEF PauseBegin, RecordPause, UsersNotSaved, TypeInv, TypeOK
<1>2. /\ next("resume") \in Records /\ next("resume").user = u
      /\ next("pause") \in Records /\ next("pause").user = u
  BY PausableType DEF Records, Kinds
<1>3. Abort \/ Goto("resumeSync", next("resume")) \/ Goto("pauseNext", next("pause"))
      \/ Goto("resumeSync", next("pause")) \/ Goto("pauseNext", next("resume"))
  BY DEF PauseBegin
<1>4. UNCHANGED <<policy, meta, store, nft, host>>
  BY DEF PauseBegin
<1> HIDE DEF next
<1> QED
  BY <1>1, <1>2, <1>3, <1>4, AbortType, GotoType DEF TypeInv, TypeOK, Steps, DeviceSteps

LEMMA PauseType == \A u \in Users : TypeInv /\ Pause(u) => TypeInv'
BY PauseBeginType, RecordsOfNoTxn DEF Pause

LEMMA ResumeType == \A u \in Users : TypeInv /\ Resume(u) => TypeInv'
BY PauseBeginType, RecordsOfNoTxn DEF Resume

LEMMA PausePeerType == TypeInv /\ PausePeer => TypeInv'
<1> SUFFICES ASSUME TypeInv, PausePeer PROVE TypeInv'
  OBVIOUS
<1>1. PICK d \in txn.todo : \E r \in PauseClient(store, d, host) :
         store' = r.store /\ Goto(pc, [txn EXCEPT !.todo = @ \ {d}, !.bad = @ \/ ~r.ok])
  BY DEF PausePeer, Permitted
<1>2. d \in Devices
  BY DEF TypeInv, TypeOK, Records
<1>3. PICK r \in PauseClient(store, d, host) :
         store' = r.store /\ Goto(pc, [txn EXCEPT !.todo = @ \ {d}, !.bad = @ \/ ~r.ok])
  BY <1>1
<1>4. store' \in Stores
  BY <1>2, <1>3, PauseClientChanges DEF TypeInv, TypeOK
<1> DEFINE next == [txn EXCEPT !.todo = @ \ {d}, !.bad = @ \/ ~r.ok]
<1>5. next \in Records /\ next.user = txn.user
  BY DEF TypeInv, TypeOK, Records
<1>6. txn.user \in Users /\ pc \in Steps /\ pc \notin DeviceSteps
  BY DEF PausePeer, TypeInv, TypeOK, Subjects, UserSteps, DeviceSteps, Steps
<1>7. Goto(pc, next)
  BY <1>3
<1> HIDE DEF next
<1> QED
  BY <1>4, <1>5, <1>6, <1>7, GotoType DEF PausePeer, TypeInv, TypeOK

LEMMA PauseConfirmType == TypeInv /\ PauseConfirm => TypeInv'
<1> SUFFICES ASSUME TypeInv, PauseConfirm PROVE TypeInv'
  OBVIOUS
<1>1. txn.user \in Users
  BY DEF PauseConfirm, TypeInv, Subjects, UserSteps, Steps
<1>2. users' \in [Users -> UserRecords]
  <2>1. Checkpoint(txn.user, TRUE, FALSE) \in [Users -> UserRecords]
    BY <1>1, CheckpointType
  <2> QED
    BY <2>1 DEF PauseConfirm, UsersNotSaved, TypeInv, TypeOK
<1> DEFINE locals == [NoTxn EXCEPT !.kind = "start", !.queue = txn.queue]
<1>3. locals \in Records
  BY RecordsOfNoTxn DEF NoTxn, Records, Kinds, TypeInv, TypeOK
<1>4. Abort \/ Release \/ Goto("startPauses", locals)
  BY DEF PauseConfirm
<1>5. UNCHANGED <<policy, meta, store, nft, host>>
  BY DEF PauseConfirm
<1> HIDE DEF locals
<1> QED
  BY <1>2, <1>3, <1>4, <1>5, AbortType, ReleaseType, GotoType
     DEF TypeInv, TypeOK, Steps, DeviceSteps, UserSteps

LEMMA ResumeSyncType == TypeInv /\ ResumeSync => TypeInv'
<1> SUFFICES ASSUME TypeInv, ResumeSync PROVE TypeInv'
  OBVIOUS
<1>1. pc \in UserSteps
  BY DEF ResumeSync, UserSteps, Steps
<1>2. nft' \in SUBSET Addrs
  BY ReconcileType DEF ResumeSync
<1>3. Goto("resumeNext", txn) \/ Goto("repause", txn)
  BY DEF ResumeSync
<1> QED
  BY <1>1, <1>2, <1>3, StayType DEF ResumeSync, TypeInv, TypeOK, Steps, DeviceSteps

LEMMA ResumePeerType == TypeInv /\ ResumePeer => TypeInv'
<1> SUFFICES ASSUME TypeInv, ResumePeer PROVE TypeInv'
  OBVIOUS
<1>1. PICK d \in txn.todo : \E r \in ResumeClient(store, d, host) :
         /\ store' = r.store
         /\ \/ Goto("resumeNext", [txn EXCEPT !.todo = @ \ {d}])
            \/ Goto("repause", [txn EXCEPT !.todo = PausableDevices(txn.user)])
  BY DEF ResumePeer, Permitted
<1>2. d \in Devices
  BY DEF TypeInv, TypeOK, Records
<1>3. store' \in Stores
  BY <1>1, <1>2, ResumeClientChanges DEF TypeInv, TypeOK
<1> DEFINE rest == [txn EXCEPT !.todo = @ \ {d}]
           all  == [txn EXCEPT !.todo = PausableDevices(txn.user)]
<1>4. /\ rest \in Records /\ rest.user = txn.user
      /\ all \in Records /\ all.user = txn.user
  BY PausableType DEF TypeInv, TypeOK, Records
<1>5. txn.user \in Users
  BY DEF ResumePeer, TypeInv, Subjects, UserSteps, Steps
<1>6. Goto("resumeNext", rest) \/ Goto("repause", all)
  BY <1>1
<1> HIDE DEF rest, all
<1> QED
  BY <1>3, <1>4, <1>5, <1>6, GotoType DEF ResumePeer, TypeInv, TypeOK, Steps, DeviceSteps

LEMMA ResumeConfirmType == TypeInv /\ ResumeConfirm => TypeInv'
<1> SUFFICES ASSUME TypeInv, ResumeConfirm PROVE TypeInv'
  OBVIOUS
<1>1. txn.user \in Users
  BY DEF ResumeConfirm, TypeInv, Subjects, UserSteps, Steps
<1>2. users' \in [Users -> UserRecords]
  <2>1. Checkpoint(txn.user, FALSE, FALSE) \in [Users -> UserRecords]
    BY <1>1, CheckpointType
  <2> QED
    BY <2>1 DEF ResumeConfirm, UsersNotSaved, TypeInv, TypeOK
<1> DEFINE locals == [txn EXCEPT !.todo = PausableDevices(txn.user)]
<1>3. locals \in Records /\ locals.user = txn.user
  BY PausableType DEF TypeInv, TypeOK, Records
<1>4. Release \/ Goto("repause", locals)
  BY DEF ResumeConfirm
<1>5. UNCHANGED <<policy, meta, store, nft, host>>
  BY DEF ResumeConfirm
<1> HIDE DEF locals
<1> QED
  BY <1>1, <1>2, <1>3, <1>4, <1>5, ReleaseType, GotoType
     DEF TypeInv, TypeOK, Steps, DeviceSteps

LEMMA RepauseEndType == TypeInv /\ RepauseEnd => TypeInv'
<1> SUFFICES ASSUME TypeInv, RepauseEnd PROVE TypeInv'
  OBVIOUS
<1>1. txn.user \in Users /\ txn.bad \in BOOLEAN
  BY DEF RepauseEnd, TypeInv, TypeOK, Subjects, UserSteps, Steps, Records
<1>2. users' \in [Users -> UserRecords]
  <2>1. Checkpoint(txn.user, TRUE, txn.bad) \in [Users -> UserRecords]
    BY <1>1, CheckpointType
  <2> QED
    BY <2>1 DEF RepauseEnd, UsersNotSaved, TypeInv, TypeOK
<1> QED
  BY <1>2, ReleaseType DEF RepauseEnd, TypeInv, TypeOK

LEMMA PauseStepsType == TypeInv /\ PauseSteps => TypeInv'
BY PausePeerType, PauseConfirmType, ResumeSyncType, ResumePeerType, ResumeConfirmType,
   RepauseEndType DEF PauseSteps

-----------------------------------------------------------------------------

LEMMA AccountBeginType == \A u \in Users : TypeInv /\ AccountBegin(u) => TypeInv'
<1> SUFFICES ASSUME TypeInv, NEW u \in Users, AccountBegin(u) PROVE TypeInv'
  OBVIOUS
<1> DEFINE now == IpsOf(SafeDevices(policy))
           wanted == IpsOf(SafeDevices(policy \cup {u}))
           locals == [NoTxn EXCEPT !.kind = "account", !.user = u, !.old = now]
<1>1. now \in SUBSET Addrs /\ wanted \in SUBSET Addrs
  BY IpsOfType, SafeDevicesType DEF TypeInv, TypeOK
<1>2. nft' \in {nft, wanted}
  BY DEF AccountBegin, SyncFails
<1>3. Release \/ Goto("savePolicy", locals)
  BY DEF AccountBegin
<1> HIDE DEF now, wanted
<1>4. locals \in Records /\ locals.user = u
  BY <1>1, RecordsOfNoTxn DEF NoTxn, Records, Kinds
<1>5. UNCHANGED <<users, policy, meta, store, host>>
  BY DEF AccountBegin
<1> HIDE DEF locals
<1> QED
  BY <1>1, <1>2, <1>3, <1>4, <1>5, ReleaseType, GotoType
     DEF TypeInv, TypeOK, Steps, DeviceSteps

LEMMA SavePolicyType == TypeInv /\ SavePolicy => TypeInv'
<1> SUFFICES ASSUME TypeInv, SavePolicy PROVE TypeInv'
  OBVIOUS
<1>1. txn.user \in Users /\ pc \in UserSteps
  BY DEF SavePolicy, TypeInv, Subjects, UserSteps, Steps
<1>2. Release \/ Goto("undoPolicy", txn)
  BY DEF SavePolicy
<1> QED
  BY <1>1, <1>2, ReleaseType, StayType DEF SavePolicy, TypeInv, TypeOK, Steps, DeviceSteps

LEMMA UndoType == TypeInv /\ (UndoPolicy \/ UndoSafe) => TypeInv'
BY ReleaseType DEF UndoPolicy, UndoSafe, SyncFails, Records, TypeInv, TypeOK

LEMMA ProtectBeginType ==
    \A d \in Devices, enabled \in BOOLEAN : TypeInv /\ ProtectBegin(d, enabled) => TypeInv'
<1> SUFFICES ASSUME TypeInv, NEW d \in Devices, NEW enabled \in BOOLEAN,
                    ProtectBegin(d, enabled)
             PROVE  TypeInv'
  OBVIOUS
<1> DEFINE now == SafeDevices(policy)
           wanted == IF enabled THEN now \cup {d} ELSE now \ {d}
           locals == [NoTxn EXCEPT !.kind = IF enabled THEN "protect" ELSE "unprotect",
                                   !.user = Owner[d], !.dev = d, !.old = IpsOf(now)]
<1>1. IpsOf(now) \in SUBSET Addrs /\ IpsOf(wanted) \in SUBSET Addrs
  <2>1. now \in SUBSET Devices /\ wanted \in SUBSET Devices
    BY SafeDevicesType
  <2> QED
    BY <2>1, IpsOfType DEF TypeInv, TypeOK
<1>2. nft' \in {nft, IpsOf(wanted)}
  BY DEF ProtectBegin, SyncFails
<1>3. Release \/ Goto("saveSafe", locals)
  BY DEF ProtectBegin
<1> HIDE DEF now, wanted
<1>4. locals \in Records /\ locals.user = Owner[d] /\ locals.dev = d
  BY <1>1, RecordsOfNoTxn DEF NoTxn, Records, Kinds
<1>5. UNCHANGED <<users, policy, meta, store, host>>
  BY DEF ProtectBegin
<1> HIDE DEF locals
<1> QED
  BY <1>1, <1>2, <1>3, <1>4, <1>5, ReleaseType, GotoType
     DEF TypeInv, TypeOK, Steps, DeviceSteps

LEMMA SaveSafeType == TypeInv /\ SaveSafe => TypeInv'
<1> SUFFICES ASSUME TypeInv, SaveSafe PROVE TypeInv'
  OBVIOUS
<1>1. txn.dev \in Devices /\ pc \in UserSteps /\ pc \in DeviceSteps
  BY DEF TypeInv, SaveSafe, Subjects, DeviceSteps, UserSteps, Steps
<1> DEFINE on == txn.kind = "protect"
<1>2. meta' \in [Devices -> MetaRecords]
  <2>1. meta[txn.dev] \in MetaRecords
    BY <1>1 DEF TypeInv, TypeOK
  <2>2. [meta[txn.dev] EXCEPT !.safe = on, !.locked = on] \in MetaRecords
    BY <2>1, MetaFlags
  <2> HIDE DEF on
  <2> QED
    BY <1>1, <2>2 DEF SaveSafe, MetaNotSaved, TypeInv, TypeOK, on
<1>3. Release \/ Goto("undoSafe", txn)
  BY DEF SaveSafe
<1> HIDE DEF on
<1> QED
  BY <1>1, <1>2, <1>3, ReleaseType, StayType DEF SaveSafe, TypeInv, TypeOK, Steps

LEMMA PolicyType == TypeInv /\ PolicySteps => TypeInv'
BY SavePolicyType, UndoType, SaveSafeType DEF PolicySteps

LEMMA SetDeletionProtectedType ==
    \A d \in Devices, enabled \in BOOLEAN :
        TypeInv /\ SetDeletionProtected(d, enabled) => TypeInv'
<1> SUFFICES ASSUME TypeInv, NEW d \in Devices, NEW enabled \in BOOLEAN,
                    SetDeletionProtected(d, enabled)
             PROVE  TypeInv'
  OBVIOUS
<1>1. [meta[d] EXCEPT !.delprot = enabled] \in MetaRecords
  <2>1. meta[d] \in MetaRecords
    BY DEF TypeInv, TypeOK
  <2> QED
    BY <2>1, MetaFlags
<1>2. meta' \in [Devices -> MetaRecords]
  BY <1>1 DEF SetDeletionProtected, MetaNotSaved, TypeInv, TypeOK
<1> QED
  BY <1>2 DEF SetDeletionProtected, TypeInv, TypeOK, Subjects

-----------------------------------------------------------------------------

LEMMA MigrateType == TypeInv /\ Migrate => TypeInv'
<1> SUFFICES ASSUME TypeInv, Migrate PROVE TypeInv'
  OBVIOUS
<1>1. meta' \in [Devices -> MetaRecords]
  BY RecordsOfNoTxn DEF Migrate, MetaNotSaved, TypeInv, TypeOK
<1> DEFINE locals == [txn EXCEPT !.queue = PersistedPauses]
<1>2. locals \in Records
  BY DEF PersistedPauses, Records, TypeInv, TypeOK
<1>3. Abort \/ Goto("startPauses", locals)
  BY DEF Migrate
<1>4. UNCHANGED <<users, policy, store, nft, host>>
  BY DEF Migrate
<1> HIDE DEF locals
<1> QED
  BY <1>1, <1>2, <1>3, <1>4, AbortType, GotoType
     DEF TypeInv, TypeOK, Steps, DeviceSteps, UserSteps

LEMMA StartPauseType == TypeInv /\ StartPause => TypeInv'
<1> SUFFICES ASSUME TypeInv, StartPause PROVE TypeInv'
  OBVIOUS
<1>1. PICK u \in txn.queue :
         \/ PauseBegin(u, FALSE, [NoTxn EXCEPT !.queue = txn.queue \ {u}])
         \/ Abort /\ UNCHANGED <<users, policy, meta, store, nft, host>>
  BY DEF StartPause
<1>2. u \in Users /\ [NoTxn EXCEPT !.queue = txn.queue \ {u}] \in Records
  BY RecordsOfNoTxn DEF NoTxn, Records, TypeInv, TypeOK
<1>3. CASE PauseBegin(u, FALSE, [NoTxn EXCEPT !.queue = txn.queue \ {u}])
  BY <1>2, <1>3, PauseBeginType
<1>4. CASE Abort /\ UNCHANGED <<users, policy, meta, store, nft, host>>
  BY <1>4, AbortType DEF TypeInv, TypeOK
<1> QED
  BY <1>1, <1>3, <1>4

LEMMA StartPausesEndType == TypeInv /\ StartPausesEnd => TypeInv'
BY GotoType DEF StartPausesEnd, TypeInv, TypeOK, Steps, DeviceSteps, UserSteps

LEMMA StartDnsType == TypeInv /\ StartDns => TypeInv'
<1> SUFFICES ASSUME TypeInv, StartDns PROVE TypeInv'
  OBVIOUS
<1>1. nft' \in SUBSET Addrs
  BY ReconcileType DEF StartDns
<1>2. CASE Abort
  BY <1>1, <1>2, AbortType DEF StartDns, TypeInv, TypeOK
<1>3. CASE panel' = "serving" /\ pc' = "idle" /\ txn' = NoTxn
  BY <1>1, <1>3, RecordsOfNoTxn
     DEF StartDns, TypeInv, TypeOK, Subjects, Steps, DeviceSteps, UserSteps
<1> QED
  BY <1>2, <1>3 DEF StartDns

LEMMA StartType == TypeInv /\ StartSteps => TypeInv'
BY MigrateType, StartPauseType, StartPausesEndType, StartDnsType DEF StartSteps

LEMMA BootType == TypeInv /\ Boot => TypeInv'
<1> SUFFICES ASSUME TypeInv, Boot PROVE TypeInv'
  OBVIOUS
<1>1. CASE PanelStart
  <2>1. [NoTxn EXCEPT !.kind = "start"] \in Records
    BY RecordsOfNoTxn DEF NoTxn, Records, Kinds
  <2> QED
    BY <1>1, <2>1 DEF PanelStart, TypeInv, TypeOK, Subjects, Steps, DeviceSteps, UserSteps
<1>2. CASE Bootstrap
  BY <1>2, ReconcileType DEF Bootstrap, TypeInv, TypeOK, Subjects
<1>3. CASE WgQuickUp
  BY <1>3 DEF WgQuickUp, TypeInv, TypeOK, Subjects, Stores
<1>4. CASE PanelCrash
  BY <1>4, RecordsOfNoTxn
     DEF PanelCrash, TypeInv, TypeOK, Subjects, Steps, DeviceSteps, UserSteps
<1>5. CASE HostReboot
  BY <1>5, RecordsOfNoTxn
     DEF HostReboot, TypeInv, TypeOK, Subjects, Steps, DeviceSteps, UserSteps, Stores
<1> QED
  BY <1>1, <1>2, <1>3, <1>4, <1>5 DEF Boot

LEMMA WebType == TypeInv /\ Web => TypeInv'
<1> SUFFICES ASSUME TypeInv, Web PROVE TypeInv'
  OBVIOUS
<1>1. PICK u \in Users : Register(u) \/ Approve(u) \/ Reject(u)
  BY DEF Web
<1>2. NewUser \in UserRecords
  BY DEF NewUser, NoUser, UserRecords
<1>3. [users[u] EXCEPT !.approved = TRUE] \in UserRecords
  <2>1. users[u] \in UserRecords
    BY DEF TypeInv, TypeOK
  <2> QED
    BY <2>1, UserFlags
<1>4. users' \in [Users -> UserRecords]
  BY <1>1, <1>2, <1>3, RecordsOfNoTxn DEF Register, Approve, Reject, TypeInv, TypeOK
<1> QED
  BY <1>1, <1>4 DEF Register, Approve, Reject, TypeInv, TypeOK, Subjects

LEMMA NextType == TypeInv /\ [Next]_vars => TypeInv'
<1> SUFFICES ASSUME TypeInv, [Next]_vars PROVE TypeInv'
  OBVIOUS
<1>1. CASE LockedStep
  BY <1>1, CreateType, DeleteType, PauseStepsType, PolicyType, StartType DEF LockedStep
<1>2. CASE Begin
  BY <1>2, CreateBeginType, DeleteBeginType, DeleteUserBeginType, PauseType, ResumeType,
     AccountBeginType, ProtectBeginType, SetDeletionProtectedType DEF Begin
<1>3. CASE UNCHANGED vars
  BY <1>3 DEF vars, TypeInv, TypeOK, Subjects
<1> QED
  BY <1>1, <1>2, <1>3, WebType, BootType DEF Next

\* Every variable keeps its type, and a step that works on a device or an
\* account has one (the locals of create_device, _delete_device, delete_user,
\* set_user_paused and the policy setters).
THEOREM TypeCorrect == Spec => []TypeOK
<1>1. TypeInv => TypeOK
  BY DEF TypeInv
<1> QED
  BY <1>1, InitType, NextType, PTL DEF Spec

-----------------------------------------------------------------------------
(* Account-wide Safe internet is enforced *)

\* A profile in service or about to be: recorded, not revoked, with keys.
Held(d) == meta[d].present /\ ~meta[d].revoked /\ HasConf(store, d)

\* The set N matches every such profile of D whose owner is in pol.
Covers(N, pol, D) ==
    \A d \in D : Held(d) /\ Owner[d] \in pol => store.conf[d].addr \in N

\* The body of AccountEnforced.
RoutesMatched ==
    \A d \in Devices : Held(d) /\ Owner[d] \in policy /\ On(d) => store.conf[d].addr \in nft

\* A host that boots runs no panel; a panel that is down holds no lock.
Halted == /\ host = "booting" => panel = "down"
          /\ panel = "down" => pc = "idle"

\* A reconciliation has covered every profile before a peer is resumed.
ResumesCovered == pc \in {"createResume", "resumeNext"} => Covers(nft, policy, Devices)

\* The new owner's profiles are covered before the policy is saved.
OwnerCovered == pc = "savePolicy" => Covers(nft, policy \cup {txn.user}, Devices)

\* The set a failed policy change goes back to covers the policy before it.
UndoCovered ==
    pc \in {"savePolicy", "undoPolicy", "saveSafe", "undoSafe"} => Covers(txn.old, policy, Devices)

\* Both sets a deletion may leave behind cover every other profile.
DeletionCovered ==
    pc \in {"removeClient", "markRevoked", "deleteSync", "dropMeta", "deleteUndo"} =>
        /\ Covers(txn.old, policy, Devices \ {txn.dev})
        /\ Covers(txn.new, policy, Devices \ {txn.dev})

\* From then on the client being deleted has no keys.
DeletedGone ==
    pc \in {"rollbackMeta", "markRevoked", "deleteSync", "dropMeta", "deleteUndo"} =>
        ~HasConf(store, txn.dev)

\* A locked owner's new client is only prepared until it is on record.
CreatedOff == pc = "createMeta" /\ Owner[txn.dev] \in policy => ~On(txn.dev)

TransactionInv == /\ ResumesCovered /\ OwnerCovered /\ UndoCovered
                  /\ DeletionCovered /\ DeletedGone /\ CreatedOff

EnforcedInv == TypeInv /\ AccountEnforced /\ Halted /\ TransactionInv

USE OwnerAssumption

-----------------------------------------------------------------------------
(* The vocabulary of the proof *)

\* Steps about which TransactionInv says nothing.
FreeSteps == {"idle", "migrate", "startPauses", "startDns", "addClient", "createSync",
              "createPublish", "rollbackRemove", "rollbackSync", "nextDevice",
              "pauseNext", "resumeSync", "repause"}

LEMMA FreeStepsHold == pc' \in FreeSteps => TransactionInv'
BY DEF FreeSteps, TransactionInv, ResumesCovered, OwnerCovered, UndoCovered,
       DeletionCovered, DeletedGone, CreatedOff

LEMMA EnforcedBody == AccountEnforced <=> (host # "booting" => RoutesMatched)
BY DEF AccountEnforced, RoutesMatched, Held, On

\* The lock is held, or taken, only on a host that has passed its bootstrap.
LEMMA LockHalted ==
    ASSUME EnforcedInv, pc # "idle" \/ panel = "serving", host' = host,
           panel' = panel \/ panel' = "serving" \/ pc' = "idle"
    PROVE  host # "booting" /\ Halted'
BY DEF EnforcedInv, Halted

\* A set that covers everything matches every route.
LEMMA CoversMatch == Covers(nft, policy, Devices) => RoutesMatched
BY DEF Covers, RoutesMatched

\* What reconcile_safe_dns computes for a policy covers it.
LEMMA IpsCover ==
    ASSUME NEW pol, NEW D \in SUBSET Devices, NEW S,
           \A d \in D : Held(d) /\ Owner[d] \in pol => d \in S
    PROVE  Covers(IpsOf(S), pol, D)
BY DEF Covers, IpsOf, Held, Configured

LEMMA SafeDevicesCover ==
    ASSUME NEW pol, NEW d \in Devices, Held(d), Owner[d] \in pol
    PROVE  d \in SafeDevices(pol)
BY DEF SafeDevices, Effective, Held

LEMMA SafeIpsCover == \A pol : Covers(IpsOf(SafeDevices(pol)), pol, Devices)
BY IpsCover, SafeDevicesCover

\* Once the kernel holds a set that covers the policy, every route is matched.
LEMMA KernelCovers ==
    ASSUME Covers(nft', policy, Devices), UNCHANGED <<policy, meta, store>>
    PROVE  Covers(nft, policy, Devices)' /\ RoutesMatched'
BY DEF Covers, RoutesMatched, Held, HasConf

LEMMA ReconcileMatches ==
    ASSUME UNCHANGED <<policy, meta, store>>
    PROVE  /\ ReconcileSucceeds => Covers(nft, policy, Devices)' /\ RoutesMatched'
           /\ RoutesMatched /\ ReconcileFails => RoutesMatched'
<1>1. CASE nft' = nft
  <2>1. RoutesMatched => RoutesMatched'
    BY <1>1 DEF RoutesMatched, Held, HasConf, On
  <2>2. ReconcileSucceeds => Covers(nft', policy, Devices)
    BY SafeIpsCover DEF ReconcileSucceeds
  <2> QED
    BY <2>1, <2>2, KernelCovers
<1>2. CASE nft' = IpsOf(SafeDevices(policy))
  BY <1>2, SafeIpsCover, KernelCovers
<1> QED
  BY <1>1, <1>2 DEF ReconcileSucceeds, ReconcileFails, SyncFails

\* A step under the lock preserves the invariant when it goes to a free step
\* and leaves every route matched.
LEMMA FreeStep ==
    ASSUME EnforcedInv, TypeInv', pc # "idle" \/ panel = "serving", host' = host,
           panel' = panel \/ panel' = "serving" \/ pc' = "idle",
           pc' \in FreeSteps, RoutesMatched => RoutesMatched'
    PROVE  EnforcedInv'
<1>1. host # "booting" /\ Halted'
  BY LockHalted
<1>2. RoutesMatched'
  BY <1>1, EnforcedBody DEF EnforcedInv
<1>3. AccountEnforced'
  BY <1>2 DEF AccountEnforced, RoutesMatched, Held, On
<1> QED
  BY <1>1, <1>3, FreeStepsHold DEF EnforcedInv

\* In general it has to show what TransactionInv says of the next step.
LEMMA LockStep ==
    ASSUME EnforcedInv, TypeInv', pc # "idle" \/ panel = "serving", host' = host,
           panel' = panel \/ panel' = "serving" \/ pc' = "idle",
           RoutesMatched => RoutesMatched' /\ TransactionInv'
    PROVE  EnforcedInv'
<1>1. host # "booting" /\ Halted'
  BY LockHalted
<1>2. RoutesMatched' /\ TransactionInv'
  BY <1>1, EnforcedBody DEF EnforcedInv
<1>3. AccountEnforced'
  BY <1>2 DEF AccountEnforced, RoutesMatched, Held, On
<1> QED
  BY <1>1, <1>2, <1>3 DEF EnforcedInv

-----------------------------------------------------------------------------
(* Creation *)

LEMMA CreateBeginEnforced ==
    ASSUME EnforcedInv, TypeInv', NEW d \in Devices, CreateBegin(d) PROVE EnforcedInv'
<1>1. pc' \in FreeSteps /\ panel' = panel /\ panel = "serving" /\ host' = host
  BY DEF CreateBegin, Serving, Release, Goto, FreeSteps
<1>2. RoutesMatched => RoutesMatched'
  BY ReconcileMatches DEF CreateBegin
<1> QED
  BY <1>1, <1>2, FreeStep

\* add-client.sh gives no route to a locked owner's peer.
LEMMA AddClientStepEnforced ==
    ASSUME EnforcedInv, TypeInv', AddClientStep PROVE EnforcedInv'
<1> DEFINE d == txn.dev
<1>1. d \in Devices /\ store \in Stores
  BY DEF EnforcedInv, TypeInv, TypeOK, AddClientStep, Subjects, DeviceSteps
<1>2. /\ UNCHANGED <<users, policy, meta, nft, host, panel>>
      /\ pc = "addClient" /\ pc' \in {"idle", "rollbackRemove", "createMeta"}
      /\ pc' = "createMeta" => txn' = txn
  BY DEF AddClientStep, Release, Goto
<1>3. /\ \A e \in Devices \ {d} : store'.conf[e] = store.conf[e]
      /\ \A e \in Devices : HasConf(store, e) /\ store.conf[e] \in Routed(store')
                                => store.conf[e] \in Routed(store)
      /\ store'.conf[d] # store.conf[d] => ~HasConf(store, d)
      /\ Owner[d] \in policy =>
            /\ store'.conf[d] # store.conf[d] => store'.conf[d] \notin Routed(store')
            /\ pc' = "createMeta" => store'.conf[d] # store.conf[d]
  <2>1. PICK r \in IF Owner[d] \in policy THEN PrepareClient(store, d, InfraAddrs)
                   ELSE AddClient(store, d, InfraAddrs, host) :
           /\ store' = r.store
           /\ pc' = "createMeta" => r.ok
    BY DEF AddClientStep, Permitted, Release, Goto
  <2>2. CASE Owner[d] \in policy
    BY <1>1, <2>1, <2>2, PrepareClientChanges
  <2>3. CASE Owner[d] \notin policy
    BY <1>1, <2>1, <2>3, AddClientChanges
  <2> QED
    BY <2>2, <2>3
<1> HIDE DEF d
<1>4. ASSUME RoutesMatched PROVE RoutesMatched'
  BY <1>1, <1>2, <1>3, <1>4 DEF RoutesMatched, Held, On, HasConf, Routed
<1>5. CreatedOff'
  BY <1>1, <1>2, <1>3 DEF CreatedOff, On, Routed, d
<1>6. TransactionInv'
  BY <1>2, <1>5 DEF TransactionInv, ResumesCovered, OwnerCovered, UndoCovered,
                    DeletionCovered, DeletedGone
<1> QED
  BY <1>2, <1>4, <1>6, LockStep

\* The record appears while its peer is off, or its owner is not locked.
LEMMA CreateMetaEnforced ==
    ASSUME EnforcedInv, TypeInv', CreateMeta PROVE EnforcedInv'
<1>1. /\ UNCHANGED <<users, policy, store, nft, host, panel>>
      /\ pc = "createMeta" /\ pc' \in FreeSteps
      /\ txn.dev \in Devices
  BY DEF CreateMeta, Release, Goto, FreeSteps, EnforcedInv, TypeInv, Subjects, DeviceSteps
<1>2. \A e \in Devices \ {txn.dev} : meta'[e] = meta[e]
  BY <1>1 DEF CreateMeta, MetaNotSaved, EnforcedInv, TypeInv, TypeOK
<1>3. Owner[txn.dev] \in policy => ~On(txn.dev)
  BY <1>1 DEF EnforcedInv, TransactionInv, CreatedOff
<1>4. ASSUME RoutesMatched PROVE RoutesMatched'
  BY <1>1, <1>2, <1>3, <1>4 DEF RoutesMatched, Held, On, HasConf
<1> QED
  BY <1>1, <1>4, FreeStep

LEMMA CreateSyncEnforced ==
    ASSUME EnforcedInv, TypeInv', CreateSync PROVE EnforcedInv'
<1>1. /\ UNCHANGED <<policy, meta, store, host, panel>>
      /\ pc = "createSync" /\ pc' \in {"createResume", "rollbackRemove"}
  BY DEF CreateSync, Goto
<1>2. ASSUME RoutesMatched PROVE RoutesMatched'
  BY <1>1, <1>2, ReconcileMatches DEF CreateSync
<1>3. pc' = "createResume" => Covers(nft, policy, Devices)'
  BY <1>1, ReconcileMatches DEF CreateSync, Goto
<1>4. TransactionInv'
  BY <1>1, <1>3 DEF TransactionInv, ResumesCovered, OwnerCovered, UndoCovered,
                    DeletionCovered, DeletedGone, CreatedOff
<1> QED
  BY <1>1, <1>2, <1>4, LockStep

\* The resumed peer's address is in the set by now.
LEMMA CreateResumeEnforced ==
    ASSUME EnforcedInv, TypeInv', CreateResume PROVE EnforcedInv'
<1>1. /\ UNCHANGED <<policy, meta, nft, host, panel>>
      /\ pc = "createResume" /\ pc' \in FreeSteps
      /\ txn.dev \in Devices /\ store \in Stores
  BY DEF CreateResume, Goto, FreeSteps, EnforcedInv, TypeInv, TypeOK, Subjects, DeviceSteps
<1>2. store'.conf = store.conf
  BY <1>1, ResumeClientChanges DEF CreateResume, Permitted
<1>3. Covers(nft, policy, Devices)
  BY <1>1 DEF EnforcedInv, TransactionInv, ResumesCovered
<1>4. RoutesMatched'
  BY <1>1, <1>2, <1>3 DEF RoutesMatched, Covers, Held, HasConf
<1> QED
  BY <1>1, <1>4, FreeStep

LEMMA CreatePublishEnforced ==
    ASSUME EnforcedInv, TypeInv', CreatePublish PROVE EnforcedInv'
<1>1. /\ UNCHANGED <<policy, store, nft, host, panel>>
      /\ pc = "createPublish" /\ pc' \in FreeSteps
      /\ txn.dev \in Devices
  BY DEF CreatePublish, Release, Goto, FreeSteps, EnforcedInv, TypeInv, Subjects, DeviceSteps
<1>2. \A e \in Devices : meta'[e].present = meta[e].present /\ meta'[e].revoked = meta[e].revoked
  BY <1>1 DEF CreatePublish, MetaNotSaved, EnforcedInv, TypeInv, TypeOK, MetaRecords
<1>3. ASSUME RoutesMatched PROVE RoutesMatched'
  BY <1>1, <1>2, <1>3 DEF RoutesMatched, Held, On, HasConf
<1> QED
  BY <1>1, <1>3, FreeStep

\* A removal only takes a client's keys and routes away.
LEMMA RemovalMatches ==
    ASSUME store \in Stores, NEW d \in Devices, NEW r \in RemoveClient(store, d, host),
           store' = r.store, UNCHANGED <<policy, meta, nft>>
    PROVE  /\ RoutesMatched => RoutesMatched'
           /\ \A e \in Devices \ {d} : store'.conf[e] = store.conf[e]
           /\ r.ok => store'.conf[d] = NoPeer
BY RemoveClientChanges DEF RoutesMatched, Held, On, HasConf, Routed

LEMMA RollbackRemoveEnforced ==
    ASSUME EnforcedInv, TypeInv', RollbackRemove PROVE EnforcedInv'
<1>1. /\ UNCHANGED <<policy, meta, nft, host, panel>>
      /\ pc = "rollbackRemove" /\ pc' \in {"idle", "rollbackMeta"}
      /\ pc' = "rollbackMeta" => txn' = txn
      /\ txn.dev \in Devices /\ store \in Stores
  BY DEF RollbackRemove, Release, Goto, EnforcedInv, TypeInv, TypeOK, Subjects, DeviceSteps
<1>2. PICK r \in RemoveClient(store, txn.dev, host) :
         store' = r.store /\ (pc' = "rollbackMeta" => r.ok)
  BY DEF RollbackRemove, Permitted, Release, Goto
<1>3. RoutesMatched => RoutesMatched'
  BY <1>1, <1>2, RemovalMatches
<1>4. DeletedGone'
  BY <1>1, <1>2, RemovalMatches DEF DeletedGone, HasConf
<1>5. TransactionInv'
  BY <1>1, <1>4 DEF TransactionInv, ResumesCovered, OwnerCovered, UndoCovered,
                    DeletionCovered, CreatedOff
<1> QED
  BY <1>1, <1>3, <1>5, LockStep

\* The record put back has no keys.
LEMMA RollbackMetaEnforced ==
    ASSUME EnforcedInv, TypeInv', RollbackMeta PROVE EnforcedInv'
<1>1. /\ UNCHANGED <<policy, store, nft, host, panel>>
      /\ pc = "rollbackMeta" /\ pc' \in FreeSteps
      /\ txn.dev \in Devices
  BY DEF RollbackMeta, Release, Goto, FreeSteps, EnforcedInv, TypeInv, Subjects, DeviceSteps
<1>2. \A e \in Devices \ {txn.dev} : meta'[e] = meta[e]
  BY <1>1 DEF RollbackMeta, MetaNotSaved, EnforcedInv, TypeInv, TypeOK
<1>3. ~HasConf(store, txn.dev)
  BY <1>1 DEF EnforcedInv, TransactionInv, DeletedGone
<1>4. ASSUME RoutesMatched PROVE RoutesMatched'
  BY <1>1, <1>2, <1>3, <1>4 DEF RoutesMatched, Held, On, HasConf
<1> QED
  BY <1>1, <1>4, FreeStep

LEMMA RollbackSyncEnforced ==
    ASSUME EnforcedInv, TypeInv', RollbackSync PROVE EnforcedInv'
<1>1. /\ UNCHANGED <<policy, meta, store, host, panel>>
      /\ pc = "rollbackSync" /\ pc' \in FreeSteps
  BY DEF RollbackSync, Release, Goto, FreeSteps
<1>2. RoutesMatched => RoutesMatched'
  BY <1>1, ReconcileMatches DEF RollbackSync
<1> QED
  BY <1>1, <1>2, FreeStep

LEMMA CreateEnforced == EnforcedInv /\ TypeInv' /\ CreateSteps => EnforcedInv'
BY AddClientStepEnforced, CreateMetaEnforced, CreateSyncEnforced, CreateResumeEnforced,
   CreatePublishEnforced, RollbackRemoveEnforced, RollbackMetaEnforced, RollbackSyncEnforced
   DEF CreateSteps

-----------------------------------------------------------------------------
(* Deletion *)

\* Back from _delete_device: the lock is released, or delete_user goes on.
LEMMA DeleteEndsFree ==
    ASSUME NEW ok, DeleteEnds(ok) PROVE pc' \in {"idle", "nextDevice"} /\ panel' = panel
BY DEF DeleteEnds, Release, Goto

LEMMA DeletionFree == {"idle", "nextDevice"} \subseteq FreeSteps
BY DEF FreeSteps

\* What a deletion computes up front covers every other profile, and a device
\* that is already revoked has no keys.
LEMMA DeleteStartEnforced ==
    ASSUME EnforcedInv, TypeInv', pc # "idle" \/ panel = "serving",
           NEW d \in Devices, NEW locals \in Records,
           Deletable(d), DeleteStart(d, locals),
           UNCHANGED <<users, policy, meta, store, nft, host>>
    PROVE  EnforcedInv'
<1> DEFINE all  == IpsOf(SafeDevices(policy))
           rest == IpsOf(SafeDevices(policy) \ {d})
<1>1. /\ pc' \in {"removeClient", "deleteSync", "dropMeta"}
      /\ pc' # "removeClient" => meta[d].revoked
      /\ panel' = panel
      /\ txn'.dev = d /\ txn'.old = all /\ txn'.new = rest
  BY DEF DeleteStart, Goto, Records
<1>2. Covers(all, policy, Devices) /\ Covers(rest, policy, Devices \ {d})
  BY SafeIpsCover, IpsCover, SafeDevicesCover
<1> HIDE DEF all, rest
<1>3. DeletionCovered'
  BY <1>1, <1>2 DEF DeletionCovered, Covers, Held, HasConf
<1>4. DeletedGone'
  BY <1>1 DEF Deletable, DeletedGone, HasConf
<1>5. TransactionInv'
  BY <1>1, <1>3, <1>4 DEF TransactionInv, ResumesCovered, OwnerCovered, UndoCovered, CreatedOff
<1>6. RoutesMatched => RoutesMatched'
  BY DEF RoutesMatched, Held, HasConf, On
<1> QED
  BY <1>1, <1>5, <1>6, LockStep

LEMMA DeleteBeginEnforced ==
    ASSUME EnforcedInv, TypeInv', NEW d \in Devices, NEW confirmed \in BOOLEAN,
           DeleteBegin(d, confirmed)
    PROVE  EnforcedInv'
<1> DEFINE locals == [NoTxn EXCEPT !.kind = IF confirmed THEN "confirmed" ELSE "delete",
                                   !.user = Owner[d]]
<1>1. locals \in Records
  BY RecordsOfNoTxn DEF NoTxn, Records, Kinds
<1>2. /\ DeleteStart(d, locals) /\ Deletable(d) /\ panel = "serving"
      /\ UNCHANGED <<users, policy, meta, store, nft, host>>
  BY DEF DeleteBegin, Serving
<1> HIDE DEF locals
<1> QED
  BY <1>1, <1>2, DeleteStartEnforced

\* The other profiles, and the sets computed for them, are left alone.
LEMMA DeletionKeeps ==
    ASSUME DeletionCovered, NEW d \in Devices, d = txn.dev,
           pc \in {"removeClient", "markRevoked", "deleteSync", "dropMeta"},
           UNCHANGED policy, txn' = txn,
           \A e \in Devices \ {d} : store'.conf[e] = store.conf[e] /\ meta'[e] = meta[e]
    PROVE  DeletionCovered'
BY DEF DeletionCovered, Covers, Held, HasConf

LEMMA DeleteRemoveEnforced ==
    ASSUME EnforcedInv, TypeInv', DeleteRemove PROVE EnforcedInv'
<1>1. /\ UNCHANGED <<policy, meta, nft, host>> /\ panel' = panel
      /\ pc = "removeClient" /\ pc' \in {"idle", "nextDevice", "markRevoked"}
      /\ pc' = "markRevoked" => txn' = txn
      /\ txn.dev \in Devices /\ store \in Stores
  BY DEF DeleteRemove, DeleteEnds, Release, Goto, EnforcedInv, TypeInv, TypeOK, Subjects,
         DeviceSteps
<1>2. PICK r \in RemoveClient(store, txn.dev, host) :
         store' = r.store /\ (pc' = "markRevoked" => r.ok)
  BY DEF DeleteRemove, Permitted, DeleteEnds, Release, Goto
<1>3. /\ RoutesMatched => RoutesMatched'
      /\ \A e \in Devices \ {txn.dev} : store'.conf[e] = store.conf[e]
      /\ r.ok => store'.conf[txn.dev] = NoPeer
  BY <1>1, <1>2, RemovalMatches
<1>4. CASE pc' = "markRevoked"
  <2>1. DeletionCovered'
    BY <1>1, <1>3, <1>4, DeletionKeeps DEF EnforcedInv, TransactionInv
  <2>2. DeletedGone'
    BY <1>1, <1>2, <1>3, <1>4 DEF DeletedGone, HasConf
  <2>3. TransactionInv'
    BY <1>4, <2>1, <2>2 DEF TransactionInv, ResumesCovered, OwnerCovered, UndoCovered, CreatedOff
  <2> QED
    BY <1>1, <1>3, <2>3, LockStep
<1>5. CASE pc' # "markRevoked"
  BY <1>1, <1>3, <1>5, FreeStep, DeletionFree
<1> QED
  BY <1>4, <1>5

\* A step of a deletion that changes the record of the device only.
LEMMA DeletionRecordStep ==
    ASSUME EnforcedInv, TypeInv', NEW d \in Devices, d = txn.dev,
           pc \in {"markRevoked", "dropMeta"},
           UNCHANGED <<policy, store, nft, host, panel>>,
           \A e \in Devices \ {d} : meta'[e] = meta[e],
           \/ pc' \in {"idle", "nextDevice"}
           \/ pc' \in {"deleteSync", "dropMeta", "deleteUndo"} /\ txn' = txn
    PROVE  EnforcedInv'
<1>1. ~HasConf(store, d)
  BY DEF EnforcedInv, TransactionInv, DeletedGone
<1>2. ASSUME RoutesMatched PROVE RoutesMatched'
  BY <1>1, <1>2 DEF RoutesMatched, Held, HasConf, On
<1>3. CASE pc' \in {"idle", "nextDevice"}
  BY <1>2, <1>3, FreeStep, DeletionFree
<1>4. CASE pc' \in {"deleteSync", "dropMeta", "deleteUndo"} /\ txn' = txn
  <2>1. DeletionCovered'
    BY <1>4, DeletionKeeps DEF EnforcedInv, TransactionInv
  <2>2. DeletedGone'
    BY <1>1, <1>4 DEF DeletedGone, HasConf
  <2>3. TransactionInv'
    BY <1>4, <2>1, <2>2 DEF TransactionInv, ResumesCovered, OwnerCovered, UndoCovered, CreatedOff
  <2> QED
    BY <1>2, <2>3, LockStep
<1> QED
  BY <1>3, <1>4

LEMMA MarkRevokedEnforced ==
    ASSUME EnforcedInv, TypeInv', MarkRevoked PROVE EnforcedInv'
<1>1. /\ UNCHANGED <<policy, store, nft, host>> /\ panel' = panel
      /\ pc = "markRevoked"
      /\ \/ pc' \in {"idle", "nextDevice"}
         \/ pc' \in {"deleteSync", "dropMeta"} /\ txn' = txn
      /\ txn.dev \in Devices
  BY DEF MarkRevoked, DeleteEnds, Release, Goto, EnforcedInv, TypeInv, Subjects, DeviceSteps
<1>2. \A e \in Devices \ {txn.dev} : meta'[e] = meta[e]
  BY <1>1 DEF MarkRevoked, MetaNotSaved, EnforcedInv, TypeInv, TypeOK
<1> QED
  BY <1>1, <1>2, DeletionRecordStep

LEMMA DropMetaEnforced ==
    ASSUME EnforcedInv, TypeInv', DropMeta PROVE EnforcedInv'
<1>1. /\ UNCHANGED <<policy, store, nft, host>> /\ panel' = panel
      /\ pc = "dropMeta"
      /\ \/ pc' \in {"idle", "nextDevice"}
         \/ pc' = "deleteUndo" /\ txn' = txn
      /\ txn.dev \in Devices
  BY DEF DropMeta, DeleteEnds, Release, Goto, EnforcedInv, TypeInv, Subjects, DeviceSteps
<1>2. \A e \in Devices \ {txn.dev} : meta'[e] = meta[e]
  BY <1>1 DEF DropMeta, MetaNotSaved, EnforcedInv, TypeInv, TypeOK
<1> QED
  BY <1>1, <1>2, DeletionRecordStep

\* Whichever of the two sets the kernel ends up with, it matches every other
\* profile; the deleted one has no keys.
LEMMA DeletionMatches ==
    ASSUME EnforcedInv, pc \in {"deleteSync", "deleteUndo"}, txn.dev \in Devices,
           nft' \in {nft, txn.old, txn.new}, UNCHANGED <<policy, meta, store>>
    PROVE  RoutesMatched => RoutesMatched'
<1>1. ~HasConf(store, txn.dev) /\ DeletionCovered
  BY DEF EnforcedInv, TransactionInv, DeletedGone
<1>2. ASSUME RoutesMatched, nft' = nft PROVE RoutesMatched'
  BY <1>2 DEF RoutesMatched, Held, HasConf, On
<1>3. ASSUME nft' \in {txn.old, txn.new} PROVE RoutesMatched'
  BY <1>1, <1>3 DEF RoutesMatched, DeletionCovered, Covers, Held, HasConf, On
<1> QED
  BY <1>2, <1>3

LEMMA DeleteSyncEnforced ==
    ASSUME EnforcedInv, TypeInv', DeleteSync PROVE EnforcedInv'
<1>1. /\ UNCHANGED <<policy, meta, store, host>> /\ panel' = panel
      /\ pc = "deleteSync" /\ nft' \in {nft, txn.new}
      /\ \/ pc' \in {"idle", "nextDevice"}
         \/ pc' = "dropMeta" /\ txn' = txn
      /\ txn.dev \in Devices
  BY DEF DeleteSync, SyncFails, DeleteEnds, Release, Goto, EnforcedInv, TypeInv, Subjects,
         DeviceSteps
<1>2. RoutesMatched => RoutesMatched'
  BY <1>1, DeletionMatches
<1>3. CASE pc' = "dropMeta" /\ txn' = txn
  <2>1. DeletionCovered'
    BY <1>1, <1>3, DeletionKeeps DEF EnforcedInv, TransactionInv
  <2>2. DeletedGone'
    BY <1>1, <1>3 DEF DeletedGone, HasConf, EnforcedInv, TransactionInv
  <2>3. TransactionInv'
    BY <1>3, <2>1, <2>2 DEF TransactionInv, ResumesCovered, OwnerCovered, UndoCovered, CreatedOff
  <2> QED
    BY <1>1, <1>2, <2>3, LockStep
<1>4. CASE pc' \in {"idle", "nextDevice"}
  BY <1>1, <1>2, <1>4, FreeStep, DeletionFree
<1> QED
  BY <1>1, <1>3, <1>4

LEMMA DeleteUndoEnforced ==
    ASSUME EnforcedInv, TypeInv', DeleteUndo PROVE EnforcedInv'
<1>1. /\ UNCHANGED <<policy, meta, store, host>> /\ panel' = panel
      /\ pc = "deleteUndo" /\ nft' \in {nft, txn.old}
      /\ pc' \in {"idle", "nextDevice"}
      /\ txn.dev \in Devices
  BY DeleteEndsFree DEF DeleteUndo, SyncFails, EnforcedInv, TypeInv, Subjects, DeviceSteps
<1>2. RoutesMatched => RoutesMatched'
  BY <1>1, DeletionMatches
<1> QED
  BY <1>1, <1>2, FreeStep, DeletionFree

\* A step that leaves profiles, policy and firewall alone.
LEMMA QuietMatches ==
    ASSUME UNCHANGED <<policy, meta, store, nft>> PROVE RoutesMatched => RoutesMatched'
BY DEF RoutesMatched, Held, HasConf, On

LEMMA DeleteUserNextEnforced ==
    ASSUME EnforcedInv, TypeInv', DeleteUserNext PROVE EnforcedInv'
<1>1. UNCHANGED <<users, policy, meta, store, nft, host>> /\ pc = "nextDevice"
  BY DEF DeleteUserNext
<1>2. PICK d \in txn.todo :
         LET rest == [txn EXCEPT !.todo = @ \ {d}]
         IN  \/ Deletable(d) /\ DeleteStart(d, rest)
             \/ Goto("nextDevice", [rest EXCEPT !.bad = TRUE])
  BY DEF DeleteUserNext
<1> DEFINE rest == [txn EXCEPT !.todo = @ \ {d}]
<1>3. d \in Devices /\ rest \in Records
  BY DEF EnforcedInv, TypeInv, TypeOK, Records
<1> HIDE DEF rest
<1>4. CASE Deletable(d) /\ DeleteStart(d, rest)
  BY <1>1, <1>3, <1>4, DeleteStartEnforced
<1>5. CASE pc' = "nextDevice" /\ panel' = panel
  BY <1>1, <1>5, FreeStep, DeletionFree, QuietMatches
<1> QED
  BY <1>2, <1>4, <1>5 DEF Goto, rest

LEMMA DeleteUserEndEnforced ==
    ASSUME EnforcedInv, TypeInv', DeleteUserEnd PROVE EnforcedInv'
<1>1. /\ UNCHANGED <<policy, meta, store, nft, host>> /\ panel' = panel
      /\ pc = "nextDevice" /\ pc' = "idle"
  BY DEF DeleteUserEnd, Release, Goto
<1> QED
  BY <1>1, FreeStep, DeletionFree, QuietMatches

LEMMA DeleteUserBeginEnforced ==
    ASSUME EnforcedInv, TypeInv', NEW u \in Users, DeleteUserBegin(u) PROVE EnforcedInv'
<1>1. /\ UNCHANGED <<policy, meta, store, nft, host>> /\ panel' = panel
      /\ panel = "serving" /\ pc' \in {"idle", "nextDevice"}
  BY DEF DeleteUserBegin, Serving, Release, Goto
<1> QED
  BY <1>1, FreeStep, DeletionFree, QuietMatches

LEMMA DeleteEnforced == EnforcedInv /\ TypeInv' /\ DeleteSteps => EnforcedInv'
BY DeleteRemoveEnforced, MarkRevokedEnforced, DeleteSyncEnforced, DropMetaEnforced,
   DeleteUndoEnforced, DeleteUserNextEnforced, DeleteUserEndEnforced DEF DeleteSteps

-----------------------------------------------------------------------------
(* Pause and resume *)

LEMMA PauseBeginEnforced ==
    ASSUME EnforcedInv, TypeInv', pc # "idle" \/ panel = "serving",
           NEW u \in Users, NEW resume, NEW locals, PauseBegin(u, resume, locals)
    PROVE  EnforcedInv'
<1>1. UNCHANGED <<policy, meta, store, nft, host>>
  BY DEF PauseBegin
<1>2. /\ panel' = panel \/ pc' = "idle"
      /\ pc' \in FreeSteps
  BY DEF PauseBegin, Abort, Goto, FreeSteps
<1> QED
  BY <1>1, <1>2, FreeStep, QuietMatches

LEMMA PausePeerEnforced ==
    ASSUME EnforcedInv, TypeInv', PausePeer PROVE EnforcedInv'
<1>1. /\ UNCHANGED <<policy, meta, nft, host>> /\ panel' = panel
      /\ pc \in {"pauseNext", "repause"} /\ pc' = pc
      /\ store \in Stores /\ txn.todo \in SUBSET Devices
  BY DEF PausePeer, Goto, EnforcedInv, TypeInv, TypeOK, Records
<1>2. PICK d \in txn.todo : \E r \in PauseClient(store, d, host) : store' = r.store
  BY DEF PausePeer, Permitted
<1>3. store'.conf = store.conf /\ Routed(store') \subseteq Routed(store)
  BY <1>1, <1>2, PauseClientChanges
<1>4. RoutesMatched => RoutesMatched'
  BY <1>1, <1>3 DEF RoutesMatched, Held, HasConf, On, Routed
<1> QED
  BY <1>1, <1>4, FreeStep DEF FreeSteps

LEMMA PauseConfirmEnforced ==
    ASSUME EnforcedInv, TypeInv', PauseConfirm PROVE EnforcedInv'
<1>1. /\ UNCHANGED <<policy, meta, store, nft, host>> /\ pc = "pauseNext"
      /\ panel' = panel \/ pc' = "idle"
      /\ pc' \in FreeSteps
  BY DEF PauseConfirm, Abort, Release, Goto, FreeSteps
<1> QED
  BY <1>1, FreeStep, QuietMatches

LEMMA ResumeSyncEnforced ==
    ASSUME EnforcedInv, TypeInv', ResumeSync PROVE EnforcedInv'
<1>1. /\ UNCHANGED <<policy, meta, store, host, panel>>
      /\ pc = "resumeSync" /\ pc' \in {"resumeNext", "repause"}
  BY DEF ResumeSync, Goto
<1>2. RoutesMatched => RoutesMatched'
  BY <1>1, ReconcileMatches DEF ResumeSync
<1>3. pc' = "resumeNext" => Covers(nft, policy, Devices)'
  BY <1>1, ReconcileMatches DEF ResumeSync, Goto
<1>4. TransactionInv'
  BY <1>1, <1>3 DEF TransactionInv, ResumesCovered, OwnerCovered, UndoCovered,
                    DeletionCovered, DeletedGone, CreatedOff
<1> QED
  BY <1>1, <1>2, <1>4, LockStep

\* However many peers the loop has restored, the set still covers them all.
LEMMA ResumePeerEnforced ==
    ASSUME EnforcedInv, TypeInv', ResumePeer PROVE EnforcedInv'
<1>1. /\ UNCHANGED <<policy, meta, nft, host>> /\ panel' = panel
      /\ pc = "resumeNext" /\ pc' \in {"resumeNext", "repause"}
      /\ store \in Stores /\ txn.todo \in SUBSET Devices
  BY DEF ResumePeer, Goto, EnforcedInv, TypeInv, TypeOK, Records
<1>2. PICK d \in txn.todo : \E r \in ResumeClient(store, d, host) : store' = r.store
  BY DEF ResumePeer, Permitted
<1>3. store'.conf = store.conf
  BY <1>1, <1>2, ResumeClientChanges
<1>4. Covers(nft, policy, Devices)
  BY <1>1 DEF EnforcedInv, TransactionInv, ResumesCovered
<1>5. Covers(nft, policy, Devices)'
  BY <1>1, <1>3, <1>4 DEF Covers, Held, HasConf
<1>6. RoutesMatched'
  BY <1>5 DEF RoutesMatched, Covers
<1>7. TransactionInv'
  BY <1>1, <1>5 DEF TransactionInv, ResumesCovered, OwnerCovered, UndoCovered,
                    DeletionCovered, DeletedGone, CreatedOff
<1> QED
  BY <1>1, <1>6, <1>7, LockStep

LEMMA ResumeConfirmEnforced ==
    ASSUME EnforcedInv, TypeInv', ResumeConfirm PROVE EnforcedInv'
<1>1. /\ UNCHANGED <<policy, meta, store, nft, host>> /\ panel' = panel
      /\ pc = "resumeNext" /\ pc' \in FreeSteps
  BY DEF ResumeConfirm, Release, Goto, FreeSteps
<1> QED
  BY <1>1, FreeStep, QuietMatches

LEMMA RepauseEndEnforced ==
    ASSUME EnforcedInv, TypeInv', RepauseEnd PROVE EnforcedInv'
<1>1. /\ UNCHANGED <<policy, meta, store, nft, host>> /\ panel' = panel
      /\ pc = "repause" /\ pc' \in FreeSteps
  BY DEF RepauseEnd, Release, Goto, FreeSteps
<1> QED
  BY <1>1, FreeStep, QuietMatches

LEMMA PauseStepsEnforced == EnforcedInv /\ TypeInv' /\ PauseSteps => EnforcedInv'
BY PausePeerEnforced, PauseConfirmEnforced, ResumeSyncEnforced, ResumePeerEnforced,
   ResumeConfirmEnforced, RepauseEndEnforced DEF PauseSteps

-----------------------------------------------------------------------------
(* The Safe internet policy *)

\* A larger policy needs a larger set: what covers it covers the smaller one.
LEMMA CoversLess ==
    ASSUME NEW N, NEW small, NEW large, small \subseteq large, Covers(N, large, Devices)
    PROVE  Covers(N, small, Devices)
BY DEF Covers

LEMMA AccountBeginEnforced ==
    ASSUME EnforcedInv, TypeInv', NEW u \in Users, AccountBegin(u) PROVE EnforcedInv'
<1> DEFINE now    == IpsOf(SafeDevices(policy))
           wanted == IpsOf(SafeDevices(policy \cup {u}))
<1>1. /\ UNCHANGED <<policy, meta, store, host>> /\ panel' = panel /\ panel = "serving"
      /\ nft' \in {nft, wanted}
      /\ \/ pc' = "idle"
         \/ /\ pc' = "savePolicy" /\ nft' = wanted
            /\ txn' = [NoTxn EXCEPT !.kind = "account", !.user = u, !.old = now]
  BY DEF AccountBegin, SyncFails, Serving, Release, Goto
<1>2. Covers(wanted, policy \cup {u}, Devices) /\ Covers(now, policy, Devices)
  BY SafeIpsCover
<1>3. Covers(wanted, policy, Devices)
  BY <1>2, CoversLess
<1> HIDE DEF now, wanted
<1>4. RoutesMatched => RoutesMatched'
  <2>1. CASE nft' = nft
    BY <1>1, <2>1, QuietMatches
  <2>2. CASE nft' = wanted
    BY <1>1, <1>3, <2>2, KernelCovers
  <2> QED
    BY <1>1, <2>1, <2>2
<1>5. CASE pc' = "idle"
  BY <1>1, <1>4, <1>5, FreeStep, DeletionFree
<1>6. CASE pc' = "savePolicy" /\ nft' = wanted /\ txn'.user = u /\ txn'.old = now
  <2>1. OwnerCovered' /\ UndoCovered'
    BY <1>1, <1>2, <1>6 DEF OwnerCovered, UndoCovered, Covers, Held, HasConf
  <2>2. TransactionInv'
    BY <1>6, <2>1 DEF TransactionInv, ResumesCovered, DeletionCovered, DeletedGone, CreatedOff
  <2> QED
    BY <1>1, <1>4, <2>2, LockStep
<1> QED
  BY <1>1, <1>5, <1>6 DEF NoTxn

\* The set the next step may go back to still covers the policy.
LEMMA UndoKept ==
    ASSUME UndoCovered, pc \in {"savePolicy", "saveSafe"}, txn' = txn,
           UNCHANGED <<policy, store>>,
           \A d \in Devices : meta'[d].present = meta[d].present /\ meta'[d].revoked = meta[d].revoked
    PROVE  UndoCovered'
BY DEF UndoCovered, Covers, Held, HasConf

LEMMA SavePolicyEnforced ==
    ASSUME EnforcedInv, TypeInv', SavePolicy PROVE EnforcedInv'
<1>1. UNCHANGED <<meta, store, nft, host>> /\ panel' = panel /\ pc = "savePolicy"
  BY DEF SavePolicy, Release, Goto
<1>2. CASE policy' = policy \cup {txn.user} /\ pc' = "idle"
  <2>1. RoutesMatched'
    BY <1>1, <1>2 DEF EnforcedInv, TransactionInv, OwnerCovered, Covers, RoutesMatched, Held,
                      HasConf
  <2> QED
    BY <1>1, <1>2, <2>1, FreeStep, DeletionFree
<1>3. CASE policy' = policy /\ pc' = "undoPolicy" /\ txn' = txn
  <2>1. UndoCovered'
    BY <1>1, <1>3, UndoKept DEF EnforcedInv, TransactionInv
  <2>2. TransactionInv'
    BY <1>3, <2>1 DEF TransactionInv, ResumesCovered, OwnerCovered, DeletionCovered,
                      DeletedGone, CreatedOff
  <2> QED
    BY <1>1, <1>3, <2>2, LockStep, QuietMatches
<1> QED
  BY <1>2, <1>3 DEF SavePolicy, Release, Goto

LEMMA UndoEnforced ==
    ASSUME EnforcedInv, TypeInv', UndoPolicy \/ UndoSafe PROVE EnforcedInv'
<1>1. /\ UNCHANGED <<policy, meta, store, host>> /\ panel' = panel
      /\ pc \in {"undoPolicy", "undoSafe"} /\ pc' = "idle"
      /\ nft' \in {nft, txn.old}
  BY DEF UndoPolicy, UndoSafe, SyncFails, Release, Goto
<1>2. CASE nft' = nft
  BY <1>1, <1>2, FreeStep, DeletionFree, QuietMatches
<1>3. CASE nft' = txn.old
  <2>1. Covers(nft', policy, Devices)
    BY <1>1, <1>3 DEF EnforcedInv, TransactionInv, UndoCovered
  <2> QED
    BY <1>1, <2>1, FreeStep, DeletionFree, KernelCovers
<1> QED
  BY <1>1, <1>2, <1>3

\* Lifting one profile's lock never touches a profile its owner's policy covers.
LEMMA ProtectBeginEnforced ==
    ASSUME EnforcedInv, TypeInv', NEW d \in Devices, NEW enabled \in BOOLEAN,
           ProtectBegin(d, enabled)
    PROVE  EnforcedInv'
<1> DEFINE now    == SafeDevices(policy)
           wanted == IF enabled THEN now \cup {d} ELSE now \ {d}
<1>1. /\ UNCHANGED <<policy, meta, store, host>> /\ panel' = panel /\ panel = "serving"
      /\ nft' \in {nft, IpsOf(wanted)}
      /\ \/ pc' = "idle"
         \/ pc' = "saveSafe" /\ txn'.old = IpsOf(now)
      /\ ~enabled => Owner[d] \notin policy
  BY DEF ProtectBegin, SyncFails, Serving, Release, Goto, NoTxn
<1>2. Covers(IpsOf(now), policy, Devices)
  BY SafeIpsCover
<1>3. Covers(IpsOf(wanted), policy, Devices)
  BY <1>1, IpsCover, SafeDevicesCover
<1> HIDE DEF now, wanted
<1>4. RoutesMatched => RoutesMatched'
  <2>1. CASE nft' = nft
    BY <1>1, <2>1, QuietMatches
  <2>2. CASE nft' = IpsOf(wanted)
    BY <1>1, <1>3, <2>2, KernelCovers
  <2> QED
    BY <1>1, <2>1, <2>2
<1>5. CASE pc' = "idle"
  BY <1>1, <1>4, <1>5, FreeStep, DeletionFree
<1>6. CASE pc' = "saveSafe" /\ txn'.old = IpsOf(now)
  <2>1. UndoCovered'
    BY <1>1, <1>2, <1>6 DEF UndoCovered, Covers, Held, HasConf
  <2>2. TransactionInv'
    BY <1>6, <2>1 DEF TransactionInv, ResumesCovered, OwnerCovered, DeletionCovered,
                      DeletedGone, CreatedOff
  <2> QED
    BY <1>1, <1>4, <2>2, LockStep
<1> QED
  BY <1>1, <1>5, <1>6

LEMMA SaveSafeEnforced ==
    ASSUME EnforcedInv, TypeInv', SaveSafe PROVE EnforcedInv'
<1>1. /\ UNCHANGED <<policy, store, nft, host>> /\ panel' = panel /\ pc = "saveSafe"
      /\ txn.dev \in Devices
      /\ \/ pc' = "idle"
         \/ pc' = "undoSafe" /\ txn' = txn
  BY DEF SaveSafe, Release, Goto, EnforcedInv, TypeInv, Subjects, DeviceSteps
<1>2. \A d \in Devices : meta'[d].present = meta[d].present /\ meta'[d].revoked = meta[d].revoked
  <2> DEFINE on == txn.kind = "protect"
  <2>1. meta' \in {meta, [meta EXCEPT ![txn.dev].safe = on, ![txn.dev].locked = on]}
    BY DEF SaveSafe, MetaNotSaved
  <2> HIDE DEF on
  <2> QED
    BY <1>1, <2>1 DEF EnforcedInv, TypeInv, TypeOK, MetaRecords
<1>3. RoutesMatched => RoutesMatched'
  BY <1>1, <1>2 DEF RoutesMatched, Held, HasConf, On
<1>4. CASE pc' = "idle"
  BY <1>1, <1>3, <1>4, FreeStep, DeletionFree
<1>5. CASE pc' = "undoSafe" /\ txn' = txn
  <2>1. UndoCovered'
    BY <1>1, <1>2, <1>5, UndoKept DEF EnforcedInv, TransactionInv
  <2>2. TransactionInv'
    BY <1>5, <2>1 DEF TransactionInv, ResumesCovered, OwnerCovered, DeletionCovered,
                      DeletedGone, CreatedOff
  <2> QED
    BY <1>1, <1>3, <2>2, LockStep
<1> QED
  BY <1>1, <1>4, <1>5

LEMMA PolicyEnforced == EnforcedInv /\ TypeInv' /\ PolicySteps => EnforcedInv'
BY SavePolicyEnforced, UndoEnforced, SaveSafeEnforced DEF PolicySteps

LEMMA SetDeletionProtectedEnforced ==
    ASSUME EnforcedInv, TypeInv', NEW d \in Devices, NEW enabled \in BOOLEAN,
           SetDeletionProtected(d, enabled)
    PROVE  EnforcedInv'
<1>1. UNCHANGED <<policy, store, nft, host, panel, pc, txn>> /\ pc = "idle"
  BY DEF SetDeletionProtected, Serving
<1>2. \A e \in Devices : meta'[e].present = meta[e].present /\ meta'[e].revoked = meta[e].revoked
  BY DEF SetDeletionProtected, MetaNotSaved, EnforcedInv, TypeInv, TypeOK, MetaRecords
<1>3. RoutesMatched => RoutesMatched'
  BY <1>1, <1>2 DEF RoutesMatched, Held, HasConf, On
<1> QED
  BY <1>1, <1>3, FreeStep, DeletionFree DEF SetDeletionProtected, Serving

-----------------------------------------------------------------------------
(* Startup, boot and the requests without the lock *)

LEMMA MigrateEnforced ==
    ASSUME EnforcedInv, TypeInv', Migrate PROVE EnforcedInv'
<1>1. /\ UNCHANGED <<policy, store, nft, host>> /\ pc = "migrate"
      /\ panel' = panel \/ pc' = "idle"
      /\ pc' \in FreeSteps
  BY DEF Migrate, Abort, Goto, FreeSteps
<1>2. \A d \in Devices : meta'[d] \in {meta[d], NoMeta}
  BY DEF Migrate, MetaNotSaved
<1>3. RoutesMatched => RoutesMatched'
  BY <1>1, <1>2 DEF RoutesMatched, Held, HasConf, On, NoMeta
<1> QED
  BY <1>1, <1>3, FreeStep

LEMMA StartPauseEnforced ==
    ASSUME EnforcedInv, TypeInv', StartPause PROVE EnforcedInv'
<1>1. pc = "startPauses" /\ txn.queue \in SUBSET Users
  BY DEF StartPause, EnforcedInv, TypeInv, TypeOK, Records
<1>2. PICK u \in txn.queue :
         \/ PauseBegin(u, FALSE, [NoTxn EXCEPT !.queue = txn.queue \ {u}])
         \/ Abort /\ UNCHANGED <<users, policy, meta, store, nft, host>>
  BY DEF StartPause
<1>3. CASE PauseBegin(u, FALSE, [NoTxn EXCEPT !.queue = txn.queue \ {u}])
  BY <1>1, <1>3, PauseBeginEnforced
<1>4. CASE Abort /\ UNCHANGED <<users, policy, meta, store, nft, host>>
  BY <1>1, <1>4, FreeStep, DeletionFree, QuietMatches DEF Abort
<1> QED
  BY <1>2, <1>3, <1>4

LEMMA StartPausesEndEnforced ==
    ASSUME EnforcedInv, TypeInv', StartPausesEnd PROVE EnforcedInv'
BY FreeStep, QuietMatches DEF StartPausesEnd, Goto, FreeSteps

LEMMA StartDnsEnforced ==
    ASSUME EnforcedInv, TypeInv', StartDns PROVE EnforcedInv'
<1>1. /\ UNCHANGED <<policy, meta, store, host>> /\ pc = "startDns" /\ pc' = "idle"
  BY DEF StartDns, Abort
<1>2. RoutesMatched => RoutesMatched'
  BY <1>1, ReconcileMatches DEF StartDns
<1> QED
  BY <1>1, <1>2, FreeStep, DeletionFree

LEMMA StartEnforced == EnforcedInv /\ TypeInv' /\ StartSteps => EnforcedInv'
BY MigrateEnforced, StartPauseEnforced, StartPausesEndEnforced, StartDnsEnforced DEF StartSteps

\* The bootstrap covers the policy before wg-quick gives a peer its route.
LEMMA BootEnforced ==
    ASSUME EnforcedInv, TypeInv', Boot PROVE EnforcedInv'
<1>1. CASE PanelStart
  <2>1. RoutesMatched'
    BY <1>1, EnforcedBody, QuietMatches DEF PanelStart, EnforcedInv
  <2>2. Halted' /\ TransactionInv'
    BY <1>1, FreeStepsHold DEF PanelStart, Halted, FreeSteps
  <2> QED
    BY <2>1, <2>2 DEF EnforcedInv, AccountEnforced, RoutesMatched, Held, On
<1>2. CASE Bootstrap
  <2>1. UNCHANGED <<policy, meta, store, panel, pc>> /\ pc = "idle" /\ panel = "down"
    BY <1>2 DEF Bootstrap, EnforcedInv, Halted
  <2>2. Halted' /\ TransactionInv'
    BY <2>1, FreeStepsHold, DeletionFree DEF Halted
  <2>3. host' # "booting" => RoutesMatched'
    BY <1>2, <2>1, ReconcileMatches DEF Bootstrap
  <2> QED
    BY <2>2, <2>3 DEF EnforcedInv, AccountEnforced, RoutesMatched, Held, On
<1>3. CASE WgQuickUp
  <2>1. /\ UNCHANGED <<policy, meta, nft, panel, pc, txn>> /\ host = "dnsReady" /\ host' = "up"
        /\ store'.conf = store.conf /\ store'.active = store.active
        /\ store'.live = store.active
    BY <1>3 DEF WgQuickUp, EnforcedInv, TypeInv, TypeOK, Stores
  <2>2. RoutesMatched'
    BY <2>1, EnforcedBody DEF EnforcedInv, RoutesMatched, Held, HasConf, On
  <2>3. TransactionInv'
    <3>1. ResumesCovered' /\ OwnerCovered' /\ UndoCovered' /\ DeletionCovered'
      BY <2>1 DEF EnforcedInv, TransactionInv, ResumesCovered, OwnerCovered, UndoCovered,
                  DeletionCovered, Covers, Held, HasConf
    <3>2. DeletedGone' /\ CreatedOff'
      BY <2>1 DEF EnforcedInv, TransactionInv, DeletedGone, CreatedOff, HasConf, On
    <3> QED
      BY <3>1, <3>2 DEF TransactionInv
  <2>4. Halted'
    BY <2>1 DEF EnforcedInv, Halted
  <2> QED
    BY <2>2, <2>3, <2>4 DEF EnforcedInv, AccountEnforced, RoutesMatched, Held, On
<1>4. CASE PanelCrash
  <2>1. UNCHANGED <<policy, meta, store, nft, host>> /\ panel' = "down" /\ pc' = "idle"
    BY <1>4 DEF PanelCrash
  <2>2. Halted' /\ TransactionInv'
    BY <2>1, FreeStepsHold, DeletionFree DEF Halted
  <2>3. host' # "booting" => RoutesMatched'
    BY <2>1, EnforcedBody, QuietMatches DEF EnforcedInv
  <2> QED
    BY <2>2, <2>3 DEF EnforcedInv, AccountEnforced, RoutesMatched, Held, On
<1>5. CASE HostReboot
  <2>1. host' = "booting" /\ panel' = "down" /\ pc' = "idle"
    BY <1>5 DEF HostReboot
  <2>2. Halted' /\ TransactionInv'
    BY <2>1, FreeStepsHold, DeletionFree DEF Halted
  <2> QED
    BY <2>1, <2>2 DEF EnforcedInv, AccountEnforced
<1> QED
  BY <1>1, <1>2, <1>3, <1>4, <1>5 DEF Boot

\* A step of which neither the policy, nor a profile, nor the lock is part.
LEMMA UninvolvedEnforced ==
    ASSUME EnforcedInv, TypeInv', UNCHANGED <<policy, meta, store, nft, host, panel, pc, txn>>
    PROVE  EnforcedInv'
<1>1. AccountEnforced' /\ Halted'
  BY DEF EnforcedInv, AccountEnforced, Halted, HasConf, On
<1>2. ResumesCovered' /\ OwnerCovered' /\ UndoCovered' /\ DeletionCovered'
  BY DEF EnforcedInv, TransactionInv, ResumesCovered, OwnerCovered, UndoCovered,
         DeletionCovered, Covers, Held, HasConf
<1>3. DeletedGone' /\ CreatedOff'
  BY DEF EnforcedInv, TransactionInv, DeletedGone, CreatedOff, HasConf, On
<1> QED
  BY <1>1, <1>2, <1>3 DEF EnforcedInv, TransactionInv

LEMMA BeginEnforced ==
    ASSUME EnforcedInv, TypeInv', Begin PROVE EnforcedInv'
<1>1. CASE \E u \in Users : Pause(u) \/ Resume(u)
  BY <1>1, PauseBeginEnforced DEF Pause, Resume, Serving
<1> QED
  BY <1>1, CreateBeginEnforced, DeleteBeginEnforced, ProtectBeginEnforced,
     SetDeletionProtectedEnforced, DeleteUserBeginEnforced, AccountBeginEnforced DEF Begin

LEMMA EnforcedInit == Init => EnforcedInv
<1> SUFFICES ASSUME Init PROVE EnforcedInv
  OBVIOUS
<1>1. TypeInv
  BY InitType
<1>2. AccountEnforced
  BY DEF Init, AccountEnforced
<1>3. Halted /\ TransactionInv
  BY DEF Init, Halted, TransactionInv, ResumesCovered, OwnerCovered, UndoCovered,
         DeletionCovered, DeletedGone, CreatedOff
<1> QED
  BY <1>1, <1>2, <1>3 DEF EnforcedInv

LEMMA EnforcedNext == EnforcedInv /\ [Next]_vars => EnforcedInv'
<1> SUFFICES ASSUME EnforcedInv, [Next]_vars PROVE EnforcedInv'
  OBVIOUS
<1>1. TypeInv'
  BY NextType DEF EnforcedInv
<1>2. CASE LockedStep
  BY <1>1, <1>2, CreateEnforced, DeleteEnforced, PauseStepsEnforced, PolicyEnforced,
     StartEnforced DEF LockedStep
<1>3. CASE Begin
  BY <1>1, <1>3, BeginEnforced
<1>4. CASE Boot
  BY <1>1, <1>4, BootEnforced
<1>5. CASE Web
  BY <1>1, <1>5, UninvolvedEnforced DEF Web, Register, Approve, Reject
<1>6. CASE UNCHANGED vars
  BY <1>1, <1>6, UninvolvedEnforced DEF vars
<1> QED
  BY <1>2, <1>3, <1>4, <1>5, <1>6 DEF Next

\* No profile of an account locked to Safe internet has a route that nftables
\* does not match, in any behaviour: for any users, profiles, address pool and
\* device limits, and whichever helpers, writes, firewall changes, panels and
\* hosts fail (set_account_safe_internet, create_device, _delete_device,
\* set_user_paused, dns_bootstrap and the order of the systemd units).
THEOREM AlwaysEnforced == Spec => []AccountEnforced
<1>1. EnforcedInv => AccountEnforced
  BY DEF EnforcedInv
<1> QED
  BY <1>1, EnforcedInit, EnforcedNext, PTL DEF Spec
=============================================================================
