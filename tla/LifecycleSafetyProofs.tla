------------------------ MODULE LifecycleSafetyProofs ------------------------
(***************************************************************************)
(* The other safety properties of DeviceLifecycle, each from an inductive  *)
(* invariant of its own on top of EnforcedInv.  The invariants come in     *)
(* layers; a layer uses the ones before it:                                *)
(*   addresses       what the helpers leave in the store;                  *)
(*   infrastructure  the nftables set and the sets a step goes back to;    *)
(*   records         device_meta.json against the store;                   *)
(*   accounts        users.json against both;                              *)
(*   limits          how many profiles an account has;                     *)
(*   opt-ins         which address sets a profile marked safe is in;       *)
(*   envelopes       which accounts have enveloped profiles.               *)
(***************************************************************************)
EXTENDS DeviceLifecycleProofs, FiniteSetTheorems

USE OwnerAssumption

-----------------------------------------------------------------------------
(* Which steps follow which *)

Creating == {"addClient", "createMeta", "createSync", "createResume", "createPublish",
             "rollbackRemove", "rollbackMeta", "rollbackSync"}
Deleting == {"removeClient", "markRevoked", "deleteSync", "dropMeta", "deleteUndo"}
Pausing  == {"pauseNext", "resumeSync", "resumeNext", "repause"}
Policing == {"savePolicy", "undoPolicy", "saveSafe", "undoSafe"}
Starting == {"migrate", "startPauses", "startDns"}

LEMMA CreateFlow ==
    ASSUME CreateSteps
    PROVE  /\ pc \in Creating /\ pc' \in (Creating \ {"addClient"}) \cup {"idle"}
           /\ pc' # "idle" => txn' = txn
           /\ UNCHANGED <<users, policy, host, panel>>
BY DEF CreateSteps, AddClientStep, CreateMeta, CreateSync, CreateResume, CreatePublish,
       RollbackRemove, RollbackMeta, RollbackSync, Release, Goto, Creating

LEMMA DeleteFlow ==
    ASSUME DeleteSteps
    PROVE  /\ pc \in Deleting \cup {"nextDevice"}
           /\ pc' \in Deleting \cup {"nextDevice", "idle"}
           /\ pc' \in Deleting => (pc \in Deleting /\ txn' = txn) \/ DeleteUserNext
           /\ UNCHANGED <<policy, host, panel>>
<1>1. ASSUME NEW ok, DeleteEnds(ok) PROVE pc' \in {"nextDevice", "idle"} /\ panel' = panel
  BY <1>1 DEF DeleteEnds, Release, Goto
<1>2. CASE DeleteRemove
  BY <1>1, <1>2 DEF DeleteRemove, Goto, Deleting
<1>3. CASE MarkRevoked
  BY <1>1, <1>3 DEF MarkRevoked, Goto, Deleting
<1>4. CASE DeleteSync
  BY <1>1, <1>4 DEF DeleteSync, Goto, Deleting
<1>5. CASE DropMeta
  BY <1>1, <1>5 DEF DropMeta, Goto, Deleting
<1>6. CASE DeleteUndo
  BY <1>1, <1>6 DEF DeleteUndo, Goto, Deleting
<1>7. CASE DeleteUserNext
  BY <1>7 DEF DeleteUserNext, DeleteStart, Goto, Deleting
<1>8. CASE DeleteUserEnd
  BY <1>8 DEF DeleteUserEnd, Release, Goto, Deleting
<1> QED
  BY <1>2, <1>3, <1>4, <1>5, <1>6, <1>7, <1>8 DEF DeleteSteps

LEMMA PauseFlow ==
    ASSUME PauseSteps
    PROVE  /\ pc \in Pausing /\ pc' \in Pausing \cup {"idle", "startPauses"}
           /\ UNCHANGED <<policy, meta, host>>
<1>1. PauseSteps => pc \in Pausing /\ UNCHANGED <<policy, meta, host>>
  BY DEF PauseSteps, PausePeer, PauseConfirm, ResumeSync, ResumePeer, ResumeConfirm, RepauseEnd,
         Pausing
<1>2. PausePeer => pc' = pc
  BY DEF PausePeer, Goto
<1>3. ResumePeer => pc' \in Pausing
  BY DEF ResumePeer, Goto, Pausing
<1>4. PauseConfirm \/ ResumeSync \/ ResumeConfirm \/ RepauseEnd
         => pc' \in Pausing \cup {"idle", "startPauses"}
  BY DEF PauseConfirm, ResumeSync, ResumeConfirm, RepauseEnd, Abort, Release, Goto, Pausing
<1> QED
  BY <1>1, <1>2, <1>3, <1>4 DEF PauseSteps

LEMMA PolicyFlow ==
    ASSUME PolicySteps
    PROVE  /\ pc \in Policing /\ pc' \in {"undoPolicy", "undoSafe", "idle"}
           /\ pc' # "idle" => txn' = txn
           /\ UNCHANGED <<users, store, host, panel>>
BY DEF PolicySteps, SavePolicy, UndoPolicy, SaveSafe, UndoSafe, Release, Goto, Policing

LEMMA StartFlow ==
    ASSUME StartSteps
    PROVE  /\ pc \in Starting /\ pc' \in {"startPauses", "pauseNext", "startDns", "idle"}
           /\ UNCHANGED <<policy, store, host>>
<1>1. Migrate \/ StartPausesEnd \/ StartDns
         => /\ pc \in Starting /\ pc' \in {"startPauses", "startDns", "idle"}
            /\ UNCHANGED <<policy, store, host>>
  BY DEF Migrate, StartPausesEnd, StartDns, Abort, Goto, Starting
<1>2. StartPause => /\ pc \in Starting /\ pc' \in {"pauseNext", "idle"}
                    /\ UNCHANGED <<policy, store, host>>
  BY DEF StartPause, PauseBegin, Abort, Goto, Starting
<1> QED
  BY <1>1, <1>2 DEF StartSteps

LEMMA BeginFlow ==
    ASSUME Begin
    PROVE  /\ panel = "serving" /\ pc = "idle"
           /\ UNCHANGED <<policy, store, host>>
BY DEF Begin, Serving, CreateBegin, DeleteBegin, ProtectBegin, SetDeletionProtected,
       DeleteUserBegin, Pause, Resume, PauseBegin, AccountBegin

\* Requests without the lock, boots and crashes.
LEMMA OutsideFlow ==
    ASSUME Web \/ Boot \/ UNCHANGED vars
    PROVE  /\ UNCHANGED <<pc, txn>> \/ pc' \in {"idle", "migrate"}
           /\ UNCHANGED <<policy, meta>>
           /\ ~Web => UNCHANGED users
           /\ ~Boot => UNCHANGED <<store, nft, host, panel>>
           /\ \/ UNCHANGED store
              \/ \E live \in SUBSET store.active : store' = [store EXCEPT !.live = live]
BY DEF Web, Register, Approve, Reject, Boot, PanelStart, Bootstrap, WgQuickUp, PanelCrash,
       HostReboot, vars

LEMMA NextGroups ==
    [Next]_vars => \/ CreateSteps \/ DeleteSteps \/ PauseSteps \/ PolicySteps \/ StartSteps
                   \/ Begin \/ Web \/ Boot \/ UNCHANGED vars
BY DEF Next, LockedStep

-----------------------------------------------------------------------------
(* Addresses *)

\* The store after some run of a helper for the device d.
HelperRan(d) ==
    \/ \E r \in AddClient(store, d, InfraAddrs, host) \cup PrepareClient(store, d, InfraAddrs) :
          store' = r.store
    \/ \E r \in RemoveClient(store, d, host) : store' = r.store
    \/ \E r \in PauseClient(store, d, host) \cup ResumeClient(store, d, host) : store' = r.store

\* Only helpers, wg-quick and a reboot change the store.
LEMMA StoreSteps ==
    ASSUME TypeInv, [Next]_vars
    PROVE  \/ UNCHANGED store
           \/ \E d \in Devices : HelperRan(d)
           \/ \E live \in SUBSET store.active : store' = [store EXCEPT !.live = live]
<1> DEFINE Goal == \/ UNCHANGED store
                   \/ \E d \in Devices : HelperRan(d)
                   \/ \E live \in SUBSET store.active : store' = [store EXCEPT !.live = live]
<1>1. CASE CreateSteps
  <2>1. pc \in DeviceSteps => txn.dev \in Devices
    BY DEF TypeInv, Subjects
  <2>2. AddClientStep => HelperRan(txn.dev) /\ pc \in DeviceSteps
    BY DEF AddClientStep, HelperRan, Permitted, DeviceSteps
  <2>3. CreateResume => HelperRan(txn.dev) /\ pc \in DeviceSteps
    BY DEF CreateResume, HelperRan, Permitted, DeviceSteps
  <2>4. RollbackRemove => HelperRan(txn.dev) /\ pc \in DeviceSteps
    BY DEF RollbackRemove, HelperRan, Permitted, DeviceSteps
  <2>5. CreateMeta \/ CreateSync \/ CreatePublish \/ RollbackMeta \/ RollbackSync => UNCHANGED store
    BY DEF CreateMeta, CreateSync, CreatePublish, RollbackMeta, RollbackSync
  <2> QED
    BY <1>1, <2>1, <2>2, <2>3, <2>4, <2>5 DEF CreateSteps
<1>2. CASE DeleteSteps
  <2>1. DeleteRemove => HelperRan(txn.dev) /\ txn.dev \in Devices
    BY DEF DeleteRemove, HelperRan, Permitted, DeviceSteps, TypeInv, Subjects
  <2>2. MarkRevoked \/ DeleteSync \/ DropMeta \/ DeleteUndo \/ DeleteUserNext \/ DeleteUserEnd
           => UNCHANGED store
    BY DEF MarkRevoked, DeleteSync, DropMeta, DeleteUndo, DeleteUserNext, DeleteUserEnd
  <2> QED
    BY <1>2, <2>1, <2>2 DEF DeleteSteps
<1>3. CASE PauseSteps
  <2>1. txn.todo \subseteq Devices
    BY DEF TypeInv, TypeOK, Records
  <2>2. PausePeer \/ ResumePeer => \E d \in txn.todo : HelperRan(d)
    BY DEF PausePeer, ResumePeer, HelperRan, Permitted
  <2>3. PauseConfirm \/ ResumeSync \/ ResumeConfirm \/ RepauseEnd => UNCHANGED store
    BY DEF PauseConfirm, ResumeSync, ResumeConfirm, RepauseEnd
  <2> QED
    BY <1>3, <2>1, <2>2, <2>3 DEF PauseSteps
<1>4. CASE PolicySteps \/ StartSteps
  <2>1. PolicySteps => UNCHANGED store
    BY DEF PolicySteps, SavePolicy, UndoPolicy, SaveSafe, UndoSafe
  <2>2. StartSteps => UNCHANGED store
    BY DEF StartSteps, Migrate, StartPause, PauseBegin, StartPausesEnd, StartDns
  <2> QED
    BY <1>4, <2>1, <2>2
<1>5. CASE Begin
  BY <1>5 DEF Begin, CreateBegin, DeleteBegin, ProtectBegin, SetDeletionProtected,
              DeleteUserBegin, Pause, Resume, PauseBegin, AccountBegin
<1>6. CASE Web
  BY <1>6 DEF Web, Register, Approve, Reject
<1>7. CASE Boot
  BY <1>7 DEF Boot, PanelStart, Bootstrap, WgQuickUp, PanelCrash, HostReboot
<1>8. CASE UNCHANGED vars
  BY <1>8 DEF vars
<1> QED
  BY <1>1, <1>2, <1>3, <1>4, <1>5, <1>6, <1>7, <1>8 DEF Next, LockedStep

\* No step ever gives two settled peers one address.
AddressInv == TypeInv /\ Distinct(store, InfraAddrs)

LEMMA InitAddress == Init => AddressInv
<1> SUFFICES ASSUME Init PROVE Distinct(store, InfraAddrs)
  BY InitType DEF AddressInv
<1>1. Settled(store) = {} /\ \A d \in Devices : ~HasConf(store, d)
  BY DEF Init, EmptyStore, Settled, ConfPeers, Configured, HasConf
<1> QED
  BY <1>1 DEF Distinct

LEMMA NextAddress == AddressInv /\ [Next]_vars => AddressInv'
<1> SUFFICES ASSUME AddressInv, [Next]_vars PROVE Distinct(store', InfraAddrs)
  BY NextType DEF AddressInv
<1>1. TypeInv /\ store \in Stores /\ Distinct(store, InfraAddrs)
  BY DEF AddressInv, TypeInv, TypeOK
<1>2. CASE UNCHANGED store
  BY <1>1, <1>2
<1>3. ASSUME NEW d \in Devices, HelperRan(d) PROVE Distinct(store', InfraAddrs)
  <2>1. ASSUME NEW r \in AddClient(store, d, InfraAddrs, host) \cup PrepareClient(store, d, InfraAddrs),
               store' = r.store
        PROVE  Distinct(store', InfraAddrs)
    BY <1>1, <2>1, AddClientDistinct
  <2>2. ASSUME NEW r \in RemoveClient(store, d, host), store' = r.store
        PROVE  Distinct(store', InfraAddrs)
    BY <1>1, <2>2, RemoveClientDistinct
  <2>3. ASSUME NEW r \in PauseClient(store, d, host) \cup ResumeClient(store, d, host),
               store' = r.store
        PROVE  Distinct(store', InfraAddrs)
    BY <1>1, <2>3, SetClientStateDistinct
  <2> QED
    BY <1>3, <2>1, <2>2, <2>3 DEF HelperRan
<1>4. ASSUME NEW live, store' = [store EXCEPT !.live = live]
      PROVE  Distinct(store', InfraAddrs)
  <2>1. store'.conf = store.conf /\ store'.active = store.active
    BY <1>1, <1>4 DEF Stores
  <2> QED
    BY <1>1, <2>1 DEF Distinct, Settled, ConfPeers, Configured, HasConf
<1> QED
  BY <1>1, <1>2, <1>3, <1>4, StoreSteps

LEMMA AddressInvariant == Spec => []AddressInv
BY InitAddress, NextAddress, PTL DEF Spec

\* No two profiles, and no profile and leftover block, ever share an address,
\* whatever add-client.sh, remove-client.sh and set-client-state.sh leave
\* behind when they fail (add-client.sh:238-253).
THEOREM AddressesStayUnique == Spec => []AddressesUnique
<1>1. AddressInv => AddressesUnique
  BY DEF AddressInv, Distinct, Settled, AddressesUnique
<1> QED
  BY <1>1, AddressInvariant, PTL

-----------------------------------------------------------------------------
(* Infrastructure *)

\* While the host is up the infrastructure is matched, and so it is by the
\* sets a deletion or a policy change may put there.
Matched == host # "booting" => InfraAddrs \subseteq nft

Matching ==
    /\ pc \in Deleting => InfraAddrs \subseteq txn.old /\ InfraAddrs \subseteq txn.new
    /\ pc \in Policing => InfraAddrs \subseteq txn.old

\* A creation starts from a set that holds nothing stale.
Reconciled == pc = "addClient" => nft = IpsOf(SafeDevices(policy))

InfraInv == AddressInv /\ Halted /\ Matched /\ Matching /\ Reconciled

LEMMA IpsMatched == \A D : InfraAddrs \subseteq IpsOf(D)
BY DEF IpsOf

\* What a step may put into nftables.
LEMMA FirewallSteps ==
    ASSUME [Next]_vars
    PROVE  \/ nft' = nft /\ (host' = host \/ host = "dnsReady")
           \/ \E D : /\ nft' = IpsOf(D)
                     /\ "unprotect" \notin Maintenance => SafeDevices(policy) \subseteq D
           \/ pc = "deleteSync" /\ nft' = txn.new
           \/ pc \in {"deleteUndo", "undoPolicy", "undoSafe"} /\ nft' = txn.old
           \/ host' = "booting"
<1> DEFINE Quiet == nft' = nft /\ (host' = host \/ host = "dnsReady")
           Fresh == \E D : /\ nft' = IpsOf(D)
                           /\ "unprotect" \notin Maintenance => SafeDevices(policy) \subseteq D
<1>1. ReconcileSucceeds => Fresh
  BY DEF ReconcileSucceeds
<1>2. ReconcileFails => nft' = nft \/ Fresh
  BY DEF ReconcileFails, SyncFails
<1>3. CASE CreateSteps
  BY <1>1, <1>2, <1>3 DEF CreateSteps, AddClientStep, CreateMeta, CreateSync, CreateResume,
     CreatePublish, RollbackRemove, RollbackMeta, RollbackSync
<1>4. CASE DeleteSteps
  BY <1>4 DEF DeleteSteps, DeleteRemove, MarkRevoked, DeleteSync, DropMeta, DeleteUndo,
     DeleteUserNext, DeleteUserEnd, SyncFails
<1>5. CASE PauseSteps
  BY <1>1, <1>2, <1>5 DEF PauseSteps, PausePeer, PauseConfirm, ResumeSync, ResumePeer,
     ResumeConfirm, RepauseEnd
<1>6. CASE PolicySteps
  BY <1>6 DEF PolicySteps, SavePolicy, UndoPolicy, SaveSafe, UndoSafe, SyncFails
<1>7. CASE StartSteps
  BY <1>1, <1>2, <1>7 DEF StartSteps, Migrate, StartPause, PauseBegin, StartPausesEnd, StartDns
<1>8. CASE Begin
  <2>1. ASSUME NEW u \in Users, AccountBegin(u) PROVE Quiet \/ Fresh
    <3>1. SafeDevices(policy) \subseteq SafeDevices(policy \cup {u})
      BY DEF SafeDevices, Effective
    <3> QED
      BY <2>1, <3>1 DEF AccountBegin, SyncFails
  <2>2. ASSUME NEW d \in Devices, NEW enabled \in BOOLEAN, ProtectBegin(d, enabled)
        PROVE  Quiet \/ Fresh
    <3> DEFINE wanted == IF enabled THEN SafeDevices(policy) \cup {d} ELSE SafeDevices(policy) \ {d}
    <3>1. "unprotect" \notin Maintenance => SafeDevices(policy) \subseteq wanted
      BY <2>2 DEF ProtectBegin
    <3>2. nft' = nft \/ nft' = IpsOf(wanted)
      BY <2>2 DEF ProtectBegin, SyncFails
    <3> HIDE DEF wanted
    <3> QED
      BY <2>2, <3>1, <3>2 DEF ProtectBegin
  <2>3. ASSUME NEW d \in Devices, CreateBegin(d) PROVE Quiet \/ Fresh
    BY <1>1, <1>2, <2>3 DEF CreateBegin
  <2>4. ASSUME NEW u \in Users, DeleteUserBegin(u) \/ Pause(u) \/ Resume(u) PROVE Quiet
    BY <2>4 DEF DeleteUserBegin, Pause, Resume, PauseBegin
  <2>5. ASSUME NEW d \in Devices, NEW x, DeleteBegin(d, x) \/ SetDeletionProtected(d, x)
        PROVE  Quiet
    BY <2>5 DEF DeleteBegin, SetDeletionProtected
  <2> HIDE DEF Quiet, Fresh
  <2>6. Quiet \/ Fresh
    BY <1>8, <2>1, <2>2, <2>3, <2>4, <2>5 DEF Begin
  <2> QED
    BY <2>6 DEF Quiet, Fresh
<1>9. CASE Web \/ UNCHANGED vars
  BY <1>9 DEF Web, Register, Approve, Reject, vars
<1>10. CASE Boot
  BY <1>1, <1>2, <1>10 DEF Boot, PanelStart, Bootstrap, WgQuickUp, PanelCrash, HostReboot
<1> QED
  BY <1>3, <1>4, <1>5, <1>6, <1>7, <1>8, <1>9, <1>10, NextGroups

\* A deletion computes both sets when it starts; a policy change the old one.
LEMMA DeleteStartMatching ==
    ASSUME NEW d, NEW locals \in Records, DeleteStart(d, locals)
    PROVE  /\ pc' \in Deleting
           /\ InfraAddrs \subseteq txn'.old /\ InfraAddrs \subseteq txn'.new
BY IpsMatched DEF DeleteStart, Goto, Deleting, Records

LEMMA BeginMatching ==
    ASSUME TypeInv, Begin PROVE Matching' /\ Reconciled'
<1>1. pc = "idle" /\ UNCHANGED <<policy, store>>
  BY BeginFlow
<1>2. ASSUME NEW d \in Devices, CreateBegin(d) PROVE Matching' /\ Reconciled'
  <2>1. pc' \in {"idle", "addClient"} /\ UNCHANGED <<policy, store, meta>>
    BY <1>2 DEF CreateBegin, Release, Goto
  <2>2. pc' = "addClient" => nft' = IpsOf(SafeDevices(policy))
    BY <1>2 DEF CreateBegin, Release, Goto, ReconcileSucceeds
  <2>3. IpsOf(SafeDevices(policy))' = IpsOf(SafeDevices(policy))
    BY <2>1 DEF IpsOf, Configured, HasConf, SafeDevices, Effective
  <2> QED
    BY <2>1, <2>2, <2>3 DEF Matching, Reconciled, Deleting, Policing
<1>3. ASSUME NEW d \in Devices, NEW confirmed \in BOOLEAN, DeleteBegin(d, confirmed)
      PROVE  Matching' /\ Reconciled'
  <2> DEFINE locals == [NoTxn EXCEPT !.kind = IF confirmed THEN "confirmed" ELSE "delete",
                                     !.user = Owner[d]]
  <2>1. DeleteStart(d, locals)
    BY <1>3 DEF DeleteBegin
  <2>2. locals \in Records
    BY RecordsOfNoTxn DEF NoTxn, Records, Kinds
  <2> HIDE DEF locals
  <2> QED
    BY <2>1, <2>2, DeleteStartMatching DEF Matching, Reconciled, Deleting, Policing
<1>4. ASSUME NEW d \in Devices, NEW enabled \in BOOLEAN, ProtectBegin(d, enabled)
      PROVE  Matching' /\ Reconciled'
  <2> DEFINE now == IpsOf(SafeDevices(policy))
  <2>1. pc' \in {"idle", "saveSafe"} /\ (pc' = "saveSafe" => txn'.old = now)
    BY <1>4 DEF ProtectBegin, Release, Goto, NoTxn
  <2>2. InfraAddrs \subseteq now
    BY IpsMatched
  <2> HIDE DEF now
  <2> QED
    BY <2>1, <2>2 DEF Matching, Reconciled, Deleting, Policing
<1>5. ASSUME NEW d \in Devices, NEW enabled \in BOOLEAN, SetDeletionProtected(d, enabled)
      PROVE  Matching' /\ Reconciled'
  BY <1>1, <1>5 DEF SetDeletionProtected, Matching, Reconciled, Deleting, Policing
<1>6. ASSUME NEW u \in Users, AccountBegin(u) PROVE Matching' /\ Reconciled'
  <2> DEFINE now == IpsOf(SafeDevices(policy))
  <2>1. pc' \in {"idle", "savePolicy"} /\ (pc' = "savePolicy" => txn'.old = now)
    BY <1>6 DEF AccountBegin, Release, Goto, NoTxn
  <2>2. InfraAddrs \subseteq now
    BY IpsMatched
  <2> HIDE DEF now
  <2> QED
    BY <2>1, <2>2 DEF Matching, Reconciled, Deleting, Policing
<1>7. ASSUME NEW u \in Users, DeleteUserBegin(u) \/ Pause(u) \/ Resume(u)
      PROVE  Matching' /\ Reconciled'
  <2>1. pc' \in {"idle", "nextDevice", "resumeSync", "pauseNext"}
    BY <1>7 DEF DeleteUserBegin, Pause, Resume, PauseBegin, Abort, Release, Goto
  <2> QED
    BY <2>1 DEF Matching, Reconciled, Deleting, Policing
<1> QED
  BY <1>2, <1>3, <1>4, <1>5, <1>6, <1>7 DEF Begin

LEMMA NextMatching == InfraInv /\ [Next]_vars => Matching' /\ Reconciled'
<1> SUFFICES ASSUME InfraInv, [Next]_vars PROVE Matching' /\ Reconciled'
  OBVIOUS
<1>1. TypeInv /\ Matching /\ Reconciled
  BY DEF InfraInv, AddressInv
<1>2. CASE CreateSteps
  BY <1>2, CreateFlow DEF Matching, Reconciled, Creating, Deleting, Policing
<1>3. CASE DeleteSteps
  <2>1. pc' \in Deleting \cup {"nextDevice", "idle"}
    BY <1>3, DeleteFlow
  <2>2. CASE pc \in Deleting /\ pc' \in Deleting /\ txn' = txn
    BY <1>1, <2>2 DEF Matching, Reconciled, Deleting, Policing
  <2>3. CASE pc' \in Deleting /\ DeleteUserNext
    <3>1. PICK d \in txn.todo : DeleteStart(d, [txn EXCEPT !.todo = @ \ {d}])
      BY <2>3 DEF DeleteUserNext, Goto, Deleting
    <3>2. [txn EXCEPT !.todo = @ \ {d}] \in Records
      BY <1>1 DEF TypeInv, TypeOK, Records
    <3> QED
      BY <3>1, <3>2, DeleteStartMatching DEF Matching, Reconciled, Deleting, Policing
  <2>4. CASE pc' \in {"nextDevice", "idle"}
    BY <2>4 DEF Matching, Reconciled, Deleting, Policing
  <2> QED
    BY <1>3, <2>1, <2>2, <2>3, <2>4, DeleteFlow
<1>4. CASE PauseSteps
  BY <1>4, PauseFlow DEF Matching, Reconciled, Pausing, Deleting, Policing
<1>5. CASE PolicySteps
  BY <1>1, <1>5, PolicyFlow DEF Matching, Reconciled, Deleting, Policing
<1>6. CASE StartSteps
  BY <1>6, StartFlow DEF Matching, Reconciled, Deleting, Policing
<1>7. CASE Begin
  BY <1>1, <1>7, BeginMatching
<1>8. CASE Web \/ Boot \/ UNCHANGED vars
  <2>1. CASE pc' \in {"idle", "migrate"}
    BY <2>1 DEF Matching, Reconciled, Deleting, Policing
  <2>2. CASE UNCHANGED <<pc, txn>> /\ pc' \notin {"idle", "migrate"}
    <3>1. Matching'
      BY <1>1, <2>2 DEF Matching
    <3>2. host # "booting"
      BY <2>2 DEF InfraInv, Halted
    <3>3. UNCHANGED <<policy, meta, nft>> /\ store'.conf = store.conf
      <4>1. UNCHANGED <<policy, meta>> /\ store'.conf = store.conf
        BY <1>1, <1>8, OutsideFlow DEF TypeInv, TypeOK, Stores
      <4>2. UNCHANGED nft
        BY <1>8, <2>2, <3>2, OutsideFlow DEF Boot, PanelStart, Bootstrap, WgQuickUp, PanelCrash, HostReboot
      <4> QED
        BY <4>1, <4>2
    <3>4. IpsOf(SafeDevices(policy))' = IpsOf(SafeDevices(policy))
      BY <3>3 DEF IpsOf, Configured, HasConf, SafeDevices, Effective
    <3> QED
      BY <1>1, <2>2, <3>1, <3>3, <3>4 DEF Reconciled
  <2> QED
    BY <1>8, <2>1, <2>2, OutsideFlow
<1> QED
  BY <1>2, <1>3, <1>4, <1>5, <1>6, <1>7, <1>8, NextGroups

LEMMA InfraInit == Init => InfraInv
<1> SUFFICES ASSUME Init PROVE InfraInv
  OBVIOUS
<1>1. AddressInv /\ Halted
  BY InitAddress, EnforcedInit DEF EnforcedInv
<1> QED
  BY <1>1 DEF Init, InfraInv, Matched, Matching, Reconciled, Deleting, Policing

LEMMA InfraNext == EnforcedInv /\ InfraInv /\ [Next]_vars => InfraInv'
<1> SUFFICES ASSUME EnforcedInv, InfraInv, [Next]_vars PROVE InfraInv'
  OBVIOUS
<1>1. AddressInv' /\ Halted'
  BY NextAddress, EnforcedNext DEF InfraInv, EnforcedInv
<1>2. Matched'
  <2>1. /\ Matched /\ Matching /\ Halted
        /\ host = "dnsReady" => host # "booting"
    BY DEF InfraInv
  <2>2. CASE \E D : nft' = IpsOf(D)
    BY <2>2, IpsMatched DEF Matched
  <2>3. CASE \/ nft' = nft /\ (host' = host \/ host = "dnsReady")
             \/ pc = "deleteSync" /\ nft' = txn.new
             \/ pc \in {"deleteUndo", "undoPolicy", "undoSafe"} /\ nft' = txn.old
             \/ host' = "booting"
    BY <2>1, <2>3 DEF Matched, Matching, Deleting, Policing
  <2> QED
    BY <2>2, <2>3, FirewallSteps
<1> QED
  BY <1>1, <1>2, NextMatching DEF InfraInv

LEMMA InfraInvariant == Spec => [](EnforcedInv /\ InfraInv)
BY EnforcedInit, EnforcedNext, InfraInit, InfraNext, PTL DEF Spec

\* Infrastructure addresses stay matched by nftables and are handed to nobody,
\* through every rollback, failed firewall change, restart and boot
\* (_safe_dns_ips; add-client.sh:218-226).
THEOREM InfrastructureStaysKept == Spec => []InfrastructureKept
<1>1. InfraInv => InfrastructureKept
  BY DEF InfraInv, AddressInv, Distinct, Settled, Matched, InfrastructureKept
<1> QED
  BY <1>1, InfraInvariant, PTL

\* An address that a failed clean-up left matched is given to no ordinary
\* client: create_device reconciles before it calls add-client.sh
\* (wireguard.py:615-617).
THEOREM OrdinaryStaysUnmatched == Spec => OrdinaryNotMatched
<1>1. InfraInv /\ [Next]_vars
        => (pc = "addClient" /\ Owner[txn.dev] \notin policy =>
               \A p \in store'.live \ (store.live \cup store.active) : p.addr \notin nft)
  <2> SUFFICES ASSUME InfraInv, [Next]_vars, pc = "addClient", Owner[txn.dev] \notin policy,
                      NEW p \in store'.live \ (store.live \cup store.active)
               PROVE  p.addr \notin nft
    OBVIOUS
  <2>1. txn.dev \in Devices /\ store \in Stores /\ nft = IpsOf(SafeDevices(policy))
    BY DEF InfraInv, AddressInv, TypeInv, TypeOK, Subjects, DeviceSteps, Reconciled
  <2>2. AddClientStep
    <3>1. ~DeleteSteps /\ ~PauseSteps /\ ~PolicySteps /\ ~StartSteps /\ ~Begin
      BY DeleteFlow, PauseFlow, PolicyFlow, StartFlow, BeginFlow
         DEF Deleting, Pausing, Policing, Starting
    <3>2. ~Web /\ ~Boot /\ ~UNCHANGED vars
      <4>1. ~(\/ UNCHANGED store
              \/ \E live \in SUBSET store.active : store' = [store EXCEPT !.live = live])
        BY <2>1 DEF Stores
      <4> QED
        BY <4>1, OutsideFlow
    <3>3. CreateSteps
      BY <3>1, <3>2, NextGroups
    <3> QED
      BY <3>3 DEF CreateSteps, CreateMeta, CreateSync, CreateResume, CreatePublish,
                  RollbackRemove, RollbackMeta, RollbackSync
  <2>3. PICK r \in AddClient(store, txn.dev, InfraAddrs, host) : store' = r.store
    BY <2>2 DEF AddClientStep, Permitted
  <2>4. p.addr \notin InfraAddrs /\ \A q \in ConfPeers(store) : q.addr # p.addr
    BY <2>1, <2>3, AddClientAddress DEF Settled
  <2> QED
    BY <2>1, <2>4 DEF IpsOf, ConfPeers
<1> QED
  BY <1>1, InfraInvariant, PTL DEF Spec, OrdinaryNotMatched

-----------------------------------------------------------------------------
(* Records *)

\* A record that is absent says nothing.
Whole == \A d \in Devices : meta[d].present \/ meta[d] = NoMeta

\* A creation replaces nothing, or the tombstone of a locked account's
\* profile, and can put back exactly that; its own record carries no lock.
CreationRecord ==
    pc \in Creating =>
        /\ txn.kind = "create"
        /\ \/ txn.prev = NoMeta
           \/ txn.prev.present /\ txn.prev.revoked /\ Owner[txn.dev] \in policy
        /\ pc \in {"addClient", "createMeta"} => meta[txn.dev] = txn.prev
        /\ \/ meta[txn.dev] = txn.prev /\ pc \notin {"createSync", "createResume", "createPublish"}
           \/ /\ meta[txn.dev].present
              /\ ~meta[txn.dev].revoked /\ ~meta[txn.dev].locked /\ ~meta[txn.dev].safe

\* A deletion works on a recorded profile, a protected one if confirmed.
DeletionRecord ==
    /\ pc \in {"removeClient", "markRevoked"} => meta[txn.dev].present
    /\ pc = "removeClient" /\ meta[txn.dev].delprot => txn.kind = "confirmed"

SaveRecord ==
    pc = "saveSafe" => meta[txn.dev].present /\ txn.kind \in {"protect", "unprotect"}

\* What a resume restores is the account's and not revoked.
ResumeRecord ==
    pc \in {"resumeSync", "resumeNext"} => txn.todo \subseteq PausableDevices(txn.user)

LocalRecords == CreationRecord /\ DeletionRecord /\ SaveRecord /\ ResumeRecord

RecordInv == InfraInv /\ Whole /\ LocalRecords /\ RevokedStaysOff

\* Steps about which LocalRecords says nothing.
LooseRecordSteps == {"idle", "migrate", "startPauses", "startDns", "deleteSync", "dropMeta",
                     "deleteUndo", "nextDevice", "pauseNext", "repause", "savePolicy",
                     "undoPolicy", "undoSafe"}

LEMMA LooseRecord == pc' \in LooseRecordSteps => LocalRecords'
BY DEF LooseRecordSteps, LocalRecords, CreationRecord, DeletionRecord, SaveRecord, ResumeRecord,
       Creating

\* A record get_device shows once there is a configuration, and the writes
\* that make one.
Complete(m) == m.present /\ ~m.revoked /\ ~m.provisioning

Published(d) == d = txn.dev /\ (CreatePublish \/ (CreateMeta /\ Owner[d] \notin policy))

LEMMA MetaSteps ==
    ASSUME EnforcedInv, RecordInv, [Next]_vars, NEW d \in Devices
    PROVE  /\ meta'[d].present \/ meta'[d] = NoMeta
           /\ meta'[d].revoked => \/ meta[d].revoked
                                  \/ /\ pc \in {"markRevoked", "dropMeta", "rollbackMeta"}
                                     /\ ~HasConf(store, d)
           /\ Protected(d) => \/ meta'[d].locked \/ Owner[d] \in policy
                              \/ txn.kind = "unprotect"
           /\ meta'[d].safe /\ ~meta'[d].revoked
                 => \/ meta[d].safe /\ ~meta[d].revoked
                    \/ pc = "saveSafe" /\ d = txn.dev
           /\ Complete(meta'[d]) => Complete(meta[d]) \/ Published(d)
<1> DEFINE Goal == /\ meta'[d].present \/ meta'[d] = NoMeta
                   /\ meta'[d].revoked => \/ meta[d].revoked
                                          \/ /\ pc \in {"markRevoked", "dropMeta", "rollbackMeta"}
                                             /\ ~HasConf(store, d)
                   /\ Protected(d) => \/ meta'[d].locked \/ Owner[d] \in policy
                                      \/ txn.kind = "unprotect"
                   /\ meta'[d].safe /\ ~meta'[d].revoked
                         => \/ meta[d].safe /\ ~meta[d].revoked
                            \/ pc = "saveSafe" /\ d = txn.dev
                   /\ Complete(meta'[d]) => Complete(meta[d]) \/ Published(d)
<1>1. /\ TypeInv /\ meta \in [Devices -> MetaRecords] /\ Whole
      /\ pc \in DeviceSteps => txn.dev \in Devices
  BY DEF RecordInv, InfraInv, AddressInv, TypeInv, TypeOK, Subjects
<1>2. meta[d] \in MetaRecords /\ (meta[d].present \/ meta[d] = NoMeta)
  BY <1>1 DEF Whole
<1>3. ASSUME meta'[d] = meta[d] PROVE Goal
  BY <1>2, <1>3 DEF Protected, Complete
<1>4. ASSUME CreateMeta PROVE Goal
  <2>1. /\ txn.dev \in Devices /\ meta[txn.dev] = txn.prev
        /\ txn.prev = NoMeta \/ Owner[txn.dev] \in policy
    BY <1>1, <1>4 DEF CreateMeta, DeviceSteps, RecordInv, LocalRecords, CreationRecord, Creating
  <2>2. \/ meta'[d] = meta[d]
        \/ /\ d = txn.dev
           /\ meta'[d] = IF Owner[d] \in policy THEN Incomplete ELSE NewMeta
    BY <1>1, <1>4, <2>1 DEF CreateMeta, MetaNotSaved
  <2>3. /\ \A m \in {Incomplete, NewMeta} : m.present /\ ~m.revoked /\ ~m.safe
        /\ Incomplete.provisioning
    BY DEF Incomplete, NewMeta, NoMeta
  <2>4. ~NoMeta.locked
    BY DEF NoMeta
  <2> QED
    BY <1>3, <1>4, <2>1, <2>2, <2>3, <2>4 DEF Protected, Complete, Published
<1>5. ASSUME CreatePublish PROVE Goal
  <2>1. txn.dev \in Devices /\ meta[txn.dev].present
    BY <1>1, <1>5 DEF CreatePublish, DeviceSteps, RecordInv, LocalRecords, CreationRecord, Creating
  <2>2. meta'[d] = meta[d] \/ (d = txn.dev /\ meta'[d] = [meta[d] EXCEPT !.provisioning = FALSE])
    BY <1>1, <1>5, <2>1 DEF CreatePublish, MetaNotSaved
  <2> QED
    BY <1>2, <1>3, <1>5, <2>1, <2>2 DEF MetaRecords, Protected, Published
<1>6. ASSUME RollbackMeta PROVE Goal
  <2>1. /\ txn.dev \in Devices /\ ~HasConf(store, txn.dev)
        /\ \/ txn.prev = NoMeta
           \/ txn.prev.present /\ txn.prev.revoked /\ Owner[txn.dev] \in policy
        /\ meta[txn.dev] = txn.prev \/ ~meta[txn.dev].locked
        /\ pc = "rollbackMeta"
    BY <1>1, <1>6 DEF RollbackMeta, DeviceSteps, RecordInv, LocalRecords, CreationRecord, Creating,
                      EnforcedInv, TransactionInv, DeletedGone
  <2>2. meta'[d] = meta[d] \/ (d = txn.dev /\ meta'[d] = txn.prev)
    BY <1>1, <1>6, <2>1 DEF RollbackMeta, MetaNotSaved
  <2>3. ~NoMeta.safe /\ ~NoMeta.present
    BY DEF NoMeta
  <2> QED
    BY <1>2, <1>3, <2>1, <2>2, <2>3 DEF Protected, Complete
<1>7. ASSUME MarkRevoked PROVE Goal
  <2>1. /\ txn.dev \in Devices /\ ~HasConf(store, txn.dev) /\ meta[txn.dev].present
        /\ pc = "markRevoked"
    BY <1>1, <1>7 DEF MarkRevoked, DeviceSteps, RecordInv, LocalRecords, DeletionRecord,
                      EnforcedInv, TransactionInv, DeletedGone
  <2>2. meta'[d] = meta[d] \/ (d = txn.dev /\ meta'[d] = [meta[d] EXCEPT !.revoked = TRUE])
    BY <1>1, <1>7, <2>1 DEF MarkRevoked, MetaNotSaved
  <2> QED
    BY <1>2, <1>3, <2>1, <2>2 DEF MetaRecords, Protected, Complete
<1>8. ASSUME DropMeta PROVE Goal
  <2>1. txn.dev \in Devices /\ ~HasConf(store, txn.dev) /\ pc = "dropMeta"
    BY <1>1, <1>8 DEF DropMeta, DeviceSteps, EnforcedInv, TransactionInv, DeletedGone
  <2>2. \/ meta'[d] = meta[d]
        \/ d = txn.dev /\ meta'[d] = IF meta[d].locked THEN Tombstone ELSE NoMeta
    BY <1>1, <1>8, <2>1 DEF DropMeta, MetaNotSaved
  <2>3. Tombstone.present /\ Tombstone.locked /\ Tombstone.revoked /\ ~NoMeta.safe
        /\ ~NoMeta.present
    BY DEF Tombstone, NoMeta
  <2> QED
    BY <1>2, <1>3, <2>1, <2>2, <2>3 DEF Protected, Complete
<1>9. ASSUME SaveSafe PROVE Goal
  <2>1. /\ txn.dev \in Devices /\ meta[txn.dev].present /\ txn.kind \in {"protect", "unprotect"}
        /\ pc = "saveSafe"
    BY <1>1, <1>9 DEF SaveSafe, DeviceSteps, RecordInv, LocalRecords, SaveRecord
  <2> DEFINE on == txn.kind = "protect"
  <2>2. \/ meta'[d] = meta[d]
        \/ d = txn.dev /\ meta'[d] = [meta[d] EXCEPT !.safe = on, !.locked = on]
    BY <1>1, <1>9, <2>1, ZenonT(40) DEF SaveSafe, MetaNotSaved
  <2>3. on \/ txn.kind = "unprotect"
    BY <2>1
  <2>4. on \in BOOLEAN
    OBVIOUS
  <2> HIDE DEF on
  <2> QED
    BY <1>2, <1>3, <2>1, <2>2, <2>3, <2>4 DEF MetaRecords, Protected, Complete
<1>10. ASSUME NEW e \in Devices, NEW x \in BOOLEAN, SetDeletionProtected(e, x) PROVE Goal
  <2>1. meta[e].present
    BY <1>10 DEF SetDeletionProtected, Visible, Listed
  <2>2. meta'[d] = meta[d] \/ (d = e /\ meta'[d] = [meta[d] EXCEPT !.delprot = x])
    BY <1>1, <1>10 DEF SetDeletionProtected, MetaNotSaved
  <2> QED
    BY <1>2, <1>3, <2>1, <2>2 DEF MetaRecords, Protected, Complete
<1>11. ASSUME Migrate PROVE Goal
  <2>1. meta'[d] = meta[d] \/ (d \in Stale /\ meta'[d] = NoMeta)
    BY <1>1, <1>11 DEF Migrate, MetaNotSaved
  <2>2. ~NoMeta.revoked /\ ~NoMeta.safe /\ ~NoMeta.present
    BY DEF NoMeta
  <2> QED
    BY <1>3, <2>1, <2>2 DEF Stale, Protected, Complete
<1> HIDE DEF Goal
<1>12. ASSUME CreateSteps PROVE Goal
  BY <1>3, <1>4, <1>5, <1>6, <1>12
     DEF CreateSteps, AddClientStep, CreateSync, CreateResume, RollbackRemove, RollbackSync
<1>13. ASSUME DeleteSteps PROVE Goal
  BY <1>3, <1>7, <1>8, <1>13
     DEF DeleteSteps, DeleteRemove, DeleteSync, DeleteUndo, DeleteUserNext, DeleteUserEnd
<1>14. ASSUME PauseSteps PROVE Goal
  BY <1>3, <1>14, PauseFlow
<1>15. ASSUME PolicySteps PROVE Goal
  BY <1>3, <1>9, <1>15 DEF PolicySteps, SavePolicy, UndoPolicy, UndoSafe
<1>16. ASSUME StartSteps PROVE Goal
  BY <1>3, <1>11, <1>16 DEF StartSteps, StartPause, PauseBegin, StartPausesEnd, StartDns
<1>17. ASSUME Begin PROVE Goal
  BY <1>3, <1>10, <1>17 DEF Begin, CreateBegin, DeleteBegin, ProtectBegin, DeleteUserBegin, Pause,
                            Resume, PauseBegin, AccountBegin
<1>18. ASSUME Web \/ Boot \/ UNCHANGED vars PROVE Goal
  BY <1>3, <1>18, OutsideFlow
<1>19. Goal
  BY <1>12, <1>13, <1>14, <1>15, <1>16, <1>17, <1>18, NextGroups
<1> QED
  BY <1>19 DEF Goal

\* What a deletion starts with.
LEMMA DeleteStartRecord ==
    ASSUME NEW d \in Devices, NEW locals \in Records, DeleteStart(d, locals), Deletable(d),
           meta[d].delprot => locals.kind = "confirmed", UNCHANGED meta
    PROVE  LocalRecords'
<1> DEFINE next == [locals EXCEPT !.dev = d, !.old = IpsOf(SafeDevices(policy)),
                                  !.new = IpsOf(SafeDevices(policy) \ {d})]
<1>1. next.dev = d /\ next.kind = locals.kind
  BY DEF Records
<1>2. txn' = next /\ pc' \in {"removeClient", "deleteSync", "dropMeta"}
  BY DEF DeleteStart, Goto
<1>3. pc' = "removeClient" => ~meta[d].revoked
  BY DEF DeleteStart, Goto
<1> HIDE DEF next
<1>4. pc' = "removeClient" => meta[d].present
  BY <1>3 DEF Deletable, Visible, Listed
<1>5. DeletionRecord'
  BY <1>1, <1>2, <1>4 DEF DeletionRecord
<1> QED
  BY <1>2, <1>5 DEF LocalRecords, CreationRecord, SaveRecord, ResumeRecord, Creating

LEMMA CreateRecord ==
    ASSUME RecordInv, CreateSteps PROVE LocalRecords'
<1>1. /\ pc \in Creating /\ pc' \in (Creating \ {"addClient"}) \cup {"idle"}
      /\ pc' # "idle" => txn' = txn
      /\ UNCHANGED policy
  BY CreateFlow
<1>2. CASE pc' = "idle"
  BY <1>2, LooseRecord DEF LooseRecordSteps
<1>3. CASE pc' # "idle"
  <2>1. CreationRecord /\ txn.dev \in Devices /\ meta \in [Devices -> MetaRecords]
    BY <1>1 DEF RecordInv, LocalRecords, InfraInv, AddressInv, TypeInv, TypeOK, Subjects,
                Creating, DeviceSteps
  <2>2. /\ txn.kind = "create"
        /\ \/ txn.prev = NoMeta
           \/ txn.prev.present /\ txn.prev.revoked /\ Owner[txn.dev] \in policy
    BY <1>1, <2>1 DEF CreationRecord
  <2>3. /\ pc' = "createMeta" => meta'[txn.dev] = txn.prev
        /\ \/ /\ meta'[txn.dev] = txn.prev
              /\ pc' \notin {"createSync", "createResume", "createPublish"}
           \/ /\ meta'[txn.dev].present
              /\ ~meta'[txn.dev].revoked /\ ~meta'[txn.dev].locked /\ ~meta'[txn.dev].safe
    <3>1. CASE AddClientStep
      BY <2>1, <3>1 DEF AddClientStep, CreationRecord, Creating, Release, Goto
    <3>2. CASE CreateMeta
      <4>1. meta[txn.dev] = txn.prev
        BY <2>1, <3>2 DEF CreateMeta, CreationRecord, Creating
      <4>2. \/ meta' = meta /\ pc' \in {"rollbackRemove", "idle"}
            \/ meta'[txn.dev] \in {Incomplete, NewMeta} /\ pc' # "createMeta"
        BY <2>1, <3>2 DEF CreateMeta, MetaNotSaved, Release, Goto
      <4>3. \A m \in {Incomplete, NewMeta} : m.present /\ ~m.revoked /\ ~m.locked /\ ~m.safe
        BY DEF Incomplete, NewMeta, NoMeta
      <4> QED
        BY <4>1, <4>2, <4>3
    <3>3. CASE CreateSync \/ CreateResume
      BY <2>1, <3>3 DEF CreateSync, CreateResume, CreationRecord, Creating, Goto
    <3>4. CASE CreatePublish
      <4>1. /\ meta[txn.dev].present /\ ~meta[txn.dev].revoked
            /\ ~meta[txn.dev].locked /\ ~meta[txn.dev].safe
        BY <2>1, <3>4 DEF CreatePublish, CreationRecord, Creating
      <4>2. /\ meta'[txn.dev] \in {meta[txn.dev], [meta[txn.dev] EXCEPT !.provisioning = FALSE]}
            /\ pc' \in {"rollbackRemove", "idle"}
        BY <2>1, <3>4 DEF CreatePublish, MetaNotSaved, Release, Goto
      <4>3. meta[txn.dev] \in MetaRecords
        BY <2>1
      <4> QED
        BY <4>1, <4>2, <4>3 DEF MetaRecords
    <3>5. CASE RollbackRemove
      BY <2>1, <3>5 DEF RollbackRemove, CreationRecord, Creating, Release, Goto
    <3>6. CASE RollbackMeta
      BY <1>3, <2>1, <3>6 DEF RollbackMeta, CreationRecord, Creating, Release, Goto
    <3>7. CASE RollbackSync
      BY <1>3, <3>7 DEF RollbackSync, Release, Goto
    <3> QED
      BY <3>1, <3>2, <3>3, <3>4, <3>5, <3>6, <3>7 DEF CreateSteps
  <2>4. txn' = txn /\ pc' \in Creating \ {"addClient"}
    BY <1>1, <1>3
  <2>5. CreationRecord'
    BY <1>1, <2>2, <2>3, <2>4 DEF CreationRecord
  <2> QED
    BY <2>4, <2>5 DEF LocalRecords, DeletionRecord, SaveRecord, ResumeRecord, Creating
<1> QED
  BY <1>2, <1>3

LEMMA DeleteRecord ==
    ASSUME RecordInv, DeleteSteps PROVE LocalRecords'
<1>1. CASE pc' \in LooseRecordSteps
  BY <1>1, LooseRecord
<1>2. CASE DeleteUserNext /\ pc' # "nextDevice"
  <2>1. PICK d \in txn.todo :
           /\ Deletable(d) /\ MayDelete(d, FALSE)
           /\ DeleteStart(d, [txn EXCEPT !.todo = @ \ {d}])
    BY <1>2 DEF DeleteUserNext, Goto
  <2> DEFINE rest == [txn EXCEPT !.todo = @ \ {d}]
  <2>2. rest \in Records /\ d \in Devices
    BY DEF RecordInv, InfraInv, AddressInv, TypeInv, TypeOK, Records
  <2> HIDE DEF rest
  <2>3. ~meta[d].delprot /\ UNCHANGED meta
    BY <1>2, <2>1 DEF MayDelete, DeleteUserNext
  <2> QED
    BY <2>1, <2>2, <2>3, DeleteStartRecord DEF rest
<1>3. CASE DeleteRemove /\ pc' \notin LooseRecordSteps
  <2>1. pc = "removeClient" /\ pc' = "markRevoked" /\ txn' = txn /\ UNCHANGED meta
    BY <1>3 DEF DeleteRemove, DeleteEnds, Release, Goto, LooseRecordSteps
  <2> QED
    BY <2>1 DEF RecordInv, LocalRecords, DeletionRecord, CreationRecord, SaveRecord, ResumeRecord,
                Creating
<1>4. MarkRevoked \/ DeleteSync \/ DropMeta \/ DeleteUndo \/ DeleteUserEnd
         => pc' \in LooseRecordSteps
  BY DEF MarkRevoked, DeleteSync, DropMeta, DeleteUndo, DeleteUserEnd, DeleteEnds, Release, Goto,
         LooseRecordSteps
<1> QED
  BY <1>1, <1>2, <1>3, <1>4 DEF DeleteSteps, LooseRecordSteps

\* A pause or resume starts with the account's profiles that are on record.
LEMMA PauseBeginRecord ==
    ASSUME NEW u \in Users, NEW resume, NEW locals \in Records, PauseBegin(u, resume, locals)
    PROVE  LocalRecords'
<1> DEFINE next(kind) == [locals EXCEPT !.kind = kind, !.user = u, !.todo = PausableDevices(u)]
<1>1. \A kind : next(kind).user = u /\ next(kind).todo = PausableDevices(u)
  BY DEF Records
<1>2. \/ pc' = "idle"
      \/ pc' \in {"resumeSync", "pauseNext"} /\ \E kind : txn' = next(kind)
  BY DEF PauseBegin, Abort, Goto
<1>3. UNCHANGED meta
  BY DEF PauseBegin
<1> HIDE DEF next
<1>4. PausableDevices(u)' = PausableDevices(u)
  BY <1>3 DEF PausableDevices
<1>5. CASE pc' = "idle"
  BY <1>5, LooseRecord DEF LooseRecordSteps
<1>6. CASE pc' \in {"resumeSync", "pauseNext"} /\ \E kind : txn' = next(kind)
  <2>1. ResumeRecord'
    BY <1>1, <1>3, <1>6 DEF ResumeRecord, PausableDevices
  <2> QED
    BY <1>6, <2>1 DEF LocalRecords, CreationRecord, DeletionRecord, SaveRecord, Creating
<1> QED
  BY <1>2, <1>5, <1>6

LEMMA PauseRecord ==
    ASSUME RecordInv, PauseSteps PROVE LocalRecords'
<1>1. txn \in Records /\ UNCHANGED meta
  BY PauseFlow DEF RecordInv, InfraInv, AddressInv, TypeInv, TypeOK
<1>2. CASE pc' \in LooseRecordSteps
  BY <1>2, LooseRecord
<1>3. CASE pc' \notin LooseRecordSteps
  <2>1. pc' \in {"resumeSync", "resumeNext"}
    BY <1>3, PauseFlow DEF Pausing, LooseRecordSteps
  <2>2. /\ pc \in {"resumeSync", "resumeNext"}
        /\ txn'.user = txn.user /\ txn'.todo \subseteq txn.todo
    <3>1. ResumeSync \/ ResumePeer
      BY <2>1 DEF PauseSteps, PausePeer, PauseConfirm, ResumeConfirm, RepauseEnd, Abort, Release,
                  Goto
    <3>2. CASE ResumeSync
      BY <2>1, <3>2 DEF ResumeSync, Goto
    <3>3. CASE ResumePeer
      <4>1. PICK d \in txn.todo : txn' = [txn EXCEPT !.todo = @ \ {d}]
        BY <2>1, <3>3 DEF ResumePeer, Goto
      <4> QED
        BY <1>1, <3>3, <4>1 DEF Records, ResumePeer
    <3> QED
      BY <3>1, <3>2, <3>3
  <2>3. ResumeRecord'
    BY <1>1, <2>2 DEF RecordInv, LocalRecords, ResumeRecord, PausableDevices
  <2> QED
    BY <2>1, <2>3 DEF LocalRecords, CreationRecord, DeletionRecord, SaveRecord, Creating
<1> QED
  BY <1>2, <1>3

LEMMA BeginRecord ==
    ASSUME RecordInv, Begin PROVE LocalRecords'
<1>1. TypeInv /\ Whole /\ meta \in [Devices -> MetaRecords] /\ pc = "idle"
  BY BeginFlow DEF RecordInv, InfraInv, AddressInv, TypeInv, TypeOK
<1>2. CASE pc' \in LooseRecordSteps
  BY <1>2, LooseRecord
<1>3. ASSUME NEW d \in Devices, CreateBegin(d), pc' \notin LooseRecordSteps PROVE LocalRecords'
  <2> DEFINE locals == [NoTxn EXCEPT !.kind = "create", !.user = Owner[d], !.dev = d,
                                     !.prev = meta[d]]
  <2>1. pc' = "addClient" /\ txn' = locals /\ UNCHANGED <<meta, policy>> /\ NameFree(d)
    BY <1>3 DEF CreateBegin, Release, Goto, LooseRecordSteps
  <2>2. locals.kind = "create" /\ locals.dev = d /\ locals.prev = meta[d]
    BY DEF NoTxn
  <2> HIDE DEF locals
  <2>3. meta[d] = NoMeta \/ (meta[d].present /\ meta[d].revoked /\ Owner[d] \in policy)
    BY <1>1, <2>1 DEF NameFree, Whole
  <2>4. CreationRecord'
    BY <2>1, <2>2, <2>3 DEF CreationRecord
  <2> QED
    BY <2>1, <2>4 DEF LocalRecords, DeletionRecord, SaveRecord, ResumeRecord, Creating
<1>4. ASSUME NEW d \in Devices, NEW confirmed \in BOOLEAN, DeleteBegin(d, confirmed)
      PROVE  LocalRecords'
  <2> DEFINE locals == [NoTxn EXCEPT !.kind = IF confirmed THEN "confirmed" ELSE "delete",
                                     !.user = Owner[d]]
  <2>1. /\ DeleteStart(d, locals) /\ Deletable(d) /\ UNCHANGED meta
        /\ meta[d].delprot => confirmed
    BY <1>4 DEF DeleteBegin, MayDelete
  <2>2. locals \in Records /\ (confirmed => locals.kind = "confirmed")
    BY RecordsOfNoTxn DEF NoTxn, Records, Kinds
  <2> HIDE DEF locals
  <2> QED
    BY <2>1, <2>2, DeleteStartRecord
<1>5. ASSUME NEW d \in Devices, NEW enabled \in BOOLEAN, ProtectBegin(d, enabled),
             pc' \notin LooseRecordSteps
      PROVE  LocalRecords'
  <2>1. /\ pc' = "saveSafe" /\ UNCHANGED meta /\ meta[d].present
        /\ txn'.kind \in {"protect", "unprotect"} /\ txn'.dev = d
    BY <1>5 DEF ProtectBegin, Visible, Listed, Release, Goto, LooseRecordSteps, NoTxn
  <2> QED
    BY <2>1 DEF LocalRecords, CreationRecord, DeletionRecord, SaveRecord, ResumeRecord, Creating
<1>6. ASSUME NEW u \in Users, Pause(u) \/ Resume(u) PROVE LocalRecords'
  BY <1>6, PauseBeginRecord, RecordsOfNoTxn DEF Pause, Resume
<1>7. ASSUME NEW u \in Users, DeleteUserBegin(u) \/ AccountBegin(u)
      PROVE  pc' \in LooseRecordSteps
  BY <1>7 DEF DeleteUserBegin, AccountBegin, Release, Goto, LooseRecordSteps
<1>8. ASSUME NEW d \in Devices, NEW enabled \in BOOLEAN, SetDeletionProtected(d, enabled)
      PROVE  pc' \in LooseRecordSteps
  BY <1>1, <1>8 DEF SetDeletionProtected, LooseRecordSteps
<1> QED
  BY <1>2, <1>3, <1>4, <1>5, <1>6, <1>7, <1>8 DEF Begin

LEMMA NextLocalRecords ==
    ASSUME RecordInv, [Next]_vars PROVE LocalRecords'
<1>1. CASE PolicySteps
  BY <1>1, PolicyFlow, LooseRecord DEF LooseRecordSteps
<1>2. CASE StartSteps
  BY <1>2, StartFlow, LooseRecord DEF LooseRecordSteps
<1>3. CASE Web \/ Boot \/ UNCHANGED vars
  <2>1. CASE pc' \in {"idle", "migrate"}
    BY <2>1, LooseRecord DEF LooseRecordSteps
  <2>2. CASE UNCHANGED <<pc, txn>>
    BY <1>3, <2>2, OutsideFlow DEF RecordInv, LocalRecords, CreationRecord, DeletionRecord,
       SaveRecord, ResumeRecord, PausableDevices
  <2> QED
    BY <1>3, <2>1, <2>2, OutsideFlow
<1> QED
  BY <1>1, <1>2, <1>3, CreateRecord, DeleteRecord, PauseRecord, BeginRecord, NextGroups

\* What can give a profile a route: its creation under an account that is not
\* locked, the last step of a locked one's, or a resume.
LEMMA RoutesFrom ==
    ASSUME AddressInv, [Next]_vars, NEW d \in Devices, On(d)'
    PROVE  \/ On(d)
           \/ pc = "addClient" /\ d = txn.dev /\ Owner[d] \notin policy /\ UNCHANGED meta
           \/ pc = "createResume" /\ d = txn.dev /\ UNCHANGED meta
           \/ pc = "resumeNext" /\ d \in txn.todo /\ UNCHANGED meta
<1>1. /\ TypeInv /\ store \in Stores /\ Distinct(store, InfraAddrs)
      /\ pc \in DeviceSteps => txn.dev \in Devices
      /\ txn.todo \subseteq Devices
  BY DEF AddressInv, TypeInv, TypeOK, Subjects, Records
<1>2. On(d) <=> HasConf(store, d) /\ store.conf[d] \in Routed(store)
  BY DEF On, Routed
<1>3. HasConf(store', d) /\ store'.conf[d] \in Routed(store')
  BY DEF On, HasConf, Routed
<1>4. CASE AddClientStep
  <2>1. txn.dev \in Devices /\ pc = "addClient" /\ UNCHANGED meta
    BY <1>1, <1>4 DEF AddClientStep, DeviceSteps
  <2>2. CASE Owner[txn.dev] \in policy
    <3>1. PICK r \in PrepareClient(store, txn.dev, InfraAddrs) : store' = r.store
      BY <1>4, <2>2 DEF AddClientStep, Permitted
    <3>2. /\ \A e \in Devices \ {txn.dev} : store'.conf[e] = store.conf[e]
          /\ Routed(store') = Routed(store)
          /\ store'.conf[txn.dev] # store.conf[txn.dev] => store'.conf[txn.dev] \notin Routed(store)
      BY <1>1, <2>1, <3>1, PrepareClientChanges
    <3> QED
      BY <1>2, <1>3, <3>2 DEF HasConf
  <2>3. CASE Owner[txn.dev] \notin policy
    <3>1. PICK r \in AddClient(store, txn.dev, InfraAddrs, host) : store' = r.store
      BY <1>4, <2>3 DEF AddClientStep, Permitted
    <3>2. /\ \A e \in Devices \ {txn.dev} : store'.conf[e] = store.conf[e]
          /\ \A e \in Devices : HasConf(store, e) /\ store.conf[e] \in Routed(store')
                                    => store.conf[e] \in Routed(store)
      BY <1>1, <2>1, <3>1, AddClientChanges
    <3> QED
      BY <1>2, <1>3, <2>1, <2>3, <3>2 DEF HasConf
  <2> QED
    BY <2>2, <2>3
<1>5. ASSUME NEW e \in Devices, NEW r \in ResumeClient(store, e, host), store' = r.store
      PROVE  On(d) \/ d = e
  <2>1. store'.conf = store.conf /\ Routed(store') \subseteq Routed(store) \cup {store.conf[e]}
    BY <1>1, <1>5, ResumeClientChanges
  <2>2. CASE store.conf[d] = store.conf[e]
    <3>1. HasConf(store, d) /\ HasConf(store, e)
      BY <1>3, <2>1, <2>2 DEF HasConf
    <3> QED
      BY <1>1, <2>2, <3>1 DEF Distinct
  <2> QED
    BY <1>2, <1>3, <2>1, <2>2 DEF HasConf
<1>6. CASE CreateResume
  BY <1>1, <1>5, <1>6 DEF CreateResume, Permitted, DeviceSteps
<1>7. CASE ResumePeer
  BY <1>1, <1>5, <1>7 DEF ResumePeer, Permitted
<1>8. ASSUME NEW e \in Devices, NEW r, store' = r.store,
             r \in RemoveClient(store, e, host) \/ r \in PauseClient(store, e, host)
      PROVE  On(d)
  <2>1. /\ \A c \in Devices : store'.conf[c] \in {store.conf[c], NoPeer}
        /\ Routed(store') \subseteq Routed(store)
    BY <1>1, <1>8, RemoveClientChanges, PauseClientChanges
  <2> QED
    BY <1>2, <1>3, <2>1 DEF HasConf
<1>9. CASE RollbackRemove \/ DeleteRemove
  BY <1>1, <1>8, <1>9 DEF RollbackRemove, DeleteRemove, Permitted, DeviceSteps
<1>10. CASE PausePeer
  BY <1>1, <1>8, <1>10 DEF PausePeer, Permitted
<1>11. CASE UNCHANGED store
  BY <1>2, <1>3, <1>11
<1>12. ASSUME NEW live \in SUBSET store.active, store' = [store EXCEPT !.live = live] PROVE On(d)
  <2>1. store'.conf = store.conf /\ store'.active = store.active /\ store'.live = live
    BY <1>1, <1>12 DEF Stores
  <2> QED
    BY <1>2, <1>3, <2>1 DEF HasConf, Routed
<1>13. CASE CreateSteps
  BY <1>4, <1>6, <1>9, <1>11, <1>13
     DEF CreateSteps, CreateMeta, CreateSync, CreatePublish, RollbackMeta, RollbackSync
<1>14. CASE DeleteSteps
  BY <1>9, <1>11, <1>14
     DEF DeleteSteps, MarkRevoked, DeleteSync, DropMeta, DeleteUndo, DeleteUserNext, DeleteUserEnd
<1>15. CASE PauseSteps
  BY <1>7, <1>10, <1>11, <1>15 DEF PauseSteps, PauseConfirm, ResumeSync, ResumeConfirm, RepauseEnd
<1>16. CASE PolicySteps \/ StartSteps \/ Begin
  BY <1>11, <1>16, PolicyFlow, StartFlow, BeginFlow
<1>17. CASE Web \/ Boot \/ UNCHANGED vars
  BY <1>11, <1>12, <1>17, OutsideFlow
<1> QED
  BY <1>13, <1>14, <1>15, <1>16, <1>17, NextGroups

LEMMA RecordInit == Init => RecordInv
<1> SUFFICES ASSUME Init PROVE RecordInv
  OBVIOUS
<1>1. InfraInv
  BY InfraInit
<1>2. LocalRecords /\ Whole /\ RevokedStaysOff
  BY DEF Init, LocalRecords, CreationRecord, DeletionRecord, SaveRecord, ResumeRecord, Creating,
         Whole, RevokedStaysOff, NoMeta
<1> QED
  BY <1>1, <1>2 DEF RecordInv

LEMMA RecordNext == EnforcedInv /\ RecordInv /\ [Next]_vars => RecordInv'
<1> SUFFICES ASSUME EnforcedInv, RecordInv, [Next]_vars PROVE RecordInv'
  OBVIOUS
<1>1. InfraInv' /\ LocalRecords' /\ Whole'
  BY InfraNext, NextLocalRecords, MetaSteps DEF RecordInv, Whole
<1>2. ASSUME NEW d \in Devices, meta'[d].revoked, On(d)' PROVE FALSE
  <2>1. AddressInv /\ CreationRecord /\ ResumeRecord /\ RevokedStaysOff
    BY DEF RecordInv, InfraInv, LocalRecords
  <2>2. meta[d].revoked \/ (pc \in {"markRevoked", "dropMeta", "rollbackMeta"} /\ ~HasConf(store, d))
    BY <1>2, MetaSteps
  <2>3. ~On(d)
    BY <2>1, <2>2 DEF RevokedStaysOff, On
  <2>4. ~(pc = "addClient" /\ d = txn.dev /\ Owner[d] \notin policy /\ UNCHANGED meta)
    BY <1>2, <2>1 DEF CreationRecord, Creating, NoMeta
  <2>5. ~(pc = "createResume" /\ d = txn.dev /\ UNCHANGED meta)
    BY <1>2, <2>1 DEF CreationRecord, Creating
  <2>6. ~(pc = "resumeNext" /\ d \in txn.todo /\ UNCHANGED meta)
    BY <1>2, <2>1 DEF ResumeRecord, PausableDevices
  <2> QED
    BY <1>2, <2>1, <2>3, <2>4, <2>5, <2>6, RoutesFrom
<1>3. RevokedStaysOff'
  BY <1>2 DEF RevokedStaysOff
<1> QED
  BY <1>1, <1>3 DEF RecordInv

LEMMA RecordInvariant == Spec => [](EnforcedInv /\ RecordInv)
BY EnforcedInit, EnforcedNext, RecordInit, RecordNext, PTL DEF Spec

\* A profile whose revocation is on record never has a route again, whatever
\* is created, resumed, rolled back or booted after it (_delete_device,
\* create_device's reuse of a tombstone, _migrate_device_metadata).
THEOREM RevokedNeverReturns == Spec => []RevokedStaysOff
<1>1. RecordInv => RevokedStaysOff
  BY DEF RecordInv
<1> QED
  BY <1>1, RecordInvariant, PTL

\* No step but operator maintenance lifts the protection of an identity: a
\* deletion, a re-creation and its rollback, an account's deletion and the
\* migration at startup all carry it over (device_metadata, accounts).
THEOREM ProtectionStays == Spec => ProtectionIsPermanent
<1>1. policy' \in {policy, policy \cup {txn.user}} \/ ~[Next]_vars
  <2>1. SavePolicy \/ UndoPolicy \/ SaveSafe \/ UndoSafe
           => policy' \in {policy, policy \cup {txn.user}}
    BY DEF SavePolicy, UndoPolicy, SaveSafe, UndoSafe
  <2> QED
    BY <2>1, NextGroups, CreateFlow, DeleteFlow, PauseFlow, StartFlow, BeginFlow, OutsideFlow
       DEF PolicySteps
<1>2. EnforcedInv /\ RecordInv /\ [Next]_vars
        => (txn.kind # "unprotect" => \A d \in Devices : Protected(d) => Protected(d)')
  BY <1>1, MetaSteps DEF Protected
<1> QED
  BY <1>2, RecordInvariant, PTL DEF Spec, ProtectionIsPermanent

\* A deletion-protected profile loses its configuration only to a deletion
\* whose challenge was confirmed, or to the rollback of its own creation.
THEOREM ProtectedLeavesConfirmed == Spec => ProtectedRemovalConfirmed
<1> DEFINE Confirmed == \A d \in Devices :
              meta[d].delprot /\ HasConf(store, d) /\ ~HasConf(store', d)
                  => txn.dev = d /\ txn.kind \in {"confirmed", "create"}
<1>1. RecordInv /\ [Next]_vars => Confirmed
  <2> SUFFICES ASSUME RecordInv, [Next]_vars, NEW d \in Devices, meta[d].delprot,
                      HasConf(store, d), ~HasConf(store', d)
               PROVE  txn.dev = d /\ txn.kind \in {"confirmed", "create"}
    OBVIOUS
  <2>1. /\ TypeInv /\ store \in Stores /\ CreationRecord /\ DeletionRecord
        /\ pc \in DeviceSteps => txn.dev \in Devices
        /\ txn.todo \subseteq Devices
    BY DEF RecordInv, InfraInv, AddressInv, LocalRecords, TypeInv, TypeOK, Subjects, Records
  <2>2. CASE RollbackRemove
    <3>1. pc = "rollbackRemove" /\ txn.dev \in Devices
      BY <2>1, <2>2 DEF RollbackRemove, DeviceSteps
    <3>2. \A e \in Devices \ {txn.dev} : store'.conf[e] = store.conf[e]
      BY <2>1, <2>2, <3>1, RemoveClientChanges DEF RollbackRemove, Permitted
    <3> QED
      BY <2>1, <3>1, <3>2 DEF HasConf, CreationRecord, Creating
  <2>3. CASE DeleteRemove
    <3>1. pc = "removeClient" /\ txn.dev \in Devices
      BY <2>1, <2>3 DEF DeleteRemove, DeviceSteps
    <3>2. \A e \in Devices \ {txn.dev} : store'.conf[e] = store.conf[e]
      BY <2>1, <2>3, <3>1, RemoveClientChanges DEF DeleteRemove, Permitted
    <3> QED
      BY <2>1, <3>1, <3>2 DEF HasConf, DeletionRecord
  <2>4. CASE AddClientStep
    <3>1. txn.dev \in Devices
      BY <2>1, <2>4 DEF AddClientStep, DeviceSteps
    <3>2. PICK r \in AddClient(store, txn.dev, InfraAddrs, host)
                     \cup PrepareClient(store, txn.dev, InfraAddrs) : store' = r.store
      BY <2>4 DEF AddClientStep, Permitted
    <3>3. /\ \A e \in Devices \ {txn.dev} : store'.conf[e] = store.conf[e]
          /\ store'.conf[txn.dev] # store.conf[txn.dev] => ~HasConf(store, txn.dev)
      BY <2>1, <3>1, <3>2, AddClientChanges, PrepareClientChanges
    <3> QED
      BY <3>3 DEF HasConf
  <2>5. CASE CreateResume \/ PausePeer \/ ResumePeer
    <3>1. \E e \in Devices : \E r : /\ store' = r.store
                                    /\ \/ r \in PauseClient(store, e, host)
                                       \/ r \in ResumeClient(store, e, host)
      BY <2>1, <2>5 DEF CreateResume, PausePeer, ResumePeer, Permitted, DeviceSteps
    <3>2. store'.conf = store.conf
      BY <2>1, <3>1, PauseClientChanges, ResumeClientChanges
    <3> QED
      BY <3>2 DEF HasConf
  <2>6. CASE store'.conf = store.conf
    BY <2>6 DEF HasConf
  <2>7. CASE CreateSteps
    BY <2>2, <2>4, <2>5, <2>6, <2>7
       DEF CreateSteps, CreateMeta, CreateSync, CreatePublish, RollbackMeta, RollbackSync
  <2>8. CASE DeleteSteps
    BY <2>3, <2>6, <2>8
       DEF DeleteSteps, MarkRevoked, DeleteSync, DropMeta, DeleteUndo, DeleteUserNext, DeleteUserEnd
  <2>9. CASE PauseSteps
    BY <2>5, <2>6, <2>9 DEF PauseSteps, PauseConfirm, ResumeSync, ResumeConfirm, RepauseEnd
  <2>10. CASE PolicySteps \/ StartSteps \/ Begin
    BY <2>6, <2>10, PolicyFlow, StartFlow, BeginFlow
  <2>11. CASE Web \/ Boot \/ UNCHANGED vars
    <3>1. \A live : [store EXCEPT !.live = live].conf = store.conf
      BY <2>1 DEF Stores
    <3> QED
      BY <2>6, <2>11, <3>1, OutsideFlow
  <2> QED
    BY <2>7, <2>8, <2>9, <2>10, <2>11, NextGroups
<1> QED
  BY <1>1, RecordInvariant, PTL DEF Spec, ProtectedRemovalConfirmed

-----------------------------------------------------------------------------
(* Accounts *)

\* A profile with keys, or with a record that is not revoked.
InService(d) == HasConf(store, d) \/ (meta[d].present /\ ~meta[d].revoked)

\* Its account exists, and is approved or being revoked.
Answers(u) == users[u].present /\ (users[u].approved \/ users[u].revoking)

Reported(u) == users[u].paused /\ ~users[u].pending

Accountable == \A d \in Devices : InService(d) => Answers(Owner[d])

\* The account checks of create_device hold to the end of the creation.
CreationOwner ==
    pc \in Creating =>
        LET u == users[Owner[txn.dev]] IN u.present /\ u.approved /\ ~u.paused

\* While nothing failed, delete_user has yet to visit what is in service.
DeletionLoop ==
    /\ pc = "nextDevice" => txn.kind = "deleteUser"
    /\ pc \in Deleting \cup {"nextDevice"} /\ txn.kind = "deleteUser" /\ ~txn.bad =>
           \A d \in Owned(txn.user) :
               InService(d) => \/ d \in txn.todo
                               \/ d = txn.dev /\ pc \in {"removeClient", "markRevoked"}

\* While nothing failed, a pause has yet to visit what has a route; a resume
\* runs on an account whose pause is not reported, with all files accounted for.
PauseLoop ==
    /\ pc \in {"pauseNext", "resumeSync", "repause"} /\ ~txn.bad =>
           \A d \in Owned(txn.user) : On(d) => d \in txn.todo
    /\ pc \in {"resumeSync", "resumeNext"} => ~Reported(txn.user) /\ Unowned = {}

\* Startup has yet to visit every pause that is not reported.
StartLoop ==
    /\ pc = "startDns" => txn.queue = {}
    /\ panel = "starting" => pc \in {"migrate", "startPauses", "pauseNext", "startDns"}
    /\ panel = "starting" /\ pc # "migrate" =>
           \A u \in Users :
               users[u].paused /\ ~users[u].revoking /\ users[u].pending
                   => u \in txn.queue \/ (pc = "pauseNext" /\ u = txn.user)

AccountInv == /\ RecordInv /\ Accountable /\ CreationOwner /\ DeletionLoop
              /\ PauseLoop /\ StartLoop /\ PauseConfirmed

LEMMA AccountTypes ==
    AccountInv => /\ TypeInv /\ RecordInv /\ AddressInv /\ LocalRecords
                  /\ store \in Stores /\ txn \in Records
                  /\ users \in [Users -> UserRecords] /\ meta \in [Devices -> MetaRecords]
                  /\ pc \in DeviceSteps => txn.dev \in Devices
                  /\ pc \in UserSteps => txn.user \in Users
                  /\ txn.todo \subseteq Devices
BY DEF AccountInv, RecordInv, InfraInv, AddressInv, TypeInv, TypeOK, Subjects, Records

\* A recorded pause ends with a resume, or with the account; whoever is being
\* revoked is not approved again.
PauseKept(u) ==
    /\ users[u].paused /\ users[u].present =>
           \/ /\ users'[u].paused /\ users'[u].present
              /\ users[u].approved => users'[u].approved \/ pc = "idle"
           \/ ResumeConfirm /\ u = txn.user
           \/ pc = "nextDevice" /\ ~users'[u].approved
           \/ ~users[u].approved /\ ~users[u].revoking
    /\ ~users[u].approved /\ users[u].revoking => ~users'[u].approved

\* What the steps do to one account.  DeleteUserEnd drops it; a pause becomes
\* reported when its last step, or that of a rollback, noted no failure.
LEMMA AccountSteps ==
    ASSUME AccountInv, [Next]_vars, NEW u \in Users
    PROVE  /\ Answers(u) => \/ Answers(u)'
                            \/ pc = "nextDevice" /\ txn.todo = {} /\ ~txn.bad /\ u = txn.user
           /\ Reported(u)' => \/ Reported(u)
                              \/ /\ pc \in {"pauseNext", "repause"}
                                 /\ txn.todo = {} /\ ~txn.bad /\ u = txn.user
           /\ PauseKept(u)
<1> DEFINE Goal == /\ Answers(u) => \/ Answers(u)'
                                    \/ /\ pc = "nextDevice" /\ txn.todo = {}
                                       /\ ~txn.bad /\ u = txn.user
                   /\ Reported(u)' => \/ Reported(u)
                                      \/ /\ pc \in {"pauseNext", "repause"}
                                         /\ txn.todo = {} /\ ~txn.bad /\ u = txn.user
                   /\ PauseKept(u)
<1>1. /\ users \in [Users -> UserRecords] /\ users[u] \in UserRecords
      /\ pc \in UserSteps => txn.user \in Users
      /\ txn.bad \in BOOLEAN
  BY AccountTypes DEF Records
<1>2. ASSUME users'[u] = users[u] PROVE Goal
  BY <1>2 DEF Answers, Reported, PauseKept
<1>3. ASSUME NEW a \in BOOLEAN, NEW b \in BOOLEAN,
             users'[u] = [users[u] EXCEPT !.paused = a, !.pending = b],
             a /\ ~b => /\ pc \in {"pauseNext", "repause"}
                        /\ txn.todo = {} /\ ~txn.bad /\ u = txn.user,
             a \/ (ResumeConfirm /\ u = txn.user)
      PROVE  Goal
  BY <1>1, <1>3 DEF Answers, Reported, UserRecords, PauseKept
<1>4. ASSUME NEW v \in Users, NEW resume, NEW locals, PauseBegin(v, resume, locals) PROVE Goal
  <2>1. users'[u] \in {users[u], [users[u] EXCEPT !.paused = TRUE, !.pending = TRUE]}
    BY <1>1, <1>4 DEF PauseBegin, RecordPause, Checkpoint, UsersNotSaved
  <2> QED
    BY <1>2, <1>3, <2>1
<1>5. ASSUME PauseConfirm PROVE Goal
  <2> DEFINE new == Checkpoint(txn.user, TRUE, FALSE)
  <2>1. /\ txn.user \in Users
        /\ users' = users \/ (users' = new /\ pc = "pauseNext" /\ txn.todo = {} /\ ~txn.bad)
    BY <1>1, <1>5 DEF PauseConfirm, UsersNotSaved, UserSteps, Steps
  <2>2. new[u] = IF u = txn.user THEN [users[u] EXCEPT !.paused = TRUE, !.pending = FALSE] ELSE users[u]
    BY <1>1, <2>1 DEF Checkpoint
  <2> HIDE DEF new
  <2>3. \/ users'[u] = users[u]
        \/ /\ users'[u] = [users[u] EXCEPT !.paused = TRUE, !.pending = FALSE]
           /\ pc = "pauseNext" /\ txn.todo = {} /\ ~txn.bad /\ u = txn.user
    BY <2>1, <2>2
  <2> QED
    BY <1>2, <1>3, <2>3
<1>6. ASSUME ResumeConfirm PROVE Goal
  <2> DEFINE new == Checkpoint(txn.user, FALSE, FALSE)
  <2>1. /\ txn.user \in Users
        /\ users' = users \/ users' = new
    BY <1>1, <1>6 DEF ResumeConfirm, UsersNotSaved, UserSteps, Steps
  <2>2. new[u] = IF u = txn.user THEN [users[u] EXCEPT !.paused = FALSE, !.pending = FALSE] ELSE users[u]
    BY <1>1, <2>1 DEF Checkpoint
  <2> HIDE DEF new
  <2>3. \/ users'[u] = users[u]
        \/ /\ users'[u] = [users[u] EXCEPT !.paused = FALSE, !.pending = FALSE]
           /\ u = txn.user
    BY <2>1, <2>2
  <2> QED
    BY <1>2, <1>3, <1>6, <2>3
<1>7. ASSUME RepauseEnd PROVE Goal
  <2> DEFINE new == Checkpoint(txn.user, TRUE, txn.bad)
  <2>1. /\ txn.user \in Users
        /\ users' = users \/ users' = new
        /\ pc = "repause" /\ txn.todo = {}
    BY <1>1, <1>7 DEF RepauseEnd, UsersNotSaved, UserSteps, Steps
  <2>2. new[u] = IF u = txn.user THEN [users[u] EXCEPT !.paused = TRUE, !.pending = txn.bad] ELSE users[u]
    BY <1>1, <2>1 DEF Checkpoint
  <2> HIDE DEF new
  <2>3. \/ users'[u] = users[u]
        \/ /\ users'[u] = [users[u] EXCEPT !.paused = TRUE, !.pending = txn.bad]
           /\ pc = "repause" /\ txn.todo = {} /\ u = txn.user
    BY <2>1, <2>2
  <2> QED
    BY <1>1, <1>2, <1>3, <2>3
<1>8. ASSUME NEW v \in Users, DeleteUserBegin(v) PROVE Goal
  <2>1. \/ users'[u] = users[u]
        \/ users'[u] = [users[u] EXCEPT !.revoking = TRUE, !.approved = FALSE]
    BY <1>1, <1>8 DEF DeleteUserBegin, UsersNotSaved
  <2>2. pc = "idle"
    BY <1>8 DEF DeleteUserBegin, Serving
  <2> QED
    BY <1>1, <1>2, <2>1, <2>2 DEF UserRecords, Answers, Reported, PauseKept
<1>9. ASSUME DeleteUserEnd PROVE Goal
  <2>1. \/ users'[u] = users[u]
        \/ /\ users'[u] = NoUser
           /\ pc = "nextDevice" /\ txn.todo = {} /\ ~txn.bad /\ u = txn.user
    BY <1>1, <1>9 DEF DeleteUserEnd, UsersNotSaved
  <2> QED
    BY <1>2, <2>1 DEF NoUser, Answers, Reported, PauseKept
<1>10. ASSUME Web PROVE Goal
  <2>1. PICK v \in Users : Register(v) \/ Approve(v) \/ Reject(v)
    BY <1>10 DEF Web
  <2>2. \/ users'[u] = users[u]
        \/ users'[u] = [users[u] EXCEPT !.approved = TRUE] /\ ~users[u].revoking
        \/ users'[u] = NewUser /\ ~users[u].present
        \/ users'[u] = NoUser /\ ~users[u].approved /\ ~users[u].revoking
    BY <1>1, <2>1 DEF Register, Approve, Reject
  <2>3. ~NewUser.paused /\ ~NoUser.paused /\ ~NewUser.approved /\ ~NoUser.approved
    BY DEF NewUser, NoUser
  <2> QED
    BY <1>1, <1>2, <2>2, <2>3 DEF UserRecords, Answers, Reported, PauseKept
<1> HIDE DEF Goal
<1>11. ASSUME CreateSteps \/ PolicySteps PROVE Goal
  BY <1>2, <1>11, CreateFlow, PolicyFlow
<1>12. ASSUME DeleteSteps PROVE Goal
  BY <1>2, <1>9, <1>12 DEF DeleteSteps, DeleteRemove, MarkRevoked, DeleteSync, DropMeta,
                           DeleteUndo, DeleteUserNext
<1>13. ASSUME PauseSteps PROVE Goal
  BY <1>2, <1>5, <1>6, <1>7, <1>13 DEF PauseSteps, PausePeer, ResumeSync, ResumePeer
<1>14. ASSUME StartSteps PROVE Goal
  <2>1. ASSUME StartPause PROVE Goal
    <3>1. PICK v \in txn.queue :
             \/ PauseBegin(v, FALSE, [NoTxn EXCEPT !.queue = txn.queue \ {v}])
             \/ UNCHANGED users
      BY <2>1 DEF StartPause
    <3>2. v \in Users
      BY AccountTypes DEF Records
    <3> QED
      BY <1>2, <1>4, <3>1, <3>2
  <2> QED
    BY <1>2, <1>14, <2>1 DEF StartSteps, Migrate, StartPausesEnd, StartDns
<1>15. ASSUME Begin PROVE Goal
  BY <1>2, <1>4, <1>8, <1>15 DEF Begin, CreateBegin, DeleteBegin, ProtectBegin,
     SetDeletionProtected, Pause, Resume, AccountBegin
<1>16. ASSUME Boot \/ UNCHANGED vars PROVE Goal
  BY <1>2, <1>16 DEF Boot, PanelStart, Bootstrap, WgQuickUp, PanelCrash, HostReboot, vars
<1>17. Goal
  BY <1>10, <1>11, <1>12, <1>13, <1>14, <1>15, <1>16, NextGroups
<1> QED
  BY <1>17 DEF Goal

\* Only a creation takes a profile into service.
LEMMA ComesFromCreation ==
    ASSUME AccountInv, [Next]_vars, NEW d \in Devices
    PROVE  \/ pc \in Creating /\ d = txn.dev
           \/ /\ store'.conf[d] \in {store.conf[d], NoPeer}
              /\ meta'[d].present /\ ~meta'[d].revoked => meta[d].present /\ ~meta[d].revoked
<1> DEFINE Goal ==
       \/ pc \in Creating /\ d = txn.dev
       \/ /\ store'.conf[d] \in {store.conf[d], NoPeer}
          /\ meta'[d].present /\ ~meta'[d].revoked => meta[d].present /\ ~meta[d].revoked
<1>1. /\ TypeInv /\ RecordInv /\ store \in Stores /\ meta \in [Devices -> MetaRecords]
      /\ meta[d] \in MetaRecords
      /\ pc \in DeviceSteps => txn.dev \in Devices
      /\ txn.todo \subseteq Devices
  BY AccountTypes
<1>2. ASSUME store'.conf[d] \in {store.conf[d], NoPeer},
             meta'[d].present /\ ~meta'[d].revoked => meta[d].present /\ ~meta[d].revoked
      PROVE  Goal
  BY <1>2
<1>3. ASSUME CreateSteps PROVE Goal
  <2>1. pc \in Creating /\ txn.dev \in Devices
    BY <1>1, <1>3, CreateFlow DEF Creating, DeviceSteps
  <2>2. CASE d # txn.dev
    <3>1. store'.conf[d] = store.conf[d]
      <4>1. CASE UNCHANGED store
        BY <4>1
      <4>2. CASE AddClientStep
        <5>1. \E r \in AddClient(store, txn.dev, InfraAddrs, host)
                       \cup PrepareClient(store, txn.dev, InfraAddrs) : store' = r.store
          BY <4>2 DEF AddClientStep, Permitted
        <5> QED
          BY <1>1, <2>1, <2>2, <5>1, AddClientChanges, PrepareClientChanges
      <4>3. CASE CreateResume
        BY <1>1, <2>1, <2>2, <4>3, ResumeClientChanges DEF CreateResume, Permitted
      <4>4. CASE RollbackRemove
        BY <1>1, <2>1, <2>2, <4>4, RemoveClientChanges DEF RollbackRemove, Permitted
      <4> QED
        BY <1>3, <4>1, <4>2, <4>3, <4>4
           DEF CreateSteps, CreateMeta, CreateSync, CreatePublish, RollbackMeta, RollbackSync
    <3>2. meta'[d] = meta[d]
      BY <1>1, <1>3, <2>2 DEF CreateSteps, AddClientStep, CreateMeta, CreateSync, CreateResume,
         CreatePublish, RollbackRemove, RollbackMeta, RollbackSync, MetaNotSaved
    <3> QED
      BY <1>2, <3>1, <3>2 DEF HasConf
  <2> QED
    BY <2>1, <2>2
<1>4. ASSUME NEW e \in Devices, NEW r, store' = r.store, meta' = meta,
             \/ r \in RemoveClient(store, e, host) \/ r \in PauseClient(store, e, host)
             \/ r \in ResumeClient(store, e, host)
      PROVE  Goal
  <2>1. store'.conf[d] \in {store.conf[d], NoPeer}
    BY <1>1, <1>4, RemoveClientChanges, PauseClientChanges, ResumeClientChanges
  <2> QED
    BY <1>2, <1>4, <2>1 DEF HasConf
<1>5. ASSUME store'.conf = store.conf, meta'[d] = meta[d] PROVE Goal
  BY <1>2, <1>5 DEF HasConf
<1>6. ASSUME DeleteRemove PROVE Goal
  BY <1>1, <1>4, <1>6 DEF DeleteRemove, Permitted, DeviceSteps
<1>7. ASSUME PausePeer \/ ResumePeer PROVE Goal
  BY <1>1, <1>4, <1>7 DEF PausePeer, ResumePeer, Permitted
<1>8. ASSUME store' = store,
             meta'[d].present => meta[d].present, meta'[d].revoked \/ ~meta[d].revoked
      PROVE  Goal
  BY <1>8
<1>9. ASSUME MarkRevoked \/ DropMeta PROVE Goal
  <2>1. /\ txn.dev \in Devices /\ UNCHANGED store
        /\ \/ meta'[d] = meta[d]
           \/ d = txn.dev /\ meta'[d] = [meta[d] EXCEPT !.revoked = TRUE]
           \/ meta'[d] \in {Tombstone, NoMeta}
    BY <1>1, <1>9 DEF MarkRevoked, DropMeta, MetaNotSaved, DeviceSteps
  <2>2. Tombstone.revoked /\ ~NoMeta.present
    BY DEF Tombstone, NoMeta
  <2> QED
    BY <1>1, <2>1, <2>2 DEF MetaRecords
<1>10. ASSUME SaveSafe PROVE Goal
  <2> DEFINE on == txn.kind = "protect"
  <2>1. /\ txn.dev \in Devices /\ UNCHANGED store
        /\ meta'[d] \in {meta[d], [meta[d] EXCEPT !.safe = on, !.locked = on]}
    BY <1>1, <1>10 DEF SaveSafe, MetaNotSaved, DeviceSteps
  <2> HIDE DEF on
  <2> QED
    BY <1>1, <1>8, <2>1 DEF MetaRecords
<1>11. ASSUME NEW e \in Devices, NEW x \in BOOLEAN, SetDeletionProtected(e, x) PROVE Goal
  <2>1. UNCHANGED store /\ meta'[d] \in {meta[d], [meta[d] EXCEPT !.delprot = x]}
    BY <1>1, <1>11 DEF SetDeletionProtected, MetaNotSaved
  <2> QED
    BY <1>1, <1>8, <2>1 DEF MetaRecords
<1>12. ASSUME Migrate PROVE Goal
  <2>1. UNCHANGED store /\ meta'[d] \in {meta[d], NoMeta}
    BY <1>1, <1>12 DEF Migrate, MetaNotSaved
  <2>2. ~NoMeta.present
    BY DEF NoMeta
  <2> QED
    BY <1>2, <2>1, <2>2
<1> HIDE DEF Goal
<1>13. ASSUME DeleteSteps PROVE Goal
  BY <1>5, <1>6, <1>9, <1>13 DEF DeleteSteps, DeleteSync, DeleteUndo, DeleteUserNext, DeleteUserEnd
<1>14. ASSUME PauseSteps PROVE Goal
  BY <1>5, <1>7, <1>14 DEF PauseSteps, PauseConfirm, ResumeSync, ResumeConfirm, RepauseEnd
<1>15. ASSUME PolicySteps PROVE Goal
  BY <1>5, <1>10, <1>15 DEF PolicySteps, SavePolicy, UndoPolicy, UndoSafe
<1>16. ASSUME StartSteps PROVE Goal
  BY <1>5, <1>12, <1>16 DEF StartSteps, StartPause, PauseBegin, StartPausesEnd, StartDns
<1>17. ASSUME Begin PROVE Goal
  BY <1>5, <1>11, <1>17 DEF Begin, CreateBegin, DeleteBegin, ProtectBegin, DeleteUserBegin, Pause,
                            Resume, PauseBegin, AccountBegin
<1>18. ASSUME Web \/ Boot \/ UNCHANGED vars PROVE Goal
  <2>1. \A live : [store EXCEPT !.live = live].conf = store.conf
    BY <1>1 DEF Stores
  <2> QED
    BY <1>5, <1>18, <2>1, OutsideFlow
<1>19. Goal
  BY <1>3, <1>13, <1>14, <1>15, <1>16, <1>17, <1>18, NextGroups
<1> QED
  BY <1>19 DEF Goal

LEMMA ServiceFrom ==
    ASSUME AccountInv, [Next]_vars, NEW d \in Devices, InService(d)'
    PROVE  InService(d) \/ (pc \in Creating /\ d = txn.dev)
BY ComesFromCreation DEF InService, HasConf

\* The only request that starts a creation.
LEMMA CreationBegins ==
    ASSUME [Next]_vars, pc' \in Creating
    PROVE  \/ pc \in Creating /\ txn' = txn
           \/ /\ pc \notin Creating
              /\ \E d \in Devices : CreateBegin(d)
<1>1. CASE CreateSteps
  BY <1>1, CreateFlow DEF Creating
<1>2. CASE Begin
  <2>1. pc \notin Creating
    BY <1>2, BeginFlow DEF Creating
  <2>2. ASSUME NEW d \in Devices, NEW x, SetDeletionProtected(d, x) PROVE FALSE
    BY <1>2, <2>2, BeginFlow DEF SetDeletionProtected, Creating
  <2>3. ASSUME NEW d \in Devices, NEW x, DeleteBegin(d, x) \/ ProtectBegin(d, x) PROVE FALSE
    BY <2>3 DEF DeleteBegin, DeleteStart, ProtectBegin, Release, Goto, Creating
  <2>4. ASSUME NEW u \in Users, DeleteUserBegin(u) \/ Pause(u) \/ Resume(u) \/ AccountBegin(u)
        PROVE  FALSE
    BY <2>4 DEF DeleteUserBegin, Pause, Resume, PauseBegin, AccountBegin, Abort, Release, Goto,
                Creating
  <2> QED
    BY <1>2, <2>1, <2>2, <2>3, <2>4 DEF Begin
<1>3. CASE Web \/ Boot \/ UNCHANGED vars
  BY <1>3, OutsideFlow DEF Creating
<1>4. ~DeleteSteps /\ ~PauseSteps /\ ~PolicySteps /\ ~StartSteps
  BY DeleteFlow, PauseFlow, PolicyFlow, StartFlow DEF Creating, Deleting, Pausing
<1> QED
  BY <1>1, <1>2, <1>3, <1>4, NextGroups

\* No account loses what answers for a profile in service.
LEMMA NextAccountable ==
    ASSUME AccountInv, [Next]_vars PROVE Accountable'
<1> SUFFICES ASSUME NEW d \in Devices, InService(d)' PROVE Answers(Owner[d])'
  BY DEF Accountable
<1>1. Owner[d] \in Users /\ Accountable /\ CreationOwner /\ DeletionLoop
  BY DEF AccountInv
<1>2. CASE pc \in Creating /\ d = txn.dev
  BY <1>1, <1>2, AccountSteps DEF CreationOwner, Answers, Creating
<1>3. CASE InService(d)
  <2>1. Answers(Owner[d])
    BY <1>1, <1>3 DEF Accountable
  <2>2. ~(pc = "nextDevice" /\ txn.todo = {} /\ ~txn.bad /\ Owner[d] = txn.user)
    BY <1>1, <1>3 DEF DeletionLoop, Owned
  <2> QED
    BY <1>1, <2>1, <2>2, AccountSteps
<1> QED
  BY <1>2, <1>3, ServiceFrom

\* While a creation runs, only requests without the lock touch its account.
LEMMA NextCreationOwner ==
    ASSUME AccountInv, [Next]_vars PROVE CreationOwner'
<1> SUFFICES ASSUME pc' \in Creating PROVE CreationOwner'
  BY DEF CreationOwner
<1>1. /\ users \in [Users -> UserRecords] /\ CreationOwner
      /\ pc \in DeviceSteps => txn.dev \in Devices
  BY AccountTypes DEF AccountInv
<1>2. CASE CreateSteps
  BY <1>1, <1>2, CreateFlow DEF CreationOwner, Creating
<1>3. CASE Begin
  <2>1. PICK d \in Devices : CreateBegin(d)
    BY <1>3, BeginFlow, CreationBegins DEF Creating
  <2>2. /\ txn' = [NoTxn EXCEPT !.kind = "create", !.user = Owner[d], !.dev = d, !.prev = meta[d]]
        /\ UNCHANGED users
        /\ users[Owner[d]].present /\ users[Owner[d]].approved /\ ~users[Owner[d]].paused
    BY <2>1 DEF CreateBegin, Release, Goto, Creating
  <2>3. txn'.dev = d
    BY <2>2 DEF NoTxn
  <2> QED
    BY <2>2, <2>3 DEF CreationOwner
<1>4. CASE Web
  <2>1. UNCHANGED <<pc, txn>>
    BY <1>4 DEF Web, Register, Approve, Reject
  <2>2. PICK v \in Users : Register(v) \/ Approve(v) \/ Reject(v)
    BY <1>4 DEF Web
  <2> DEFINE o == Owner[txn.dev]
  <2>3. o \in Users /\ users[o].present /\ users[o].approved /\ ~users[o].paused
    BY <1>1, <2>1 DEF CreationOwner, Creating, DeviceSteps
  <2>4. users'[o] = users[o] \/ users'[o] = [users[o] EXCEPT !.approved = TRUE]
    BY <1>1, <2>2, <2>3 DEF Register, Approve, Reject
  <2>5. users'[o].present /\ users'[o].approved /\ ~users'[o].paused
    BY <1>1, <2>3, <2>4 DEF UserRecords
  <2> QED
    BY <2>1, <2>5 DEF CreationOwner
<1>5. CASE Boot \/ UNCHANGED vars
  <2>1. UNCHANGED <<pc, txn>> /\ UNCHANGED users
    BY <1>5, OutsideFlow DEF Creating, Boot, PanelStart, Bootstrap, WgQuickUp, PanelCrash,
       HostReboot, vars
  <2> QED
    BY <1>1, <2>1 DEF CreationOwner
<1>6. ~DeleteSteps /\ ~PauseSteps /\ ~PolicySteps /\ ~StartSteps
  BY DeleteFlow, PauseFlow, PolicyFlow, StartFlow DEF Creating, Deleting, Pausing
<1> QED
  BY <1>2, <1>3, <1>4, <1>5, <1>6, NextGroups

-----------------------------------------------------------------------------

\* A deletion that goes back to the loop of delete_user notes a failure.
LEMMA DeleteEndsLoop ==
    ASSUME txn \in Records, NEW ok \in BOOLEAN, DeleteEnds(ok)
    PROVE  \/ pc' = "idle"
           \/ /\ pc' = "nextDevice" /\ txn.kind = "deleteUser" /\ txn'.kind = txn.kind
              /\ txn'.user = txn.user /\ txn'.todo = txn.todo
              /\ ~txn'.bad => ok /\ ~txn.bad
<1> DEFINE next == [txn EXCEPT !.dev = Nobody, !.old = {}, !.new = {}, !.bad = @ \/ ~ok]
<1>1. /\ next.kind = txn.kind /\ next.user = txn.user /\ next.todo = txn.todo
      /\ next.bad = (txn.bad \/ ~ok)
  BY DEF Records
<1>2. pc' = "idle" \/ (pc' = "nextDevice" /\ txn.kind = "deleteUser" /\ txn' = next)
  BY DEF DeleteEnds, Release, Goto
<1> HIDE DEF next
<1> QED
  BY <1>1, <1>2

LEMMA NextDeletionLoop ==
    ASSUME EnforcedInv, AccountInv, [Next]_vars PROVE DeletionLoop'
<1>1. /\ txn \in Records /\ store \in Stores /\ meta \in [Devices -> MetaRecords]
      /\ DeletionLoop /\ RecordInv
      /\ txn.todo \subseteq Devices
      /\ pc \in DeviceSteps => txn.dev \in Devices
  BY AccountTypes DEF AccountInv
<1>2. \A d \in Devices : pc \notin Creating /\ InService(d)' => InService(d)
  BY ServiceFrom
<1>3. CASE pc' \notin Deleting \cup {"nextDevice"}
  BY <1>3 DEF DeletionLoop
<1>4. CASE DeleteSteps
  <2> SUFFICES ASSUME pc' # "idle" PROVE DeletionLoop'
    BY DEF DeletionLoop, Deleting
  <2>1. pc \in Deleting \cup {"nextDevice"} /\ pc \notin Creating
    BY <1>4, DeleteFlow DEF Deleting, Creating
  <2>2. ASSUME NEW ok \in BOOLEAN, DeleteEnds(ok),
               ~(ok /\ pc \in {"removeClient", "markRevoked"})
        PROVE  DeletionLoop'
    BY <1>1, <1>2, <2>1, <2>2, DeleteEndsLoop DEF DeletionLoop, Owned, Deleting
  <2>3. ASSUME txn' = txn, pc' \in Deleting,
               pc \in {"removeClient", "markRevoked"} =>
                   pc' \in {"removeClient", "markRevoked"} \/ ~InService(txn.dev)'
        PROVE  DeletionLoop'
    BY <1>1, <1>2, <2>1, <2>3 DEF DeletionLoop, Owned, Deleting
  <2>4. CASE DeleteRemove
    BY <2>2, <2>3, <2>4 DEF DeleteRemove, Goto, Deleting
  <2>5. CASE MarkRevoked
    <3>1. CASE DeleteEnds(FALSE)
      BY <2>2, <3>1
    <3>2. CASE ~DeleteEnds(FALSE)
      <4>1. /\ txn.dev \in Devices /\ UNCHANGED store
            /\ meta' = [meta EXCEPT ![txn.dev].revoked = TRUE]
            /\ pc' \in {"deleteSync", "dropMeta"} /\ txn' = txn
        BY <1>1, <2>5, <3>2 DEF MarkRevoked, Goto, DeviceSteps
      <4>2. ~HasConf(store, txn.dev)
        BY <2>5 DEF MarkRevoked, EnforcedInv, TransactionInv, DeletedGone
      <4>3. meta'[txn.dev].revoked
        BY <1>1, <4>1 DEF MetaRecords
      <4>4. ~InService(txn.dev)'
        BY <4>1, <4>2, <4>3 DEF InService, HasConf
      <4> QED
        BY <2>3, <4>1, <4>4 DEF Deleting
    <3> QED
      BY <3>1, <3>2
  <2>6. CASE DeleteSync
    BY <2>2, <2>3, <2>6 DEF DeleteSync, Goto, Deleting
  <2>7. CASE DropMeta
    BY <2>2, <2>3, <2>7 DEF DropMeta, Goto, Deleting
  <2>8. CASE DeleteUndo
    BY <2>2, <2>8 DEF DeleteUndo
  <2>9. CASE DeleteUserNext
    <3>1. PICK d \in txn.todo :
             LET rest == [txn EXCEPT !.todo = @ \ {d}]
             IN  \/ Deletable(d) /\ DeleteStart(d, rest)
                 \/ Goto("nextDevice", [rest EXCEPT !.bad = TRUE])
      BY <2>9 DEF DeleteUserNext
    <3>2. d \in Devices /\ pc = "nextDevice" /\ UNCHANGED <<meta, store>>
      BY <1>1, <2>9, <3>1 DEF DeleteUserNext
    <3> DEFINE rest == [txn EXCEPT !.todo = @ \ {d}]
               bad == [rest EXCEPT !.bad = TRUE]
               next == [rest EXCEPT !.dev = d, !.old = IpsOf(SafeDevices(policy)),
                                    !.new = IpsOf(SafeDevices(policy) \ {d})]
    <3>3. /\ bad.bad /\ bad.kind = txn.kind
          /\ next.kind = txn.kind /\ next.user = txn.user /\ next.dev = d
          /\ next.bad = txn.bad /\ next.todo = txn.todo \ {d}
      BY <1>1 DEF Records
    <3>4. \/ pc' = "nextDevice" /\ txn' = bad
          \/ /\ Deletable(d) /\ txn' = next
             /\ pc' \in {"removeClient", "deleteSync", "dropMeta"}
             /\ meta[d].revoked \/ pc' = "removeClient"
      BY <3>1 DEF DeleteStart, Goto
    <3> HIDE DEF rest, bad, next
    <3>5. CASE pc' = "nextDevice" /\ txn' = bad
      BY <1>1, <3>2, <3>3, <3>5 DEF DeletionLoop
    <3>6. CASE /\ Deletable(d) /\ txn' = next
               /\ pc' \in {"removeClient", "deleteSync", "dropMeta"}
               /\ meta[d].revoked \/ pc' = "removeClient"
      <4>1. InService(d) => pc' = "removeClient"
        BY <3>6 DEF Deletable, InService
      <4>2. \A e \in Devices : InService(e)' => InService(e)
        BY <1>2, <3>2 DEF Creating
      <4> QED
        BY <1>1, <3>2, <3>3, <3>6, <4>1, <4>2 DEF DeletionLoop, Owned, Deleting
    <3> QED
      BY <3>4, <3>5, <3>6
  <2>10. CASE DeleteUserEnd
    BY <2>10 DEF DeleteUserEnd, Release, Goto
  <2> QED
    BY <1>4, <2>4, <2>5, <2>6, <2>7, <2>8, <2>9, <2>10 DEF DeleteSteps
<1>5. CASE Begin
  <2>1. pc = "idle" /\ UNCHANGED store
    BY <1>5, BeginFlow
  <2>2. ASSUME NEW u \in Users, DeleteUserBegin(u), pc' # "idle" PROVE DeletionLoop'
    <3> DEFINE locals == [NoTxn EXCEPT !.kind = "deleteUser", !.user = u,
                                       !.todo = {d \in Owned(u) : meta[d].present}]
    <3>1. /\ pc' = "nextDevice" /\ txn' = locals /\ Unowned = {} /\ UNCHANGED <<meta, store>>
      BY <2>2 DEF DeleteUserBegin, Release, Goto
    <3>2. /\ locals.kind = "deleteUser" /\ locals.user = u
          /\ locals.todo = {d \in Owned(u) : meta[d].present}
      BY DEF NoTxn
    <3> HIDE DEF locals
    <3>3. \A d \in Devices : InService(d)' => meta[d].present
      BY <3>1 DEF InService, HasConf, Unowned, Configured
    <3> QED
      BY <3>1, <3>2, <3>3 DEF DeletionLoop, Owned
  <2>3. ASSUME NEW d \in Devices, NEW confirmed \in BOOLEAN, DeleteBegin(d, confirmed)
        PROVE  DeletionLoop'
    <3> DEFINE locals == [NoTxn EXCEPT !.kind = IF confirmed THEN "confirmed" ELSE "delete",
                                       !.user = Owner[d]]
    <3>1. DeleteStart(d, locals)
      BY <2>3 DEF DeleteBegin
    <3>2. locals \in Records /\ locals.kind # "deleteUser"
      BY RecordsOfNoTxn DEF NoTxn, Records, Kinds
    <3> HIDE DEF locals
    <3>3. pc' # "nextDevice" /\ txn'.kind = locals.kind
      BY <3>1, <3>2 DEF DeleteStart, Goto, Records
    <3> QED
      BY <3>2, <3>3 DEF DeletionLoop
  <2>4. ASSUME NEW d \in Devices, NEW x, CreateBegin(d) \/ ProtectBegin(d, x)
        PROVE  pc' \notin Deleting \cup {"nextDevice"}
    BY <2>4 DEF CreateBegin, ProtectBegin, Release, Goto, Deleting
  <2>5. ASSUME NEW d \in Devices, NEW x, SetDeletionProtected(d, x)
        PROVE  pc' \notin Deleting \cup {"nextDevice"}
    BY <2>1, <2>5 DEF SetDeletionProtected, Deleting
  <2>6. ASSUME NEW u \in Users, Pause(u) \/ Resume(u) \/ AccountBegin(u)
        PROVE  pc' \notin Deleting \cup {"nextDevice"}
    BY <2>6 DEF Pause, Resume, PauseBegin, AccountBegin, Abort, Release, Goto, Deleting
  <2>7. pc' = "idle" => pc' \notin Deleting \cup {"nextDevice"}
    BY DEF Deleting
  <2> QED
    BY <1>3, <1>5, <2>2, <2>3, <2>4, <2>5, <2>6, <2>7 DEF Begin
<1>6. CASE Web \/ Boot \/ UNCHANGED vars
  <2>1. CASE pc' \in {"idle", "migrate"}
    BY <1>3, <2>1 DEF Deleting
  <2>2. CASE UNCHANGED <<pc, txn>> /\ pc \in Deleting \cup {"nextDevice"}
    BY <1>1, <1>2, <2>2 DEF DeletionLoop, Creating, Deleting, Owned
  <2> QED
    BY <1>3, <1>6, <2>1, <2>2, OutsideFlow
<1>7. CreateSteps \/ PauseSteps \/ PolicySteps \/ StartSteps
         => pc' \notin Deleting \cup {"nextDevice"}
  BY CreateFlow, PauseFlow, PolicyFlow, StartFlow DEF Creating, Pausing, Deleting
<1> QED
  BY <1>3, <1>4, <1>5, <1>6, <1>7, NextGroups

-----------------------------------------------------------------------------

\* With every file accounted for, what has a route is on the list of a pause.
LEMMA RoutesListed ==
    ASSUME Unowned = {}, RevokedStaysOff, NEW u, NEW d \in Owned(u), On(d)
    PROVE  d \in PausableDevices(u)
BY DEF Unowned, Configured, RevokedStaysOff, Owned, On, PausableDevices

\* A pause or resume begins with that list, and the account's pause pending.
LEMMA PauseBeginLoop ==
    ASSUME AccountInv, NEW u \in Users, NEW resume, NEW locals \in Records,
           PauseBegin(u, resume, locals)
    PROVE  PauseLoop'
<1> DEFINE next(kind) == [locals EXCEPT !.kind = kind, !.user = u, !.todo = PausableDevices(u)]
<1>1. \A kind : next(kind).user = u /\ next(kind).todo = PausableDevices(u)
  BY DEF Records
<1>2. UNCHANGED <<meta, store>>
  BY DEF PauseBegin
<1>3. \/ pc' = "idle"
      \/ /\ pc' \in {"resumeSync", "pauseNext"} /\ \E kind : txn' = next(kind)
         /\ Unowned = {} /\ users' = Checkpoint(u, TRUE, TRUE)
  BY DEF PauseBegin, PausablesResolved, RecordPause, Abort, Goto
<1> HIDE DEF next
<1>4. CASE pc' = "idle"
  BY <1>4 DEF PauseLoop
<1>5. CASE /\ pc' \in {"resumeSync", "pauseNext"} /\ \E kind : txn' = next(kind)
           /\ Unowned = {} /\ users' = Checkpoint(u, TRUE, TRUE)
  <2>1. txn'.user = u /\ txn'.todo = PausableDevices(u) /\ Unowned' = {}
    BY <1>1, <1>2, <1>5 DEF Unowned, Configured, HasConf
  <2>2. \A d \in Owned(u) : On(d)' => d \in PausableDevices(u)
    <3>1. \A d \in Owned(u) : On(d)' => On(d)
      BY <1>2 DEF On, HasConf
    <3>2. RevokedStaysOff
      BY DEF AccountInv, RecordInv
    <3> QED
      BY <1>5, <3>1, <3>2, RoutesListed
  <2>3. ~Reported(u)'
    <3>1. users \in [Users -> UserRecords]
      BY AccountTypes
    <3>2. users'[u] = [users[u] EXCEPT !.paused = TRUE, !.pending = TRUE]
      BY <1>5, <3>1 DEF Checkpoint
    <3>3. users[u] \in UserRecords
      BY <3>1
    <3>4. users'[u].pending
      BY <3>2, <3>3 DEF UserRecords
    <3> QED
      BY <3>4 DEF Reported
  <2> QED
    BY <1>5, <2>1, <2>2, <2>3 DEF PauseLoop, Reported
<1> QED
  BY <1>3, <1>4, <1>5

LEMMA NextPauseLoop ==
    ASSUME EnforcedInv, AccountInv, [Next]_vars PROVE PauseLoop'
<1>1. /\ txn \in Records /\ store \in Stores /\ AddressInv /\ RecordInv
      /\ PauseLoop /\ RevokedStaysOff'
      /\ pc \in UserSteps => txn.user \in Users
      /\ txn.todo \subseteq Devices
  BY AccountTypes, RecordNext DEF AccountInv, RecordInv
<1>2. \A d \in Devices : On(d)' /\ pc \in {"pauseNext", "resumeSync", "repause"} => On(d)
  BY <1>1, RoutesFrom
<1>3. CASE pc' \notin {"pauseNext", "resumeSync", "resumeNext", "repause"}
  BY <1>3 DEF PauseLoop
<1>4. CASE PauseSteps
  <2>1. UNCHANGED meta
    BY <1>4, PauseFlow
  <2>2. CASE PausePeer
    <3>1. PICK d \in txn.todo : \E r \in PauseClient(store, d, host) :
             store' = r.store /\ Goto(pc, [txn EXCEPT !.todo = @ \ {d}, !.bad = @ \/ ~r.ok])
      BY <2>2 DEF PausePeer, Permitted
    <3>2. PICK r \in PauseClient(store, d, host) :
             store' = r.store /\ Goto(pc, [txn EXCEPT !.todo = @ \ {d}, !.bad = @ \/ ~r.ok])
      BY <3>1
    <3> DEFINE next == [txn EXCEPT !.todo = @ \ {d}, !.bad = @ \/ ~r.ok]
    <3>3. next.user = txn.user /\ next.todo = txn.todo \ {d} /\ next.bad = (txn.bad \/ ~r.ok)
      BY <1>1 DEF Records
    <3>4. pc' = pc /\ pc \in {"pauseNext", "repause"} /\ txn' = next
      BY <2>2, <3>2 DEF PausePeer, Goto
    <3> HIDE DEF next
    <3>5. r.ok => ~On(d)'
      <4>1. d \in Devices
        BY <1>1
      <4>2. store'.conf = store.conf
        BY <1>1, <3>2, <4>1, PauseClientChanges
      <4>3. r.ok => store.conf[d] \notin Routed(store')
        BY <1>1, <3>2, <4>1, PauseClientOff
      <4> QED
        BY <4>2, <4>3 DEF On, Routed
    <3> QED
      BY <1>1, <1>2, <3>3, <3>4, <3>5 DEF PauseLoop, Owned
  <2>3. CASE ResumeSync
    <3>1. /\ pc = "resumeSync" /\ pc' \in {"resumeNext", "repause"} /\ txn' = txn
          /\ UNCHANGED <<users, meta, store>>
      BY <2>3 DEF ResumeSync, Goto
    <3> QED
      BY <1>1, <1>2, <3>1 DEF PauseLoop, Owned, Unowned, Configured, HasConf, Reported
  <2>4. ASSUME pc = "resumeNext", store'.conf = store.conf, pc' = "repause",
               txn' = [txn EXCEPT !.todo = PausableDevices(txn.user)]
        PROVE  PauseLoop'
    <3> DEFINE next == [txn EXCEPT !.todo = PausableDevices(txn.user)]
    <3>1. next.user = txn.user /\ next.todo = PausableDevices(txn.user)
      BY <1>1 DEF Records
    <3>2. txn' = next
      BY <2>4
    <3> HIDE DEF next
    <3>3. Unowned' = {}
      BY <1>1, <2>1, <2>4 DEF PauseLoop, Unowned, Configured, HasConf
    <3>4. \A d \in Owned(txn.user) : On(d)' => d \in PausableDevices(txn.user)
      BY <1>1, <2>1, <3>3 DEF Unowned, Configured, RevokedStaysOff, Owned, On, PausableDevices
    <3> QED
      BY <2>4, <3>1, <3>2, <3>4 DEF PauseLoop
  <2>5. CASE ResumePeer
    <3>1. pc = "resumeNext" /\ UNCHANGED users
      BY <2>5 DEF ResumePeer
    <3>2. store'.conf = store.conf
      BY <1>1, <2>5, ResumeClientChanges DEF ResumePeer, Permitted
    <3>3. \/ pc' = "repause" /\ txn' = [txn EXCEPT !.todo = PausableDevices(txn.user)]
          \/ pc' = "resumeNext" /\ \E d \in txn.todo : txn' = [txn EXCEPT !.todo = @ \ {d}]
      BY <2>5 DEF ResumePeer, Goto
    <3>4. CASE pc' = "resumeNext" /\ \E d \in txn.todo : txn' = [txn EXCEPT !.todo = @ \ {d}]
      <4>1. txn'.user = txn.user
        BY <1>1, <3>4 DEF Records
      <4> QED
        BY <1>1, <2>1, <3>1, <3>2, <3>4, <4>1
           DEF PauseLoop, Unowned, Configured, HasConf, Reported
    <3> QED
      BY <2>4, <3>1, <3>2, <3>3, <3>4
  <2>6. CASE ResumeConfirm
    BY <1>3, <2>4, <2>6 DEF ResumeConfirm, Release, Goto
  <2>7. CASE PauseConfirm \/ RepauseEnd
    BY <1>3, <2>7 DEF PauseConfirm, RepauseEnd, Abort, Release, Goto
  <2> QED
    BY <1>4, <2>2, <2>3, <2>5, <2>6, <2>7 DEF PauseSteps
<1>5. CASE StartSteps
  <2>1. CASE StartPause
    <3>1. PICK u \in txn.queue :
             \/ PauseBegin(u, FALSE, [NoTxn EXCEPT !.queue = txn.queue \ {u}])
             \/ Abort
      BY <2>1 DEF StartPause
    <3>2. u \in Users /\ [NoTxn EXCEPT !.queue = txn.queue \ {u}] \in Records
      BY <1>1, RecordsOfNoTxn DEF NoTxn, Records
    <3> QED
      BY <1>3, <3>1, <3>2, PauseBeginLoop DEF Abort
  <2> QED
    BY <1>3, <1>5, <2>1 DEF StartSteps, Migrate, StartPausesEnd, StartDns, Abort, Goto
<1>6. CASE Begin
  <2>1. ASSUME NEW u \in Users, Pause(u) \/ Resume(u) PROVE PauseLoop'
    BY <2>1, PauseBeginLoop, RecordsOfNoTxn DEF Pause, Resume
  <2>2. ASSUME NEW u \in Users, DeleteUserBegin(u) \/ AccountBegin(u)
        PROVE  pc' \notin {"pauseNext", "resumeSync", "resumeNext", "repause"}
    BY <2>2 DEF DeleteUserBegin, AccountBegin, Release, Goto
  <2>3. ASSUME NEW d \in Devices, NEW x, CreateBegin(d) \/ DeleteBegin(d, x) \/ ProtectBegin(d, x)
        PROVE  pc' \notin {"pauseNext", "resumeSync", "resumeNext", "repause"}
    BY <2>3 DEF CreateBegin, DeleteBegin, DeleteStart, ProtectBegin, Release, Goto
  <2>4. ASSUME NEW d \in Devices, NEW x, SetDeletionProtected(d, x)
        PROVE  pc' \notin {"pauseNext", "resumeSync", "resumeNext", "repause"}
    BY <2>4 DEF SetDeletionProtected, Serving
  <2> QED
    BY <1>3, <1>6, <2>1, <2>2, <2>3, <2>4 DEF Begin
<1>7. CASE Web \/ Boot \/ UNCHANGED vars
  <2>1. CASE pc' \in {"idle", "migrate"}
    BY <1>3, <2>1
  <2>2. CASE UNCHANGED <<pc, txn>> /\ pc \in {"pauseNext", "resumeSync", "resumeNext", "repause"}
    <3>1. UNCHANGED meta /\ store'.conf = store.conf
      BY <1>1, <1>7, OutsideFlow DEF Stores
    <3>2. txn.user \in Users
      BY <1>1, <2>2 DEF UserSteps, Steps
    <3>3. PICK u \in Users : u = txn.user
      BY <3>2
    <3>4. pc \in {"resumeSync", "resumeNext"} /\ Reported(u)' => Reported(u)
      BY <2>2, AccountSteps
    <3>5. pc' \in {"resumeSync", "resumeNext"} => ~Reported(txn.user)'
      BY <1>1, <2>2, <3>3, <3>4 DEF PauseLoop, Reported
    <3>6. pc' \in {"resumeSync", "resumeNext"} => Unowned' = {}
      BY <1>1, <2>2, <3>1 DEF PauseLoop, Unowned, Configured, HasConf
    <3>7. ASSUME pc # "resumeNext", NEW d \in Owned(txn.user), On(d)' PROVE On(d)
      BY <1>2, <2>2, <3>7 DEF Owned
    <3> QED
      BY <1>1, <2>2, <3>5, <3>6, <3>7 DEF PauseLoop, Owned
  <2> QED
    BY <1>3, <1>7, <2>1, <2>2, OutsideFlow
<1>8. CreateSteps \/ DeleteSteps \/ PolicySteps
         => pc' \notin {"pauseNext", "resumeSync", "resumeNext", "repause"}
  BY CreateFlow, DeleteFlow, PolicyFlow DEF Creating, Deleting
<1> QED
  BY <1>3, <1>4, <1>5, <1>6, <1>7, <1>8, NextGroups

LEMMA NextPauseConfirmed ==
    ASSUME AccountInv, [Next]_vars PROVE PauseConfirmed'
<1> SUFFICES ASSUME NEW u \in Users, Reported(u)', NEW d \in Owned(u), On(d)' PROVE FALSE
  BY DEF PauseConfirmed, Reported
<1>1. /\ AddressInv /\ LocalRecords /\ CreationOwner /\ PauseLoop /\ PauseConfirmed
      /\ d \in Devices /\ Owner[d] = u
  BY AccountTypes DEF AccountInv, Owned
<1>2. CASE Reported(u)
  <2>1. ~On(d)
    BY <1>1, <1>2 DEF PauseConfirmed, Reported
  <2>2. ~(pc \in Creating /\ d = txn.dev)
    BY <1>1, <1>2 DEF CreationOwner, Reported
  <2>3. ~(pc = "resumeNext" /\ d \in txn.todo)
    BY <1>1, <1>2 DEF LocalRecords, ResumeRecord, PauseLoop, PausableDevices, Owned
  <2> QED
    BY <1>1, <2>1, <2>2, <2>3, RoutesFrom DEF Creating
<1>3. CASE /\ pc \in {"pauseNext", "repause"}
           /\ txn.todo = {} /\ ~txn.bad /\ u = txn.user
  <2>1. ~On(d)
    BY <1>1, <1>3 DEF PauseLoop
  <2> QED
    BY <1>1, <1>3, <2>1, RoutesFrom
<1> QED
  BY <1>2, <1>3, AccountSteps

-----------------------------------------------------------------------------

\* Once started, the panel visits its pauses one after the other.
LEMMA NextStartLoop ==
    ASSUME EnforcedInv, AccountInv, [Next]_vars PROVE StartLoop'
<1>1. /\ txn \in Records /\ StartLoop /\ users \in [Users -> UserRecords] /\ Halted
      /\ pc \in UserSteps => txn.user \in Users
  BY AccountTypes DEF AccountInv, EnforcedInv
<1>2. ASSUME panel' # "starting", pc' # "startDns" PROVE StartLoop'
  BY <1>2 DEF StartLoop
<1>3. CASE CreateSteps \/ DeleteSteps \/ PolicySteps
  <2>1. /\ panel' = panel /\ pc' # "startDns"
        /\ pc \notin {"migrate", "startPauses", "pauseNext", "startDns"}
    BY <1>3, CreateFlow, DeleteFlow, PolicyFlow DEF Creating, Deleting, Policing
  <2> QED
    BY <1>1, <1>2, <2>1 DEF StartLoop
<1>4. CASE PauseSteps
  <2>1. pc' # "startDns"
    BY <1>4, PauseFlow DEF Pausing
  <2>2. CASE panel' # "starting"
    BY <1>2, <2>1, <2>2
  <2>3. CASE panel' = "starting"
    <3>1. panel = "starting"
      BY <1>4, <2>3 DEF PauseSteps, PausePeer, PauseConfirm, ResumeSync, ResumePeer, ResumeConfirm,
                        RepauseEnd, Abort, Release, Goto
    <3>2. pc = "pauseNext"
      BY <1>1, <1>4, <3>1, PauseFlow DEF StartLoop, Pausing
    <3>3. PausePeer \/ PauseConfirm
      BY <1>4, <3>2 DEF PauseSteps, ResumeSync, ResumePeer, ResumeConfirm, RepauseEnd
    <3>4. CASE PausePeer
      <4>1. pc' = pc /\ UNCHANGED users
            /\ \E t, b : txn' = [txn EXCEPT !.todo = t, !.bad = b]
        BY <3>4 DEF PausePeer, Goto
      <4>2. txn'.queue = txn.queue /\ txn'.user = txn.user
        BY <1>1, <4>1 DEF Records
      <4> QED
        BY <1>1, <2>3, <3>1, <3>2, <4>1, <4>2 DEF StartLoop
    <3>5. CASE PauseConfirm
      <4>1. /\ pc' = "startPauses" /\ users' = Checkpoint(txn.user, TRUE, FALSE)
            /\ txn' = [NoTxn EXCEPT !.kind = "start", !.queue = txn.queue]
        BY <2>3, <3>1, <3>5 DEF PauseConfirm, Abort, Goto
      <4>2. txn'.queue = txn.queue
        BY <4>1 DEF NoTxn
      <4>3. txn.user \in Users
        BY <1>1, <3>2 DEF UserSteps, Steps
      <4>4. users[txn.user] \in UserRecords
        BY <1>1, <4>3
      <4>5. \A u \in Users : users'[u] = users[u] \/ (u = txn.user /\ ~users'[u].pending)
        BY <1>1, <4>1, <4>3, <4>4 DEF Checkpoint, UserRecords
      <4>6. \A u \in Users :
               users[u].paused /\ ~users[u].revoking /\ users[u].pending
                   => u \in txn.queue \/ u = txn.user
        BY <1>1, <3>1, <3>2 DEF StartLoop
      <4>7. \A u \in Users :
               users'[u].paused /\ ~users'[u].revoking /\ users'[u].pending => u \in txn.queue
        <5> SUFFICES ASSUME NEW u \in Users, users'[u].paused, ~users'[u].revoking,
                            users'[u].pending
                     PROVE  u \in txn.queue
          OBVIOUS
        <5>1. users'[u] = users[u]
          BY <4>5
        <5>2. u # txn.user
          <6>1. users'[txn.user] = [users[txn.user] EXCEPT !.paused = TRUE, !.pending = FALSE]
            BY <1>1, <4>1, <4>3 DEF Checkpoint
          <6>2. ~users'[txn.user].pending
            BY <4>4, <6>1 DEF UserRecords
          <6> QED
            BY <6>2
        <5> QED
          BY <4>6, <5>1, <5>2
      <4> QED
        BY <4>1, <4>2, <4>7 DEF StartLoop
    <3> QED
      BY <3>3, <3>4, <3>5
  <2> QED
    BY <2>2, <2>3
<1>5. CASE Migrate
  <2> DEFINE next == [txn EXCEPT !.queue = PersistedPauses]
  <2>1. next.queue = PersistedPauses
    BY <1>1 DEF Records
  <2>2. \/ pc' = "startPauses" /\ txn' = next /\ UNCHANGED users
        \/ pc' = "idle" /\ panel' # "starting"
    BY <1>5 DEF Migrate, Abort, Goto
  <2> HIDE DEF next
  <2> QED
    BY <1>2, <2>1, <2>2 DEF StartLoop, PersistedPauses
<1>6. CASE StartPause
  <2>1. PICK u \in txn.queue :
           \/ PauseBegin(u, FALSE, [NoTxn EXCEPT !.queue = txn.queue \ {u}])
           \/ Abort
    BY <1>6 DEF StartPause
  <2>2. u \in Users /\ pc = "startPauses"
    BY <1>1, <1>6 DEF Records, StartPause
  <2> DEFINE next == [[NoTxn EXCEPT !.queue = txn.queue \ {u}] EXCEPT
                         !.kind = "pause", !.user = u, !.todo = PausableDevices(u)]
  <2>3. next.queue = txn.queue \ {u} /\ next.user = u
    BY DEF NoTxn
  <2>4. \/ pc' = "idle" /\ panel' # "starting"
        \/ /\ pc' = "pauseNext" /\ panel' = panel /\ txn' = next
           /\ users' = Checkpoint(u, TRUE, TRUE)
    BY <2>1 DEF PauseBegin, RecordPause, Abort, Goto
  <2> HIDE DEF next
  <2>5. CASE pc' = "idle" /\ panel' # "starting"
    BY <1>2, <2>5
  <2>6. CASE /\ pc' = "pauseNext" /\ panel' = panel /\ txn' = next
             /\ users' = Checkpoint(u, TRUE, TRUE)
    <3>1. \A v \in Users : v # u => users'[v] = users[v]
      BY <1>1, <2>2, <2>6 DEF Checkpoint
    <3> QED
      BY <1>1, <2>2, <2>3, <2>6, <3>1 DEF StartLoop
  <2> QED
    BY <2>4, <2>5, <2>6
<1>7. CASE StartPausesEnd
  BY <1>1, <1>7 DEF StartPausesEnd, StartLoop, Goto
<1>8. CASE StartDns
  BY <1>2, <1>8 DEF StartDns, Abort
<1>9. CASE Begin
  <2>1. panel = "serving" /\ panel' # "starting"
    BY <1>9 DEF Begin, Serving, CreateBegin, DeleteBegin, DeleteStart, ProtectBegin,
       SetDeletionProtected, DeleteUserBegin, Pause, Resume, PauseBegin, AccountBegin, Abort,
       Release, Goto
  <2>2. ASSUME NEW u \in Users, DeleteUserBegin(u) \/ AccountBegin(u) \/ Pause(u) \/ Resume(u)
        PROVE  pc' # "startDns"
    BY <2>2 DEF DeleteUserBegin, AccountBegin, Pause, Resume, PauseBegin, Abort, Release, Goto
  <2>3. ASSUME NEW d \in Devices, NEW x, CreateBegin(d) \/ DeleteBegin(d, x) \/ ProtectBegin(d, x)
        PROVE  pc' # "startDns"
    BY <2>3 DEF CreateBegin, DeleteBegin, DeleteStart, ProtectBegin, Release, Goto
  <2>4. ASSUME NEW d \in Devices, NEW x, SetDeletionProtected(d, x) PROVE pc' # "startDns"
    BY <2>4 DEF SetDeletionProtected, Serving
  <2> QED
    BY <1>2, <1>9, <2>1, <2>2, <2>3, <2>4 DEF Begin
<1>10. CASE Web
  <2>1. panel = "serving" /\ UNCHANGED <<panel, pc, txn>>
    BY <1>10 DEF Web, Register, Approve, Reject
  <2> QED
    BY <1>1, <2>1 DEF StartLoop
<1>11. CASE Boot \/ UNCHANGED vars
  <2>1. UNCHANGED users
    BY <1>11 DEF Boot, PanelStart, Bootstrap, WgQuickUp, PanelCrash, HostReboot, vars
  <2>2. \/ UNCHANGED <<panel, pc, txn>>
        \/ pc' = "migrate"
        \/ panel' # "starting" /\ pc' = "idle"
    BY <1>11 DEF Boot, PanelStart, Bootstrap, WgQuickUp, PanelCrash, HostReboot, vars
  <2> QED
    BY <1>1, <1>2, <2>1, <2>2 DEF StartLoop
<1> QED
  BY <1>3, <1>4, <1>5, <1>6, <1>7, <1>8, <1>9, <1>10, <1>11, NextGroups DEF StartSteps

LEMMA AccountInit == Init => AccountInv
<1> SUFFICES ASSUME Init PROVE AccountInv
  OBVIOUS
<1>1. RecordInv
  BY RecordInit
<1>2. \A d \in Devices : ~InService(d) /\ ~On(d)
  BY DEF Init, EmptyStore, NoMeta, InService, HasConf, On
<1>3. Accountable /\ PauseConfirmed
  BY <1>2 DEF Accountable, PauseConfirmed, Owned
<1>4. CreationOwner /\ DeletionLoop /\ PauseLoop /\ StartLoop
  BY DEF Init, CreationOwner, DeletionLoop, PauseLoop, StartLoop, Creating, Deleting
<1> QED
  BY <1>1, <1>3, <1>4 DEF AccountInv

LEMMA AccountNext == EnforcedInv /\ AccountInv /\ [Next]_vars => AccountInv'
BY RecordNext, NextAccountable, NextCreationOwner, NextDeletionLoop, NextPauseLoop,
   NextPauseConfirmed, NextStartLoop DEF AccountInv

LEMMA AccountInvariant == Spec => [](EnforcedInv /\ AccountInv)
BY EnforcedInit, EnforcedNext, AccountInit, AccountNext, PTL DEF Spec

\* A pause that was reported as complete is complete and stays so: whatever is
\* created, deleted, resumed, torn, crashed or rebooted since, no profile of
\* the account has a route (access.set_user_paused and its rollback).
THEOREM PauseStaysConfirmed == Spec => []PauseConfirmed
<1>1. AccountInv => PauseConfirmed
  BY DEF AccountInv
<1> QED
  BY <1>1, AccountInvariant, PTL

\* No configuration outlives its account, although create_device looks at the
\* account only once and users.json is written without the lifecycle lock.
THEOREM OwnersStayAccountable == Spec => []OwnersAccountable
<1>1. AccountInv => OwnersAccountable
  BY DEF AccountInv, Accountable, InService, Answers, OwnersAccountable
<1> QED
  BY <1>1, AccountInvariant, PTL

\* The panel starts serving only when every pause on record has been applied
\* and confirmed (access.reconcile_paused_users, runner.main).
THEOREM ServesResolvedPauses == Spec => ServingResolvesPauses
<1> DEFINE Resolves == panel # "serving" /\ panel' = "serving" =>
              \A u \in Users : users[u].paused /\ ~users[u].revoking
                                   => ~users[u].pending /\ \A d \in Owned(u) : ~On(d)
<1>1. EnforcedInv /\ AccountInv /\ [Next]_vars => Resolves
  <2> SUFFICES ASSUME EnforcedInv, AccountInv, [Next]_vars, panel # "serving",
                      panel' = "serving"
               PROVE  \A u \in Users : users[u].paused /\ ~users[u].revoking
                                   => ~users[u].pending /\ \A d \in Owned(u) : ~On(d)
    OBVIOUS
  <2>1. StartLoop /\ PauseConfirmed /\ Halted /\ panel \in {"down", "starting", "serving"}
    BY DEF AccountInv, EnforcedInv, TypeInv, TypeOK
  <2>2. pc = "startDns"
    <3>1. ~CreateSteps /\ ~DeleteSteps /\ ~PolicySteps /\ ~Begin
      BY CreateFlow, DeleteFlow, PolicyFlow, BeginFlow
    <3>2. ~PauseSteps
      BY DEF PauseSteps, PausePeer, PauseConfirm, ResumeSync, ResumePeer, ResumeConfirm,
             RepauseEnd, Abort, Release, Goto
    <3>3. ~Web /\ ~Boot /\ ~UNCHANGED vars
      BY DEF Web, Register, Approve, Reject, Boot, PanelStart, Bootstrap, WgQuickUp, PanelCrash,
             HostReboot, vars
    <3>4. StartSteps
      BY <3>1, <3>2, <3>3, NextGroups
    <3> QED
      BY <3>4 DEF StartSteps, Migrate, StartPause, PauseBegin, StartPausesEnd, StartDns, Abort, Goto
  <2>3. panel = "starting" /\ txn.queue = {}
    BY <2>1, <2>2 DEF StartLoop, Halted
  <2> QED
    BY <2>1, <2>2, <2>3 DEF StartLoop, PauseConfirmed
<1> QED
  BY <1>1, AccountInvariant, PTL DEF Spec, ServingResolvesPauses

-----------------------------------------------------------------------------
(* Limits *)

Standing(u) == {d \in Owned(u) : Listed(d)}

\* Nobody else fills the room a creation was given: until it ends, the other
\* profiles of the account stay below the limit.
Room == pc \in Creating =>
            LET u == Owner[txn.dev]
            IN  u \in Limited => Cardinality(Standing(u) \ {txn.dev}) < Limit[u]

LimitInv == /\ AccountInv /\ WithinLimit /\ Room
            /\ \A u \in Users : IsFiniteSet(Standing(u))

\* A profile is listed from its own creation on.
LEMMA StandingSteps ==
    ASSUME AccountInv, [Next]_vars, NEW u \in Users
    PROVE  \/ Standing(u)' \subseteq Standing(u)
           \/ /\ pc \in Creating /\ u = Owner[txn.dev]
              /\ Standing(u)' \subseteq (Standing(u) \ {txn.dev}) \cup {txn.dev}
              /\ Standing(u)' \ {txn.dev} \subseteq Standing(u) \ {txn.dev}
<1>1. ASSUME NEW d \in Devices, Listed(d)' PROVE Listed(d) \/ (pc \in Creating /\ d = txn.dev)
  BY <1>1, ComesFromCreation DEF Listed, HasConf
<1>2. \A d \in Standing(u)' : /\ d \in Devices /\ Owner[d] = u
                              /\ d \in Standing(u) \/ (pc \in Creating /\ d = txn.dev)
  BY <1>1 DEF Standing, Owned
<1> QED
  BY <1>2

LEMMA Smaller ==
    ASSUME NEW S, NEW T, IsFiniteSet(S), T \subseteq S
    PROVE  /\ IsFiniteSet(T)
           /\ Cardinality(T) \in Nat /\ Cardinality(S) \in Nat
           /\ Cardinality(T) <= Cardinality(S)
BY FS_Subset, FS_CardinalityType

LEMMA OneMore ==
    ASSUME NEW S, NEW x, IsFiniteSet(S)
    PROVE  /\ IsFiniteSet(S \cup {x})
           /\ Cardinality(S \cup {x}) <= Cardinality(S) + 1
<1>1. Cardinality(S) \in Nat
  BY FS_CardinalityType
<1>2. /\ IsFiniteSet(S \cup {x})
      /\ Cardinality(S \cup {x}) = IF x \in S THEN Cardinality(S) ELSE Cardinality(S) + 1
  BY FS_AddElement
<1> QED
  BY <1>1, <1>2

LEMMA NextWithinLimit ==
    ASSUME LimitInv, [Next]_vars, NEW u \in Users
    PROVE  IsFiniteSet(Standing(u)') /\ (u \in Limited => Cardinality(Standing(u)') <= Limit[u])
<1>1. /\ AccountInv /\ Room /\ IsFiniteSet(Standing(u))
      /\ u \in Limited => Cardinality(Standing(u)) <= Limit[u] /\ Limit[u] \in Nat
  BY LimitAssumption DEF LimitInv, WithinLimit, Standing, Limited
<1>2. CASE Standing(u)' \subseteq Standing(u)
  <2>1. /\ IsFiniteSet(Standing(u)')
        /\ Cardinality(Standing(u)') \in Nat /\ Cardinality(Standing(u)) \in Nat
        /\ Cardinality(Standing(u)') <= Cardinality(Standing(u))
    BY <1>1, <1>2, Smaller
  <2> QED
    BY <1>1, <2>1
<1>3. CASE /\ pc \in Creating /\ u = Owner[txn.dev]
           /\ Standing(u)' \subseteq (Standing(u) \ {txn.dev}) \cup {txn.dev}
  <2> DEFINE others == Standing(u) \ {txn.dev}
  <2>1. /\ IsFiniteSet(others) /\ Cardinality(others) \in Nat
        /\ u \in Limited => Cardinality(others) < Limit[u]
    BY <1>1, <1>3, Smaller DEF Room
  <2>2. /\ IsFiniteSet(others \cup {txn.dev})
        /\ Cardinality(others \cup {txn.dev}) <= Cardinality(others) + 1
    BY <2>1, OneMore
  <2>3. Standing(u)' \subseteq others \cup {txn.dev}
    BY <1>3
  <2> HIDE DEF others
  <2>4. /\ IsFiniteSet(Standing(u)')
        /\ Cardinality(Standing(u)') \in Nat /\ Cardinality(others \cup {txn.dev}) \in Nat
        /\ Cardinality(Standing(u)') <= Cardinality(others \cup {txn.dev})
    BY <2>2, <2>3, Smaller
  <2> QED
    BY <1>1, <2>1, <2>2, <2>4
<1> QED
  BY <1>1, <1>2, <1>3, StandingSteps

LEMMA NextRoom ==
    ASSUME LimitInv, [Next]_vars PROVE Room'
<1> SUFFICES ASSUME pc' \in Creating PROVE Room'
  BY DEF Room
<1>1. /\ AccountInv /\ Room /\ \A u \in Users : IsFiniteSet(Standing(u))
      /\ \A u \in Limited : Limit[u] \in Nat
      /\ pc \in DeviceSteps => txn.dev \in Devices
  BY AccountTypes, LimitAssumption DEF LimitInv, Limited
<1>2. ASSUME NEW u \in Users, NEW d \in Devices, u = Owner[d], d = txn'.dev,
             Standing(u)' \ {d} \subseteq Standing(u) \ {d},
             u \in Limited => Cardinality(Standing(u) \ {d}) < Limit[u]
      PROVE  Room'
  <2>1. IsFiniteSet(Standing(u) \ {d})
    BY <1>1, Smaller
  <2>2. u \in Limited => Cardinality(Standing(u)' \ {d}) < Limit[u]
    BY <1>1, <1>2, <2>1, Smaller
  <2> QED
    BY <1>2, <2>2 DEF Room, Standing, Owned
<1>3. CASE pc \in Creating /\ txn' = txn
  <2>1. PICK d \in Devices : d = txn.dev
    BY <1>1, <1>3 DEF Creating, DeviceSteps
  <2>2. PICK u \in Users : u = Owner[d]
    OBVIOUS
  <2>3. u \in Limited => Cardinality(Standing(u) \ {d}) < Limit[u]
    BY <1>1, <1>3, <2>1, <2>2 DEF Room
  <2>4. Standing(u)' \ {d} \subseteq Standing(u) \ {d}
    BY <1>1, <2>1, StandingSteps
  <2> QED
    BY <1>2, <1>3, <2>1, <2>2, <2>3, <2>4
<1>4. CASE pc \notin Creating /\ \E d \in Devices : CreateBegin(d)
  <2>1. PICK d \in Devices : CreateBegin(d)
    BY <1>4
  <2>2. PICK u \in Users : u = Owner[d]
    OBVIOUS
  <2>3. /\ txn' = [NoTxn EXCEPT !.kind = "create", !.user = u, !.dev = d, !.prev = meta[d]]
        /\ u \in Limited => Cardinality(Standing(u)) < Limit[u]
    BY <2>1, <2>2 DEF CreateBegin, RoomForDevice, Standing, Release, Goto, Creating
  <2>4. txn'.dev = d
    BY <2>3 DEF NoTxn
  <2>5. Standing(u)' \subseteq Standing(u)
    BY <1>1, <1>4, StandingSteps
  <2>6. u \in Limited => Cardinality(Standing(u) \ {d}) < Limit[u]
    BY <1>1, <2>3, Smaller
  <2> QED
    BY <1>2, <2>2, <2>4, <2>5, <2>6
<1> QED
  BY <1>3, <1>4, CreationBegins

LEMMA LimitInit == Init => LimitInv
<1> SUFFICES ASSUME Init PROVE LimitInv
  OBVIOUS
<1>1. AccountInv /\ Room
  BY AccountInit DEF Init, Room, Creating
<1>2. \A u \in Users : Standing(u) = {}
  BY DEF Init, EmptyStore, NoMeta, Standing, Listed, HasConf, Owned
<1>3. WithinLimit /\ \A u \in Users : IsFiniteSet(Standing(u))
  <2>1. /\ \A u \in Users : IsFiniteSet(Standing(u)) /\ Cardinality(Standing(u)) = 0
        /\ \A u \in Limited : Limit[u] \in Nat
    BY <1>2, FS_EmptySet, LimitAssumption DEF Limited
  <2> QED
    BY <2>1 DEF WithinLimit, Standing, Limited
<1> QED
  BY <1>1, <1>3 DEF LimitInv

LEMMA LimitNext == EnforcedInv /\ LimitInv /\ [Next]_vars => LimitInv'
<1> SUFFICES ASSUME EnforcedInv, LimitInv, [Next]_vars PROVE LimitInv'
  OBVIOUS
<1>1. AccountInv' /\ Room'
  BY AccountNext, NextRoom DEF LimitInv
<1>2. \A u \in Users : /\ IsFiniteSet(Standing(u)')
                       /\ u \in Limited => Cardinality(Standing(u)') <= Limit[u]
  BY NextWithinLimit
<1>3. WithinLimit'
  BY <1>2 DEF WithinLimit, Standing, Limited
<1> QED
  BY <1>1, <1>2, <1>3 DEF LimitInv

\* However creations fail, roll back or are cut off, an account never has more
\* listed profiles than its limit (create_device counts once, at the start).
THEOREM LimitNeverExceeded == Spec => []WithinLimit
<1>1. LimitInv => WithinLimit
  BY DEF LimitInv
<1>2. Spec => [](EnforcedInv /\ LimitInv)
  BY EnforcedInit, EnforcedNext, LimitInit, LimitNext, PTL DEF Spec
<1> QED
  BY <1>1, <1>2, PTL
-----------------------------------------------------------------------------
(* Profiles marked safe by themselves *)

\* The set N matches every profile of D that is in service and marked safe.
Marked(N, D) == \A d \in D : Held(d) /\ meta[d].safe => store.conf[d].addr \in N

\* Before a resume every marked profile is matched; the profile about to be
\* marked is; the sets a policy change or a deletion may go back to match them.
ResumesMarked == pc \in {"createResume", "resumeNext"} => Marked(nft, Devices)
SavesMarked   == pc = "saveSafe" /\ HasConf(store, txn.dev) => store.conf[txn.dev].addr \in nft
UndoesMarked  == pc \in Policing => Marked(txn.old, Devices)
DeletesMarked == pc \in Deleting => /\ Marked(txn.old, Devices \ {txn.dev})
                                    /\ Marked(txn.new, Devices \ {txn.dev})

OptInInv == /\ AccountInv /\ OptInEnforced
            /\ ResumesMarked /\ SavesMarked /\ UndoesMarked /\ DeletesMarked

\* What reconcile_safe_dns computes matches them.
LEMMA IpsMark ==
    ASSUME NEW S, NEW d \in Devices, d \in S, HasConf(store, d)
    PROVE  store.conf[d].addr \in IpsOf(S)
BY DEF IpsOf, Configured

LEMMA SafeIpsMark == Marked(IpsOf(SafeDevices(policy)), Devices)
BY DEF Marked, Held, IpsOf, SafeDevices, Effective, Configured, HasConf

LEMMA RestIpsMark ==
    ASSUME NEW d PROVE Marked(IpsOf(SafeDevices(policy) \ {d}), Devices \ {d})
BY DEF Marked, Held, IpsOf, SafeDevices, Effective, Configured, HasConf

\* A profile is marked, or appears marked, only by set_device_safe_internet.
LEMMA MarkedFrom ==
    ASSUME EnforcedInv, AccountInv, [Next]_vars, NEW d \in Devices, Held(d)', meta'[d].safe
    PROVE  /\ Held(d) /\ store'.conf[d] = store.conf[d]
           /\ meta[d].safe \/ (SaveSafe /\ d = txn.dev)
<1>1. /\ RecordInv /\ LocalRecords /\ meta'[d].present /\ ~meta'[d].revoked
      /\ HasConf(store', d)
  BY AccountTypes DEF AccountInv, Held, HasConf
<1>2. \/ meta[d].safe /\ ~meta[d].revoked
      \/ pc = "saveSafe" /\ d = txn.dev
  BY <1>1, MetaSteps
<1>3. ~(pc \in Creating /\ d = txn.dev)
  <2> SUFFICES ASSUME pc \in Creating, d = txn.dev PROVE FALSE
    OBVIOUS
  <2>1. meta[d].safe /\ ~meta[d].revoked
    BY <1>2 DEF Creating
  <2>2. ~NoMeta.safe
    BY DEF NoMeta
  <2> QED
    BY <1>1, <2>1, <2>2 DEF LocalRecords, CreationRecord
<1>4. Held(d) /\ store'.conf[d] = store.conf[d]
  BY <1>1, <1>3, ComesFromCreation DEF Held, HasConf
<1>5. CASE meta'[d] = meta[d]
  BY <1>4, <1>5
<1>6. CASE meta'[d] # meta[d] /\ pc = "saveSafe" /\ d = txn.dev
  <2>1. ~CreateSteps /\ ~DeleteSteps /\ ~PauseSteps /\ ~StartSteps /\ ~Begin
    BY <1>6, CreateFlow, DeleteFlow, PauseFlow, StartFlow, BeginFlow
       DEF Creating, Deleting, Pausing, Starting
  <2>2. ~Web /\ ~Boot /\ ~UNCHANGED vars
    BY <1>6, OutsideFlow
  <2>3. PolicySteps
    BY <2>1, <2>2, NextGroups
  <2> QED
    BY <1>4, <1>6, <2>3 DEF PolicySteps, SavePolicy, UndoPolicy, UndoSafe
<1> QED
  BY <1>2, <1>4, <1>5, <1>6

\* What a step of a deletion, a policy change or a resume finds in its locals.
LEMMA DeletionBegins ==
    ASSUME TypeInv, [Next]_vars, pc' \in Deleting
    PROVE  \/ pc \in Deleting /\ txn' = txn
           \/ /\ \E d \in Devices :
                    /\ txn'.dev = d
                    /\ txn'.old = IpsOf(SafeDevices(policy))
                    /\ txn'.new = IpsOf(SafeDevices(policy) \ {d})
              /\ UNCHANGED <<policy, meta, store>>
<1> DEFINE Fresh == /\ \E d \in Devices :
                          /\ txn'.dev = d
                          /\ txn'.old = IpsOf(SafeDevices(policy))
                          /\ txn'.new = IpsOf(SafeDevices(policy) \ {d})
                    /\ UNCHANGED <<policy, meta, store>>
           Kept == pc \in Deleting /\ txn' = txn
<1>1. ASSUME NEW d \in Devices, NEW locals \in Records, DeleteStart(d, locals),
             UNCHANGED <<policy, meta, store>>
      PROVE  Fresh
  BY <1>1 DEF DeleteStart, Goto, Records
<1>2. ASSUME DeleteSteps PROVE Kept \/ Fresh
  <2>1. CASE DeleteUserNext
    <3>1. PICK d \in txn.todo : DeleteStart(d, [txn EXCEPT !.todo = @ \ {d}])
      BY <2>1 DEF DeleteUserNext, Goto, Deleting
    <3>2. [txn EXCEPT !.todo = @ \ {d}] \in Records /\ d \in Devices
      BY DEF TypeInv, TypeOK, Records
    <3>3. UNCHANGED <<policy, meta, store>>
      BY <2>1 DEF DeleteUserNext
    <3> QED
      BY <1>1, <3>1, <3>2, <3>3
  <2>2. CASE ~DeleteUserNext
    BY <1>2, <2>2, DeleteFlow DEF Deleting
  <2> QED
    BY <2>1, <2>2
<1>3. ASSUME Begin PROVE Fresh
  <2>1. PICK d \in Devices, confirmed \in BOOLEAN : DeleteBegin(d, confirmed)
    <3>1. ASSUME NEW d \in Devices, CreateBegin(d) PROVE FALSE
      BY <3>1 DEF CreateBegin, Release, Goto, Deleting
    <3>2. ASSUME NEW d \in Devices, NEW x, ProtectBegin(d, x) PROVE FALSE
      BY <3>2 DEF ProtectBegin, Release, Goto, Deleting
    <3>3. ASSUME NEW d \in Devices, NEW x, SetDeletionProtected(d, x) PROVE FALSE
      BY <1>3, <3>3, BeginFlow DEF SetDeletionProtected, Deleting
    <3>4. ASSUME NEW u \in Users, DeleteUserBegin(u) \/ Pause(u) \/ Resume(u) \/ AccountBegin(u)
          PROVE  FALSE
      BY <3>4 DEF DeleteUserBegin, Pause, Resume, PauseBegin, AccountBegin, Abort, Release, Goto,
                  Deleting
    <3> QED
      BY <1>3, <3>1, <3>2, <3>3, <3>4 DEF Begin
  <2> DEFINE locals == [NoTxn EXCEPT !.kind = IF confirmed THEN "confirmed" ELSE "delete",
                                     !.user = Owner[d]]
  <2>2. DeleteStart(d, locals) /\ UNCHANGED <<policy, meta, store>>
    BY <2>1 DEF DeleteBegin
  <2>3. locals \in Records
    BY RecordsOfNoTxn DEF NoTxn, Records, Kinds
  <2> HIDE DEF locals
  <2> QED
    BY <1>1, <2>2, <2>3
<1> HIDE DEF Fresh
<1>4. ASSUME Web \/ Boot \/ UNCHANGED vars PROVE Kept
  BY <1>4, OutsideFlow DEF Deleting
<1>5. ~CreateSteps /\ ~PauseSteps /\ ~PolicySteps /\ ~StartSteps
  BY CreateFlow, PauseFlow, PolicyFlow, StartFlow DEF Creating, Deleting, Pausing
<1>6. Kept \/ Fresh
  BY <1>2, <1>3, <1>4, <1>5, NextGroups
<1> QED
  BY <1>6 DEF Fresh
\* The lock, or the saved flag, is still to be written, or was not.
LEMMA PolicyBegins ==
    ASSUME Halted, [Next]_vars, pc' \in Policing
    PROVE  \/ /\ pc \in Policing /\ txn' = txn
              /\ "committed" \notin Faults => UNCHANGED meta
              /\ pc' = "saveSafe" => /\ pc = "saveSafe" /\ UNCHANGED <<meta, nft>>
                                     /\ \/ UNCHANGED store
                                        \/ \E live \in SUBSET store.active :
                                              store' = [store EXCEPT !.live = live]
           \/ /\ txn'.old = IpsOf(SafeDevices(policy)) /\ UNCHANGED <<meta, store>>
              /\ pc' = "saveSafe" =>
                    \E d \in Devices, enabled \in BOOLEAN : ProtectBegin(d, enabled)
<1> DEFINE Kept == /\ pc \in Policing /\ txn' = txn
                   /\ "committed" \notin Faults => UNCHANGED meta
                   /\ pc' = "saveSafe" =>
                         /\ pc = "saveSafe" /\ UNCHANGED <<meta, nft>>
                         /\ \/ UNCHANGED store
                            \/ \E live \in SUBSET store.active :
                                  store' = [store EXCEPT !.live = live]
           Fresh == /\ txn'.old = IpsOf(SafeDevices(policy)) /\ UNCHANGED <<meta, store>>
                    /\ pc' = "saveSafe" =>
                          \E d \in Devices, enabled \in BOOLEAN : ProtectBegin(d, enabled)
<1>1. ASSUME PolicySteps PROVE Kept
  <2>1. /\ pc \in Policing /\ txn' = txn /\ pc' \in {"undoPolicy", "undoSafe"}
    BY <1>1, PolicyFlow DEF Policing
  <2>2. "committed" \notin Faults => UNCHANGED meta
    BY <1>1, <2>1 DEF PolicySteps, SavePolicy, UndoPolicy, SaveSafe, UndoSafe, MetaNotSaved,
       Release, Goto
  <2> QED
    BY <2>1, <2>2
<1>2. ASSUME Begin PROVE Fresh
  <2> DEFINE now == IpsOf(SafeDevices(policy))
  <2>1. ASSUME NEW d \in Devices, CreateBegin(d) PROVE FALSE
    BY <2>1 DEF CreateBegin, Release, Goto, Policing
  <2>2. ASSUME NEW d \in Devices, NEW x, DeleteBegin(d, x) PROVE FALSE
    BY <2>2 DEF DeleteBegin, DeleteStart, Goto, Policing
  <2>3. ASSUME NEW d \in Devices, NEW x, SetDeletionProtected(d, x) PROVE FALSE
    BY <1>2, <2>3, BeginFlow DEF SetDeletionProtected, Policing
  <2>4. ASSUME NEW u \in Users, DeleteUserBegin(u) \/ Pause(u) \/ Resume(u) PROVE FALSE
    BY <2>4 DEF DeleteUserBegin, Pause, Resume, PauseBegin, Abort, Release, Goto, Policing
  <2>5. ASSUME NEW d \in Devices, NEW x \in BOOLEAN, ProtectBegin(d, x) PROVE Fresh
    <3>1. txn'.old = now /\ UNCHANGED <<meta, store>>
      BY <2>5 DEF ProtectBegin, Release, Goto, NoTxn, Policing
    <3> QED
      BY <2>5, <3>1
  <2>6. ASSUME NEW u \in Users, AccountBegin(u) PROVE Fresh
    <3>1. txn'.old = now /\ UNCHANGED <<meta, store>> /\ pc' # "saveSafe"
      BY <2>6 DEF AccountBegin, Release, Goto, NoTxn, Policing
    <3> QED
      BY <3>1
  <2> HIDE DEF Fresh
  <2> QED
    BY <1>2, <2>1, <2>2, <2>3, <2>4, <2>5, <2>6 DEF Begin
<1>3. ASSUME Web \/ Boot \/ UNCHANGED vars PROVE Kept
  <2>1. UNCHANGED <<pc, txn>> /\ UNCHANGED meta
    BY <1>3, OutsideFlow DEF Policing
  <2>2. pc = "saveSafe" => UNCHANGED nft
    BY <1>3, <2>1, OutsideFlow
       DEF Boot, PanelStart, Bootstrap, WgQuickUp, PanelCrash, HostReboot, Halted
  <2> QED
    BY <1>3, <2>1, <2>2, OutsideFlow
<1> HIDE DEF Fresh, Kept
<1>4. ~CreateSteps /\ ~PauseSteps /\ ~DeleteSteps /\ ~StartSteps
  BY CreateFlow, PauseFlow, DeleteFlow, StartFlow DEF Creating, Deleting, Pausing, Policing
<1>5. Kept \/ Fresh
  BY <1>1, <1>2, <1>3, <1>4, NextGroups
<1> QED
  BY <1>5 DEF Kept, Fresh

\* A reconciliation comes before the first peer is enabled.
LEMMA ResumeBegins ==
    ASSUME Halted, [Next]_vars, pc' \in {"createResume", "resumeNext"}
    PROVE  /\ \/ nft' = IpsOf(SafeDevices(policy))
              \/ pc \in {"createResume", "resumeNext"} /\ UNCHANGED nft
           /\ ~SaveSafe
<1> DEFINE Goal == \/ nft' = IpsOf(SafeDevices(policy))
                   \/ pc \in {"createResume", "resumeNext"} /\ UNCHANGED nft
<1>1. ~SaveSafe
  BY DEF SaveSafe, Release, Goto
<1>2. ASSUME CreateSteps PROVE Goal
  BY <1>2 DEF CreateSteps, AddClientStep, CreateMeta, CreateSync, CreateResume, CreatePublish,
     RollbackRemove, RollbackMeta, RollbackSync, ReconcileSucceeds, Release, Goto
<1>3. ASSUME PauseSteps PROVE Goal
  BY <1>3 DEF PauseSteps, PausePeer, PauseConfirm, ResumeSync, ResumePeer, ResumeConfirm,
     RepauseEnd, ReconcileSucceeds, Abort, Release, Goto
<1>4. ASSUME Begin PROVE FALSE
  <2>1. ASSUME NEW d \in Devices, NEW x, SetDeletionProtected(d, x) PROVE FALSE
    BY <1>4, <2>1, BeginFlow DEF SetDeletionProtected
  <2>2. ASSUME NEW d \in Devices, NEW x, CreateBegin(d) \/ DeleteBegin(d, x) \/ ProtectBegin(d, x)
        PROVE FALSE
    BY <2>2 DEF CreateBegin, DeleteBegin, DeleteStart, ProtectBegin, Release, Goto
  <2>3. ASSUME NEW u \in Users, DeleteUserBegin(u) \/ Pause(u) \/ Resume(u) \/ AccountBegin(u)
        PROVE  FALSE
    BY <2>3 DEF DeleteUserBegin, Pause, Resume, PauseBegin, AccountBegin, Abort, Release, Goto
  <2> QED
    BY <1>4, <2>1, <2>2, <2>3 DEF Begin
<1>5. ASSUME Web \/ Boot \/ UNCHANGED vars PROVE Goal
  <2>1. UNCHANGED pc
    BY <1>5, OutsideFlow
  <2> QED
    BY <1>5, <2>1, OutsideFlow
       DEF Boot, PanelStart, Bootstrap, WgQuickUp, PanelCrash, HostReboot, Halted
<1>6. ~DeleteSteps /\ ~PolicySteps /\ ~StartSteps
  BY DeleteFlow, PolicyFlow, StartFlow DEF Deleting
<1> HIDE DEF Goal
<1>7. Goal
  BY <1>2, <1>3, <1>4, <1>5, <1>6, NextGroups
<1> QED
  BY <1>1, <1>7 DEF Goal

LEMMA NextOptIn ==
    ASSUME EnforcedInv, OptInInv, [Next]_vars, "unprotect" \notin Maintenance
    PROVE  OptInEnforced'
<1> SUFFICES ASSUME host' # "booting", NEW d \in Devices, Held(d)', meta'[d].safe, On(d)'
             PROVE  store'.conf[d].addr \in nft'
  BY DEF OptInEnforced, Held, On
<1>1. /\ AccountInv /\ AddressInv /\ LocalRecords /\ OptInEnforced /\ ResumesMarked
      /\ SavesMarked /\ UndoesMarked /\ DeletesMarked /\ Halted /\ DeletedGone
  BY AccountTypes DEF OptInInv, EnforcedInv, TransactionInv
<1>2. /\ Held(d) /\ store'.conf[d] = store.conf[d]
      /\ meta[d].safe \/ (SaveSafe /\ d = txn.dev)
  BY <1>1, MarkedFrom
<1>3. meta[d].present /\ ~meta[d].revoked /\ HasConf(store, d)
  BY <1>2 DEF Held
<1>4. CASE SaveSafe /\ d = txn.dev
  BY <1>1, <1>2, <1>3, <1>4 DEF SaveSafe, SavesMarked
<1>5. CASE meta[d].safe
  <2>1. CASE nft' = nft /\ (host' = host \/ host = "dnsReady")
    <3>1. CASE On(d)
      BY <1>1, <1>2, <1>3, <1>5, <2>1, <3>1 DEF OptInEnforced
    <3>2. CASE pc = "addClient" /\ d = txn.dev
      <4>1. ~NoMeta.present
        BY DEF NoMeta
      <4> QED
        BY <1>1, <1>3, <3>2, <4>1 DEF LocalRecords, CreationRecord, Creating
    <3>3. CASE pc \in {"createResume", "resumeNext"}
      BY <1>1, <1>2, <1>5, <2>1, <3>3 DEF ResumesMarked, Marked
    <3> QED
      BY <1>1, <3>1, <3>2, <3>3, RoutesFrom
  <2>2. CASE \E D : nft' = IpsOf(D) /\ SafeDevices(policy) \subseteq D
    <3>1. PICK D : nft' = IpsOf(D) /\ SafeDevices(policy) \subseteq D
      BY <2>2
    <3>2. d \in D
      BY <1>3, <1>5, <3>1 DEF SafeDevices, Effective
    <3> QED
      BY <1>2, <1>3, <3>1, <3>2, IpsMark
  <2>3. CASE \/ pc = "deleteSync" /\ nft' = txn.new
             \/ pc = "deleteUndo" /\ nft' = txn.old
    BY <1>1, <1>2, <1>3, <1>5, <2>3 DEF DeletesMarked, Deleting, DeletedGone, Marked
  <2>4. CASE pc \in {"undoPolicy", "undoSafe"} /\ nft' = txn.old
    BY <1>1, <1>2, <1>5, <2>4 DEF UndoesMarked, Policing, Marked
  <2> QED
    BY <2>1, <2>2, <2>3, <2>4, FirewallSteps
<1> QED
  BY <1>2, <1>4, <1>5

LEMMA NextResumesMarked ==
    ASSUME EnforcedInv, OptInInv, [Next]_vars PROVE ResumesMarked'
<1> SUFFICES ASSUME pc' \in {"createResume", "resumeNext"},
                    NEW d \in Devices, Held(d)', meta'[d].safe
             PROVE  store'.conf[d].addr \in nft'
  BY DEF ResumesMarked, Marked
<1>1. AccountInv /\ ResumesMarked /\ Halted
  BY DEF OptInInv, EnforcedInv
<1>2. Held(d) /\ store'.conf[d] = store.conf[d] /\ meta[d].safe
  BY <1>1, MarkedFrom, ResumeBegins
<1>3. CASE nft' = IpsOf(SafeDevices(policy))
  BY <1>2, <1>3, SafeIpsMark DEF Marked
<1>4. CASE pc \in {"createResume", "resumeNext"} /\ UNCHANGED nft
  BY <1>1, <1>2, <1>4 DEF ResumesMarked, Marked
<1> QED
  BY <1>1, <1>3, <1>4, ResumeBegins

LEMMA NextSavesMarked ==
    ASSUME EnforcedInv, OptInInv, [Next]_vars, "unprotect" \notin Maintenance PROVE SavesMarked'
<1> SUFFICES ASSUME pc' = "saveSafe", HasConf(store', txn'.dev)
             PROVE  store'.conf[txn'.dev].addr \in nft'
  BY DEF SavesMarked, HasConf
<1>1. SavesMarked /\ Halted /\ store \in Stores
  BY DEF OptInInv, EnforcedInv, TypeInv, TypeOK
<1>2. ASSUME NEW d \in Devices, NEW enabled \in BOOLEAN, ProtectBegin(d, enabled)
      PROVE  store'.conf[txn'.dev].addr \in nft'
  <2>1. txn'.dev = d /\ UNCHANGED store /\ enabled
    BY <1>2 DEF ProtectBegin, Release, Goto, NoTxn
  <2>2. nft' = IpsOf(SafeDevices(policy) \cup {d})
    BY <1>2, <2>1 DEF ProtectBegin, Release, Goto
  <2> QED
    BY <2>1, <2>2, IpsMark
<1>3. CASE pc = "saveSafe" /\ UNCHANGED <<txn, nft>> /\ store'.conf = store.conf
  BY <1>1, <1>3 DEF SavesMarked, HasConf
<1>4. \A live : [store EXCEPT !.live = live].conf = store.conf
  BY <1>1 DEF Stores
<1> QED
  BY <1>1, <1>2, <1>3, <1>4, PolicyBegins DEF Policing

LEMMA NextUndoesMarked ==
    ASSUME EnforcedInv, OptInInv, [Next]_vars, "committed" \notin Faults PROVE UndoesMarked'
<1> SUFFICES ASSUME pc' \in Policing, NEW d \in Devices, Held(d)', meta'[d].safe
             PROVE  store'.conf[d].addr \in txn'.old
  BY DEF UndoesMarked, Marked
<1>1. AccountInv /\ UndoesMarked /\ Halted
  BY DEF OptInInv, EnforcedInv
<1>2. UNCHANGED meta
  BY <1>1, PolicyBegins
<1>3. Held(d) /\ store'.conf[d] = store.conf[d] /\ meta[d].safe
  BY <1>1, <1>2, MarkedFrom
<1>4. CASE txn'.old = IpsOf(SafeDevices(policy))
  BY <1>3, <1>4, SafeIpsMark DEF Marked
<1>5. CASE pc \in Policing /\ txn' = txn
  BY <1>1, <1>3, <1>5 DEF UndoesMarked, Marked
<1> QED
  BY <1>1, <1>4, <1>5, PolicyBegins

LEMMA NextDeletesMarked ==
    ASSUME EnforcedInv, OptInInv, [Next]_vars PROVE DeletesMarked'
<1> SUFFICES ASSUME pc' \in Deleting, NEW d \in Devices, d # txn'.dev, Held(d)', meta'[d].safe
             PROVE  store'.conf[d].addr \in txn'.old /\ store'.conf[d].addr \in txn'.new
  BY DEF DeletesMarked, Marked
<1>1. AccountInv /\ TypeInv /\ DeletesMarked
  BY DEF OptInInv, EnforcedInv
<1>2. ~SaveSafe
  BY DEF SaveSafe, Release, Goto, Deleting
<1>3. Held(d) /\ store'.conf[d] = store.conf[d] /\ meta[d].safe
  BY <1>1, <1>2, MarkedFrom
<1>4. CASE pc \in Deleting /\ txn' = txn
  BY <1>1, <1>3, <1>4 DEF DeletesMarked, Marked
<1>5. ASSUME NEW e \in Devices, txn'.dev = e, txn'.old = IpsOf(SafeDevices(policy)),
             txn'.new = IpsOf(SafeDevices(policy) \ {e})
      PROVE  store'.conf[d].addr \in txn'.old /\ store'.conf[d].addr \in txn'.new
  BY <1>3, <1>5, SafeIpsMark, RestIpsMark DEF Marked
<1> QED
  BY <1>1, <1>4, <1>5, DeletionBegins

LEMMA OptInInit == Init => OptInInv
<1> SUFFICES ASSUME Init PROVE OptInInv
  OBVIOUS
<1>1. AccountInv
  BY AccountInit
<1>2. \A d \in Devices : ~meta[d].present
  BY DEF Init, NoMeta
<1> QED
  BY <1>1, <1>2 DEF Init, OptInInv, OptInEnforced, ResumesMarked, SavesMarked, UndoesMarked,
                    DeletesMarked, Deleting, Policing

LEMMA OptInNext ==
    ASSUME "committed" \notin Faults, "unprotect" \notin Maintenance
    PROVE  EnforcedInv /\ OptInInv /\ [Next]_vars => OptInInv'
BY AccountNext, NextOptIn, NextResumesMarked, NextSavesMarked, NextUndoesMarked,
   NextDeletesMarked DEF OptInInv

\* A profile marked safe by itself never has a route that nftables does not
\* match (wireguard.py:360-362), in a panel whose operator lifts no lock, and
\* as long as no write of device_meta.json raises after it took effect: with
\* such a write it fails, as the run life_optin_committed shows.
THEOREM OptInStaysEnforced ==
    ASSUME "committed" \notin Faults, "unprotect" \notin Maintenance
    PROVE  Spec => []OptInEnforced
<1>1. OptInInv => OptInEnforced
  BY DEF OptInInv
<1>2. EnforcedInv /\ OptInInv /\ [Next]_vars => (EnforcedInv /\ OptInInv)'
  BY EnforcedNext, OptInNext
<1> QED
  BY <1>1, <1>2, EnforcedInit, OptInInit, PTL DEF Spec
-----------------------------------------------------------------------------
(* Envelopes *)

\* The account does not show as active.
Excused(u) == users[u].paused \/ ~users[u].approved

Hidden == \A d \in Devices : Visible(d) /\ Boxed(store, d) => Excused(Owner[d])

\* A pause or a resume works on the profiles of an account that is recorded
\* as paused.
PauseOwner ==
    pc \in Pausing =>
        LET u == users[txn.user]
        IN  u.present /\ u.approved /\ u.paused /\ txn.todo \subseteq Owned(txn.user)

\* A resume has yet to visit what is in an envelope.
ResumeLoop ==
    pc \in {"resumeSync", "resumeNext"} =>
        \A d \in Owned(txn.user) : Visible(d) /\ Boxed(store, d) => d \in txn.todo

\* A profile about to be shown was added, or resumed, by its own creation.
CreatedPlain ==
    (pc = "createMeta" /\ Owner[txn.dev] \notin policy) \/ pc = "createPublish"
        => ~Boxed(store, txn.dev)

EnvelopeInv == AccountInv /\ Hidden /\ PauseOwner /\ ResumeLoop /\ CreatedPlain

\* Only add-client.sh makes a configuration.
LEMMA ConfFrom ==
    ASSUME AccountInv, [Next]_vars, NEW d \in Devices, HasConf(store', d)
    PROVE  HasConf(store, d) \/ (AddClientStep /\ d = txn.dev)
<1>1. TypeInv /\ store \in Stores /\ (pc \in DeviceSteps => txn.dev \in Devices)
  BY AccountTypes
<1>2. CASE store'.conf[d] \in {store.conf[d], NoPeer}
  BY <1>2 DEF HasConf
<1>3. CASE pc \in Creating /\ d = txn.dev
  <2>1. CASE CreateResume
    BY <1>1, <1>2, <2>1, ResumeClientChanges DEF CreateResume, Permitted, DeviceSteps
  <2>2. CASE RollbackRemove
    BY <1>1, <1>2, <2>2, RemoveClientChanges DEF RollbackRemove, Permitted, DeviceSteps
  <2>3. CASE CreateSteps
    BY <1>2, <1>3, <2>1, <2>2, <2>3 DEF CreateSteps, CreateMeta, CreateSync, CreatePublish,
       RollbackMeta, RollbackSync
  <2>4. CASE Web \/ Boot \/ UNCHANGED vars
    <3>1. \A live : [store EXCEPT !.live = live].conf = store.conf
      BY <1>1 DEF Stores
    <3> QED
      BY <1>2, <2>4, <3>1, OutsideFlow
  <2>5. ~DeleteSteps /\ ~PauseSteps /\ ~PolicySteps /\ ~StartSteps /\ ~Begin
    BY <1>3, DeleteFlow, PauseFlow, PolicyFlow, StartFlow, BeginFlow
       DEF Creating, Deleting, Pausing, Policing, Starting
  <2> QED
    BY <2>3, <2>4, <2>5, NextGroups
<1> QED
  BY <1>2, <1>3, ComesFromCreation

\* While add-client.sh runs, the profile it makes has no record yet, or a
\* revoked one.
LEMMA AddingIncomplete ==
    ASSUME RecordInv, AddClientStep PROVE ~Complete(meta[txn.dev]) /\ UNCHANGED meta
<1>1. /\ meta[txn.dev] = txn.prev
      /\ txn.prev = NoMeta \/ txn.prev.revoked
  BY DEF AddClientStep, RecordInv, LocalRecords, CreationRecord, Creating
<1>2. ~NoMeta.present
  BY DEF NoMeta
<1> QED
  BY <1>1, <1>2 DEF Complete, AddClientStep

\* A profile becomes visible when its creation publishes it.
LEMMA VisibleFrom ==
    ASSUME EnforcedInv, AccountInv, [Next]_vars, NEW d \in Devices, Visible(d)'
    PROVE  Visible(d) \/ Published(d)
<1>1. RecordInv
  BY DEF AccountInv
<1>2. HasConf(store', d) /\ Complete(meta'[d])
  BY DEF Visible, Listed, Complete
<1>3. Complete(meta[d]) \/ Published(d)
  BY <1>1, <1>2, MetaSteps
<1>4. HasConf(store, d) \/ (AddClientStep /\ d = txn.dev)
  BY <1>2, ConfFrom
<1>5. ~(AddClientStep /\ d = txn.dev)
  BY <1>1, <1>2, AddingIncomplete
<1> QED
  BY <1>3, <1>4, <1>5 DEF Visible, Listed, Complete

\* What can put a peer into an envelope, and what takes it out.
LEMMA BoxesFrom ==
    ASSUME AccountInv, [Next]_vars, NEW d \in Devices, Boxed(store', d)
    PROVE  \/ /\ Boxed(store, d)
              /\ AddClientStep /\ pc' = "createMeta" /\ Owner[txn.dev] \notin policy
                     => d # txn.dev
              /\ CreateResume /\ pc' = "createPublish" => d # txn.dev
              /\ ResumePeer /\ pc' = "resumeNext" => d \in txn'.todo \/ d \notin txn.todo
           \/ AddClientStep /\ d = txn.dev /\ Owner[d] \in policy
           \/ PausePeer /\ d \in txn.todo
<1>1. TypeInv /\ store \in Stores /\ Distinct(store, InfraAddrs)
      /\ (pc \in DeviceSteps => txn.dev \in Devices)
      /\ txn.todo \subseteq Devices /\ txn \in Records
  BY AccountTypes DEF AddressInv
<1> DEFINE Plain == /\ Boxed(store, d)
                    /\ AddClientStep /\ pc' = "createMeta" /\ Owner[txn.dev] \notin policy
                           => d # txn.dev
                    /\ CreateResume /\ pc' = "createPublish" => d # txn.dev
                    /\ ResumePeer /\ pc' = "resumeNext" => d \in txn'.todo \/ d \notin txn.todo
           Goal == \/ Plain
                   \/ AddClientStep /\ d = txn.dev /\ Owner[d] \in policy
                   \/ PausePeer /\ d \in txn.todo
<1>2. /\ AddClientStep => pc = "addClient"
      /\ CreateResume => pc = "createResume"
      /\ ResumePeer => pc = "resumeNext"
  BY DEF AddClientStep, CreateResume, ResumePeer
<1>3. ASSUME Boxed(store, d), pc \notin {"addClient", "createResume", "resumeNext"} PROVE Goal
  BY <1>2, <1>3
<1>4. ASSUME AddClientStep PROVE Goal
  <2>1. txn.dev \in Devices /\ pc = "addClient"
    BY <1>1, <1>4 DEF AddClientStep, DeviceSteps
  <2>2. CASE Owner[txn.dev] \in policy
    <3>1. PICK r \in PrepareClient(store, txn.dev, InfraAddrs) : store' = r.store
      BY <1>4, <2>2 DEF AddClientStep, Permitted
    <3>2. d # txn.dev => Boxed(store, d)
      BY <1>1, <2>1, <3>1, PrepareClientBoxes
    <3> QED
      BY <1>2, <1>4, <2>1, <2>2, <3>2
  <2>3. CASE Owner[txn.dev] \notin policy
    <3>1. PICK r \in AddClient(store, txn.dev, InfraAddrs, host) :
                  store' = r.store /\ (pc' = "createMeta" => r.ok)
      BY <1>4, <2>3 DEF AddClientStep, Permitted, Release, Goto
    <3>2. Boxed(store, d) /\ (r.ok => d # txn.dev)
      BY <1>1, <2>1, <3>1, AddClientBoxes
    <3> QED
      BY <1>2, <2>1, <3>1, <3>2
  <2> QED
    BY <2>2, <2>3
<1>5. ASSUME CreateResume PROVE Goal
  <2>1. txn.dev \in Devices /\ pc = "createResume"
    BY <1>1, <1>5 DEF CreateResume, DeviceSteps
  <2>2. PICK r \in ResumeClient(store, txn.dev, host) :
                store' = r.store /\ (pc' = "createPublish" => r.ok)
    BY <1>5 DEF CreateResume, Permitted, Goto
  <2>3. Boxed(store, d) /\ (r.ok => d # txn.dev)
    BY <1>1, <2>1, <2>2, ResumeClientBoxes
  <2> QED
    BY <1>2, <2>1, <2>2, <2>3
<1>6. ASSUME ResumePeer PROVE Goal
  <2>1. PICK e \in txn.todo : \E r \in ResumeClient(store, e, host) :
                /\ store' = r.store
                /\ pc' = "resumeNext" => r.ok /\ txn' = [txn EXCEPT !.todo = @ \ {e}]
    BY <1>6 DEF ResumePeer, Permitted, Goto
  <2> PICK r \in ResumeClient(store, e, host) :
                /\ store' = r.store
                /\ pc' = "resumeNext" => r.ok /\ txn' = [txn EXCEPT !.todo = @ \ {e}]
    BY <2>1
  <2>2. Boxed(store, d) /\ (r.ok => d # e)
    BY <1>1, <2>1, ResumeClientBoxes
  <2>3. pc' = "resumeNext" => txn'.todo = txn.todo \ {e}
    BY <1>1, <2>1 DEF Records
  <2>4. pc = "resumeNext"
    BY <1>6 DEF ResumePeer
  <2> QED
    BY <1>2, <2>1, <2>2, <2>3, <2>4
<1>7. ASSUME RollbackRemove \/ DeleteRemove PROVE Goal
  <2>1. pc \in {"rollbackRemove", "removeClient"}
    BY <1>7 DEF RollbackRemove, DeleteRemove
  <2>2. PICK r \in RemoveClient(store, txn.dev, host) : store' = r.store
    BY <1>7 DEF RollbackRemove, DeleteRemove, Permitted
  <2>3. txn.dev \in Devices
    BY <1>1, <2>1 DEF DeviceSteps
  <2> QED
    BY <1>1, <1>3, <2>1, <2>2, <2>3, RemoveClientBoxes
<1>8. ASSUME PausePeer PROVE Goal
  <2>1. PICK e \in txn.todo : \E r \in PauseClient(store, e, host) : store' = r.store
    BY <1>8 DEF PausePeer, Permitted
  <2> PICK r \in PauseClient(store, e, host) : store' = r.store
    BY <2>1
  <2>2. d # e => Boxed(store, d)
    BY <1>1, <2>1, PauseClientBoxes
  <2>3. pc \in {"pauseNext", "repause"}
    BY <1>8 DEF PausePeer
  <2> QED
    BY <1>3, <1>8, <2>1, <2>2, <2>3
<1>9. ASSUME Web \/ Boot \/ UNCHANGED vars PROVE Goal
  <2>1. \A live : /\ [store EXCEPT !.live = live].conf = store.conf
                  /\ [store EXCEPT !.live = live].paused = store.paused
    BY <1>1 DEF Stores
  <2>2. Boxed(store, d)
    BY <1>9, <2>1, OutsideFlow DEF Boxed, HasConf
  <2>3. pc' = pc \/ pc' \in {"idle", "migrate"}
    BY <1>9, OutsideFlow
  <2>4. UNCHANGED txn \/ pc' \in {"idle", "migrate"}
    BY <1>9, OutsideFlow
  <2> QED
    BY <1>2, <2>2, <2>3, <2>4
<1>10. ASSUME UNCHANGED store,
              \/ CreateSteps /\ ~AddClientStep /\ ~CreateResume
              \/ PauseSteps /\ ~ResumePeer
              \/ DeleteSteps \/ PolicySteps \/ StartSteps \/ Begin
       PROVE  Goal
  <2>1. Boxed(store, d)
    BY <1>10
  <2>2. ~AddClientStep /\ ~CreateResume /\ ~ResumePeer
    BY <1>2, <1>10, CreateFlow, DeleteFlow, PauseFlow, PolicyFlow, StartFlow, BeginFlow
       DEF Creating, Deleting, Pausing, Policing, Starting
  <2> QED
    BY <2>1, <2>2
<1> HIDE DEF Goal
<1>11. ASSUME CreateSteps PROVE Goal
  BY <1>4, <1>5, <1>7, <1>10, <1>11
     DEF CreateSteps, CreateMeta, CreateSync, CreatePublish, RollbackMeta, RollbackSync
<1>12. ASSUME DeleteSteps PROVE Goal
  BY <1>7, <1>10, <1>12
     DEF DeleteSteps, MarkRevoked, DeleteSync, DropMeta, DeleteUndo, DeleteUserNext, DeleteUserEnd
<1>13. ASSUME PauseSteps PROVE Goal
  BY <1>6, <1>8, <1>10, <1>13 DEF PauseSteps, PauseConfirm, ResumeSync, ResumeConfirm, RepauseEnd
<1>14. ASSUME PolicySteps \/ StartSteps \/ Begin PROVE Goal
  BY <1>10, <1>14, PolicyFlow, StartFlow, BeginFlow
<1>15. Goal
  BY <1>9, <1>11, <1>12, <1>13, <1>14, NextGroups
<1> QED
  BY <1>15 DEF Goal

\* No profile of an active account is left in an envelope: what envelopes it
\* has recorded the pause before, and the record goes after the last envelope.
LEMMA NextHidden ==
    ASSUME EnforcedInv, EnvelopeInv, [Next]_vars PROVE Hidden'
<1> SUFFICES ASSUME NEW d \in Devices, Visible(d)', Boxed(store', d)
             PROVE  Excused(Owner[d])'
  BY DEF Hidden, Boxed, HasConf
<1>1. /\ AccountInv /\ Hidden /\ PauseOwner /\ ResumeLoop /\ CreatedPlain /\ RecordInv
      /\ Accountable
  BY DEF EnvelopeInv, AccountInv
<1>2. PICK u \in Users : u = Owner[d]
  OBVIOUS
<1>3. CASE Visible(d) /\ Boxed(store, d)
  <2>1. Excused(u) /\ Answers(u)
    BY <1>1, <1>2, <1>3 DEF Hidden, Accountable, InService, Visible, Listed
  <2>2. ~(ResumeConfirm /\ u = txn.user)
    BY <1>1, <1>2, <1>3 DEF ResumeConfirm, ResumeLoop, Owned
  <2>3. users'[u].paused \/ ~users'[u].approved
    BY <1>1, <2>1, <2>2, AccountSteps DEF PauseKept, Excused, Answers
  <2> QED
    BY <1>2, <2>3 DEF Excused
<1>4. CASE ~Visible(d)
  <2>1. Published(d)
    BY <1>1, <1>4, VisibleFrom
  <2> QED
    BY <1>1, <2>1 DEF Published, CreateMeta, CreatePublish, CreatedPlain
<1>5. CASE Visible(d) /\ ~Boxed(store, d)
  <2>1. \/ AddClientStep /\ d = txn.dev
        \/ PausePeer /\ d \in txn.todo
    BY <1>1, <1>5, BoxesFrom
  <2>2. ~(AddClientStep /\ d = txn.dev)
    BY <1>1, <1>5, AddingIncomplete DEF Visible, Listed, Complete
  <2>3. PausePeer /\ d \in txn.todo
    BY <2>1, <2>2
  <2>4. users[txn.user].paused /\ d \in Owned(txn.user) /\ UNCHANGED users
    BY <1>1, <2>3 DEF PauseOwner, PausePeer, Pausing
  <2> QED
    BY <2>4 DEF Excused, Owned
<1> QED
  BY <1>3, <1>4, <1>5

\* Only a request or the startup begins a pause, and it records it first.
LEMMA PauseBegins ==
    ASSUME AccountInv, NEW u \in Users, NEW resume \in BOOLEAN, NEW locals \in Records,
           PauseBegin(u, resume, locals), pc' \in Pausing
    PROVE  /\ users'[u].present /\ users'[u].approved /\ users'[u].paused
           /\ txn'.user = u /\ txn'.todo = PausableDevices(u)
<1>1. users \in [Users -> UserRecords]
  BY AccountTypes
<1> DEFINE next == [locals EXCEPT !.kind = IF resume THEN "resume" ELSE "pause",
                                  !.user = u, !.todo = PausableDevices(u)]
<1>2. /\ users' = RecordPause(u) /\ txn' = next
      /\ users[u].present /\ users[u].approved
  BY DEF PauseBegin, CanPause, Abort, Goto, Pausing
<1>3. next.user = u /\ next.todo = PausableDevices(u)
  BY DEF Records
<1> HIDE DEF next
<1>4. users'[u] = [users[u] EXCEPT !.paused = TRUE, !.pending = TRUE]
  BY <1>1, <1>2 DEF RecordPause, Checkpoint
<1>5. users'[u].present /\ users'[u].approved /\ users'[u].paused
  BY <1>1, <1>2, <1>4 DEF UserRecords
<1> QED
  BY <1>2, <1>3, <1>5

\* What the steps into the loops of a pause or a resume are.
LEMMA PausingFrom ==
    ASSUME AccountInv, [Next]_vars, pc' \in Pausing
    PROVE  \/ PauseSteps
           \/ \E u \in Users, resume \in BOOLEAN, locals \in Records :
                 PauseBegin(u, resume, locals)
           \/ (Web \/ Boot \/ UNCHANGED vars) /\ UNCHANGED <<pc, txn>>
<1>1. NoTxn \in Records
  BY DEF Records, NoTxn, Kinds, NoMeta, MetaRecords
<1>2. CASE Begin
  <2>1. \A d \in Devices, x \in BOOLEAN :
           ~DeleteBegin(d, x) /\ ~ProtectBegin(d, x) /\ ~SetDeletionProtected(d, x)
    BY DEF DeleteBegin, DeleteStart, ProtectBegin, SetDeletionProtected, Serving, Release, Goto,
           Pausing
  <2>2. \A d \in Devices : ~CreateBegin(d)
    BY DEF CreateBegin, Release, Goto, Pausing
  <2>3. \A u \in Users : ~DeleteUserBegin(u) /\ ~AccountBegin(u)
    BY DEF DeleteUserBegin, AccountBegin, Release, Goto, Pausing
  <2>4. PICK u \in Users : Pause(u) \/ Resume(u)
    BY <1>2, <2>1, <2>2, <2>3 DEF Begin
  <2> QED
    BY <1>1, <2>4 DEF Pause, Resume
<1>3. CASE StartSteps
  <2>1. ~Migrate /\ ~StartPausesEnd /\ ~StartDns
    BY DEF Migrate, StartPausesEnd, StartDns, Abort, Goto, Pausing
  <2>2. PICK u \in txn.queue : PauseBegin(u, FALSE, [NoTxn EXCEPT !.queue = txn.queue \ {u}])
    BY <1>3, <2>1 DEF StartSteps, StartPause, Abort, Pausing
  <2>3. txn.queue \subseteq Users
    BY AccountTypes DEF Records
  <2>4. [NoTxn EXCEPT !.queue = txn.queue \ {u}] \in Records
    BY <1>1, <2>3 DEF Records
  <2> QED
    BY <2>2, <2>3, <2>4
<1>4. CASE Web \/ Boot \/ UNCHANGED vars
  BY <1>4, OutsideFlow DEF Pausing
<1>5. ~CreateSteps /\ ~DeleteSteps /\ ~PolicySteps
  BY CreateFlow, DeleteFlow, PolicyFlow DEF Pausing, Creating, Deleting
<1> QED
  BY <1>2, <1>3, <1>4, <1>5, NextGroups

\* A rollback of a resume starts under the recorded pause, because a write
\* that raised did not take effect.
LEMMA NextPauseOwner ==
    ASSUME EnvelopeInv, [Next]_vars, "committed" \notin Faults PROVE PauseOwner'
<1> SUFFICES ASSUME pc' \in Pausing PROVE PauseOwner'
  BY DEF PauseOwner
<1>1. /\ AccountInv /\ PauseOwner /\ users \in [Users -> UserRecords] /\ txn \in Records
      /\ pc \in UserSteps => txn.user \in Users
  BY AccountTypes DEF EnvelopeInv
<1> DEFINE Goal == LET v == users'[txn'.user]
                   IN  v.present /\ v.approved /\ v.paused /\ txn'.todo \subseteq Owned(txn'.user)
<1>2. \A v : PausableDevices(v) \subseteq Owned(v)
  BY DEF PausableDevices
<1>3. ASSUME PauseSteps PROVE Goal
  <2>1. pc \in Pausing
    BY <1>3, PauseFlow
  <2>2. UNCHANGED users
    BY <1>3 DEF PauseSteps, PausePeer, PauseConfirm, ResumeSync, ResumePeer, ResumeConfirm,
       RepauseEnd, Abort, Release, Goto, Pausing, UsersNotSaved
  <2>3. txn'.user = txn.user
    BY <1>1, <1>3 DEF PauseSteps, PausePeer, PauseConfirm, ResumeSync, ResumePeer, ResumeConfirm,
       RepauseEnd, Abort, Release, Goto, Pausing, Records
  <2>4. txn'.todo \subseteq txn.todo \/ txn'.todo = PausableDevices(txn.user)
    <3>1. CASE PausePeer
      BY <1>1, <3>1 DEF PausePeer, Goto, Records
    <3>2. CASE PauseConfirm \/ ResumeConfirm \/ RepauseEnd
      BY <1>1, <1>3, <3>2 DEF PauseConfirm, ResumeConfirm, RepauseEnd, Abort, Release, Goto,
         Pausing, Records
    <3>3. CASE ResumeSync \/ ResumePeer
      BY <1>1, <3>3 DEF ResumeSync, ResumePeer, Goto, Records
    <3> QED
      BY <1>3, <3>1, <3>2, <3>3 DEF PauseSteps
  <2> QED
    BY <1>1, <1>2, <2>1, <2>2, <2>3, <2>4 DEF PauseOwner
<1>4. ASSUME NEW u \in Users, NEW resume \in BOOLEAN, NEW locals \in Records,
             PauseBegin(u, resume, locals)
      PROVE  Goal
  BY <1>1, <1>2, <1>4, PauseBegins
<1>5. ASSUME Web \/ Boot \/ UNCHANGED vars, UNCHANGED <<pc, txn>> PROVE Goal
  <2>1. pc \in Pausing
    BY <1>5
  <2>2. txn.user \in Users
    BY <1>1, <2>1 DEF Pausing, UserSteps, Steps
  <2>3. PICK u \in Users : u = txn.user
    BY <2>2
  <2>4. /\ users[u].present /\ users[u].approved /\ users[u].paused
        /\ txn.todo \subseteq Owned(u)
    BY <1>1, <2>1, <2>3 DEF PauseOwner
  <2>5. ~ResumeConfirm
    BY <1>5, <2>1, <1>1 DEF ResumeConfirm, Release, Goto, Pausing
  <2>6. users'[u].present /\ users'[u].approved /\ users'[u].paused
    BY <1>1, <2>1, <2>4, <2>5, AccountSteps DEF PauseKept, Pausing
  <2> QED
    BY <1>5, <2>3, <2>4, <2>6
<1>6. Goal
  BY <1>1, <1>3, <1>4, <1>5, PausingFrom
<1> QED
  BY <1>6 DEF PauseOwner

\* A resume ends its loop with every peer out of its envelope.
LEMMA NextResumeLoop ==
    ASSUME EnforcedInv, EnvelopeInv, [Next]_vars PROVE ResumeLoop'
<1> SUFFICES ASSUME pc' \in {"resumeSync", "resumeNext"},
                    NEW d \in Devices, Owner[d] = txn'.user, Visible(d)', Boxed(store', d)
             PROVE  d \in txn'.todo
  BY DEF ResumeLoop, Owned, Boxed, HasConf
<1>1. AccountInv /\ ResumeLoop /\ txn \in Records
  BY AccountTypes DEF EnvelopeInv
<1>2. CASE PauseSteps
  <2>1. /\ ResumeSync \/ ResumePeer
        /\ pc \in {"resumeSync", "resumeNext"} /\ UNCHANGED meta
        /\ ResumeSync => txn' = txn
        /\ ResumePeer => pc' = "resumeNext"
    BY <1>2 DEF PauseSteps, PausePeer, PauseConfirm, ResumeSync, ResumePeer, ResumeConfirm,
       RepauseEnd, Abort, Release, Goto
  <2>2. txn'.user = txn.user
    BY <1>1, <2>1 DEF ResumePeer, Goto, Records
  <2>3. ~AddClientStep /\ ~PausePeer
    BY <2>1 DEF AddClientStep, PausePeer
  <2>4. Boxed(store, d) /\ (ResumePeer => d \in txn'.todo \/ d \notin txn.todo)
    BY <1>1, <2>1, <2>3, BoxesFrom
  <2>5. Visible(d)
    BY <2>1, <2>4 DEF Visible, Listed, Boxed
  <2>6. d \in txn.todo
    BY <1>1, <2>1, <2>2, <2>4, <2>5 DEF ResumeLoop, Owned
  <2> QED
    BY <2>1, <2>4, <2>6
<1>3. ASSUME NEW u \in Users, NEW resume \in BOOLEAN, NEW locals \in Records,
             PauseBegin(u, resume, locals)
      PROVE  d \in txn'.todo
  <2>1. txn'.user = u /\ txn'.todo = PausableDevices(u) /\ UNCHANGED <<meta, store>>
    BY <1>1, <1>3, PauseBegins DEF Pausing, PauseBegin
  <2> QED
    BY <2>1 DEF PausableDevices, Owned, Visible, Listed
<1>4. CASE (Web \/ Boot \/ UNCHANGED vars) /\ UNCHANGED <<pc, txn>>
  <2>1. UNCHANGED meta
    BY <1>4, OutsideFlow
  <2>2. ~AddClientStep /\ ~PausePeer
    <3>1. AddClientStep => pc # pc'
      BY DEF AddClientStep, Release, Goto
    <3>2. PausePeer => pc' \notin {"resumeSync", "resumeNext"}
      BY DEF PausePeer, Goto
    <3> QED
      BY <1>4, <3>1, <3>2
  <2>3. Boxed(store, d)
    BY <1>1, <2>2, BoxesFrom
  <2>4. Visible(d)
    BY <2>1, <2>3 DEF Visible, Listed, Boxed
  <2> QED
    BY <1>1, <1>4, <2>3, <2>4 DEF ResumeLoop, Owned
<1> QED
  BY <1>1, <1>2, <1>3, <1>4, PausingFrom DEF Pausing

LEMMA NextCreatedPlain ==
    ASSUME EnvelopeInv, [Next]_vars PROVE CreatedPlain'
<1> SUFFICES ASSUME pc' \in {"createMeta", "createPublish"},
                    pc' = "createMeta" => Owner[txn'.dev] \notin policy',
                    Boxed(store', txn'.dev)
             PROVE  FALSE
  BY DEF CreatedPlain, Boxed, HasConf
<1>1. AccountInv /\ CreatedPlain /\ (pc \in DeviceSteps => txn.dev \in Devices)
  BY AccountTypes DEF EnvelopeInv
<1>2. pc \in Creating /\ txn' = txn
  <2>1. \A d \in Devices : ~CreateBegin(d)
    BY DEF CreateBegin, Release, Goto
  <2> QED
    BY <2>1, CreationBegins DEF Creating
<1>3. txn.dev \in Devices
  BY <1>1, <1>2 DEF Creating, DeviceSteps
<1>4. UNCHANGED policy
  <2>1. ~PolicySteps
    BY <1>2, PolicyFlow DEF Creating, Policing
  <2> QED
    BY <2>1, CreateFlow, DeleteFlow, PauseFlow, StartFlow, BeginFlow, OutsideFlow, NextGroups
<1>5. \/ pc' = pc
      \/ AddClientStep /\ pc' = "createMeta"
      \/ CreateResume /\ pc' = "createPublish"
  <2>1. CreateSteps => \/ AddClientStep /\ pc' = "createMeta"
                       \/ CreateResume /\ pc' = "createPublish"
    BY DEF CreateSteps, AddClientStep, CreateMeta, CreateSync, CreateResume, CreatePublish,
       RollbackRemove, RollbackMeta, RollbackSync, Release, Goto
  <2>2. Web \/ Boot \/ UNCHANGED vars => pc' = pc
    BY OutsideFlow
  <2>3. ~DeleteSteps /\ ~PauseSteps /\ ~PolicySteps /\ ~StartSteps /\ ~Begin
    BY <1>2, DeleteFlow, PauseFlow, PolicyFlow, StartFlow, BeginFlow
       DEF Creating, Deleting, Pausing, Policing, Starting
  <2> QED
    BY <2>1, <2>2, <2>3, NextGroups
<1>6. ~(AddClientStep /\ Owner[txn.dev] \in policy) /\ ~PausePeer
  <2>1. AddClientStep => pc' = "createMeta"
    BY DEF AddClientStep, Release, Goto
  <2>2. ~PausePeer
    BY <1>2 DEF PausePeer, Creating
  <2> QED
    BY <1>2, <1>4, <2>1, <2>2
<1>7. Boxed(store, txn.dev) /\ pc' = pc
  BY <1>1, <1>2, <1>3, <1>4, <1>5, <1>6, BoxesFrom
<1> QED
  BY <1>1, <1>2, <1>4, <1>7 DEF CreatedPlain

LEMMA EnvelopeInit == Init => EnvelopeInv
<1> SUFFICES ASSUME Init PROVE EnvelopeInv
  OBVIOUS
<1>1. AccountInv
  BY AccountInit
<1>2. \A d \in Devices : ~HasConf(store, d)
  BY DEF Init, EmptyStore, HasConf
<1> QED
  BY <1>1, <1>2 DEF Init, EnvelopeInv, Hidden, PauseOwner, ResumeLoop, CreatedPlain, Pausing,
                    Boxed, Visible, Listed

\* An account shown as active has no visible profile left in an envelope
\* (access._pause_peers and the rollback of a resume), as long as no write of
\* users.json raises after it took effect: such a write would record a resume
\* that is then rolled back.
THEOREM EnvelopesStayRecorded ==
    ASSUME "committed" \notin Faults
    PROVE  Spec => []UnpausedNotEnveloped
<1>1. EnvelopeInv => UnpausedNotEnveloped
  BY DEF EnvelopeInv, Hidden, Excused, UnpausedNotEnveloped, Visible, Listed, Boxed
<1>2. EnforcedInv /\ EnvelopeInv /\ [Next]_vars => (EnforcedInv /\ EnvelopeInv)'
  BY EnforcedNext, AccountNext, NextHidden, NextPauseOwner, NextResumeLoop, NextCreatedPlain
     DEF EnvelopeInv
<1> QED
  BY <1>1, <1>2, EnforcedInit, EnvelopeInit, PTL DEF Spec
=============================================================================
