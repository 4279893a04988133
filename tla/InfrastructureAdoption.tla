----------------------- MODULE InfrastructureAdoption -----------------------
(***************************************************************************)
(* infrastructure.adopt_infrastructure_peer: an operator moves a personal  *)
(* profile into the root-managed registry while WireGuard keeps running.   *)
(*                                                                         *)
(* The move touches five files in a fixed order under a checkpoint file;   *)
(* an exception leaves the checkpoint, and the same command resumes from   *)
(* it.  The process may be killed, and the host may reboot, at any step.   *)
(* The boot unit applies the firewall before wg0, and refuses while a      *)
(* checkpoint exists.                                                      *)
(*                                                                         *)
(* Simplifications.  A peer stands for its name, key, address and owner    *)
(* (DeviceLifecycle!AddressesUnique).  Every write is synced with its      *)
(* directory before the next.  The panel is stopped, as the command        *)
(* requires.  traffic.json is compared like account_policy.json, so only   *)
(* the latter is kept.  A refused request changes nothing: no action.      *)
(***************************************************************************)
EXTENDS Integers, FiniteSets

CONSTANTS Peers,
          Faults,     \* which of FaultKinds happen
          MaxFaults   \* how many

\* "raise": a step fails with an exception.  "kill": the process is killed.
\* "firewall": safe-dns.sh fails, before or after the kernel took the batch.
\* "edit": an operator protects an owner or a profile between two attempts.
FaultKinds == {"raise", "kill", "reboot", "firewall", "edit"}

ASSUME FaultsAssumption == Faults \subseteq FaultKinds /\ MaxFaults \in Nat

VARIABLES
    registry,    \* infrastructure_peers.json: the claimed peers
    target,      \* complete files of the infrastructure directory
    temporary,   \* its ".adoption-" files: "none", "open" (being written),
                 \* "stray" (left by a killed process) or "both"
    source,      \* files of the personal client directory
    meta,        \* device_meta.json: per peer, the kind of its entry
    locked,      \* account_policy.json: the peers whose owner is locked
    active,      \* peers with a plain block in wg0.conf
    checkpoint,  \* infrastructure_adoption.json, or NoCheckpoint
    matched,     \* addresses matched by the managed nftables set
    host,        \* "booting" -> "dnsReady" -> "up" (wg0 exists)
    pc, peer,    \* the running attempt: its step and subject
    faults       \* failures so far

files == <<registry, target, temporary, source, meta, locked, active, checkpoint>>
vars == <<files, matched, host, pc, peer, faults>>

Entries == {"absent", "plain", "safe", "provisioning", "revoked"}
NoCheckpoint == [name |-> "none"]
Nobody == "nobody"
Steps == {"idle", "confirm", "select", "checkpoint", "verify", "replace",
          "claim", "release", "unlink", "check", "finish"}

-----------------------------------------------------------------------------
(* What the code reads *)

\* load_infrastructure_peers: the directory listing is the registry.
Loadable == target = registry /\ temporary = "none"

\* assert_infrastructure_ready
Ready == checkpoint = NoCheckpoint /\ Loadable

\* effective_safe_internet of a personal entry
Effective(p) == meta[p] = "safe" \/ (p \in locked /\ meta[p] # "absent")

\* _safe_dns_ips.  Mutant: claimed addresses are left to the metadata.
SelectedPersonal == {p \in Peers \ registry : meta[p] # "revoked" /\ Effective(p)}
SelectedByMetadata == {p \in Peers : meta[p] # "revoked" /\ Effective(p)}
Selected == registry \cup SelectedPersonal

\* reconcile_safe_dns up to the helper: it raises on an unreadable registry
\* and on a safe profile without a client file.
Resolved == Loadable /\ Selected \ registry \subseteq source

Unowned == {p \in source \ registry : meta[p] \in {"absent", "revoked"}}

Fault(kind) == kind \in Faults /\ faults < MaxFaults /\ faults' = faults + 1

\* reconcile_safe_dns succeeds, or raises
Enforced == Resolved /\ matched' = Selected /\ UNCHANGED faults
NotEnforced == \/ ~Resolved /\ UNCHANGED <<matched, faults>>
               \/ Resolved /\ Fault("firewall") /\ matched' \in {matched, Selected}

-----------------------------------------------------------------------------
(* One attempt *)

Goto(step) == pc' = step /\ peer' = peer
Leave == pc' = "idle" /\ peer' = Nobody
Start(p, step) == pc = "idle" /\ pc' = step /\ peer' = p

Resume ==
    /\ checkpoint # NoCheckpoint
    /\ Start(checkpoint.name, "verify")
    /\ UNCHANGED <<files, matched, host, faults>>

\* The guards on an active, personally owned and protected source profile.
Adoptable(p) ==
    /\ p \in source \cap active
    /\ meta[p] \in {"plain", "safe"}
    /\ Effective(p)

Adopt(p) ==
    /\ Ready
    /\ p \notin registry /\ Adoptable(p)
    /\ Start(p, "select")
    /\ UNCHANGED <<files, matched, host, faults>>

\* The peer is claimed and has no conflicting personal state.
AdoptAgain(p) ==
    /\ Ready
    /\ p \in registry /\ p \notin source /\ meta[p] = "absent"
    /\ Start(p, "confirm")
    /\ UNCHANGED <<files, matched, host, faults>>

Confirm ==
    /\ pc = "confirm"
    /\ Enforced \/ NotEnforced
    /\ Leave
    /\ UNCHANGED <<files, host>>

Select ==
    /\ pc = "select"
    /\ \/ Enforced /\ peer \in Selected /\ Goto("checkpoint")
       \/ Enforced /\ peer \notin Selected /\ Leave
       \/ NotEnforced /\ Leave
    /\ UNCHANGED <<files, host>>

\* Mutant: the checkpoint does not say what must stay unchanged.
CheckpointWithoutPolicy ==
    /\ pc = "checkpoint"
    /\ checkpoint' = [name |-> peer, entry |-> meta[peer], safe |-> Selected]
    /\ Goto("verify")
    /\ UNCHANGED <<registry, target, temporary, source, meta, locked, active>>
    /\ UNCHANGED <<matched, host, faults>>

WriteCheckpoint ==
    /\ pc = "checkpoint"
    /\ checkpoint' = [name |-> peer, entry |-> meta[peer], safe |-> Selected, locked |-> locked]
    /\ Goto("verify")
    /\ UNCHANGED <<registry, target, temporary, source, meta, locked, active>>
    /\ UNCHANGED <<matched, host, faults>>

\* Unchanged policy and one active block; then the copy starts unless the
\* target is complete already.
Unchanged == locked = checkpoint.locked

\* Mutant: a peer found in the registry is taken for adopted.
VerifyClaimed ==
    /\ pc = "verify"
    /\ IF peer \in registry THEN Goto("check") ELSE Goto("replace")
    /\ UNCHANGED <<files, matched, host, faults>>

Verify ==
    /\ pc = "verify"
    /\ LET sound == Unchanged /\ peer \in active
       IN  \/ sound /\ peer \in target /\ Goto("claim") /\ UNCHANGED temporary
           \/ /\ sound /\ peer \notin target /\ peer \in source
              /\ temporary' = IF temporary = "stray" THEN "both" ELSE "open"
              /\ Goto("replace")
           \/ /\ ~sound \/ peer \notin target \cup source
              /\ Leave /\ UNCHANGED temporary
    /\ UNCHANGED <<registry, target, source, meta, locked, active, checkpoint>>
    /\ UNCHANGED <<matched, host, faults>>

\* _copy_config's finally: the attempt's own temporary file goes.
Closed(t) == IF t \in {"stray", "both"} THEN "stray" ELSE "none"

\* Mutant: the copy is synced but never renamed.
ReplaceForgotten ==
    /\ pc = "replace"
    /\ temporary' = Closed(temporary)
    /\ Goto("claim")
    /\ UNCHANGED <<registry, target, source, meta, locked, active, checkpoint>>
    /\ UNCHANGED <<matched, host, faults>>

Replace ==
    /\ pc = "replace"
    /\ target' = target \cup {peer} /\ temporary' = Closed(temporary)
    /\ Goto("claim")
    /\ UNCHANGED <<registry, source, meta, locked, active, checkpoint>>
    /\ UNCHANGED <<matched, host, faults>>

\* Mutant: the personal authority goes before the claim is written.
ClaimAfterRelease ==
    /\ pc = "claim"
    /\ meta' = [meta EXCEPT ![peer] = "absent"]
    /\ Goto("release")
    /\ UNCHANGED <<registry, target, temporary, source, locked, active, checkpoint>>
    /\ UNCHANGED <<matched, host, faults>>

Claim ==
    /\ pc = "claim"
    /\ registry' = registry \cup {peer}
    /\ Goto("release")
    /\ UNCHANGED <<target, temporary, source, meta, locked, active, checkpoint>>
    /\ UNCHANGED <<matched, host, faults>>

\* Mutant: the entry must still be there.
ReleaseOnce ==
    /\ pc = "release"
    /\ \/ /\ meta[peer] = checkpoint.entry
          /\ meta' = [meta EXCEPT ![peer] = "absent"] /\ Goto("unlink")
       \/ meta[peer] # checkpoint.entry /\ UNCHANGED meta /\ Leave
    /\ UNCHANGED <<registry, target, temporary, source, locked, active, checkpoint>>
    /\ UNCHANGED <<matched, host, faults>>

Release ==
    /\ pc = "release"
    /\ \/ /\ meta[peer] \in {"absent", checkpoint.entry}
          /\ meta' = [meta EXCEPT ![peer] = "absent"] /\ Goto("unlink")
       \/ meta[peer] \notin {"absent", checkpoint.entry} /\ UNCHANGED meta /\ Leave
    /\ UNCHANGED <<registry, target, temporary, source, locked, active, checkpoint>>
    /\ UNCHANGED <<matched, host, faults>>

UnlinkSource ==
    /\ pc = "unlink"
    /\ source' = source \ {peer}
    /\ Goto("check")
    /\ UNCHANGED <<registry, target, temporary, meta, locked, active, checkpoint>>
    /\ UNCHANGED <<matched, host, faults>>

Check ==
    /\ pc = "check"
    /\ \/ Enforced /\ Selected = checkpoint.safe /\ Unchanged /\ Goto("finish")
       \/ Enforced /\ ~(Selected = checkpoint.safe /\ Unchanged) /\ Leave
       \/ NotEnforced /\ Leave
    /\ UNCHANGED <<files, host>>

Finish ==
    /\ pc = "finish"
    /\ checkpoint' = NoCheckpoint
    /\ Leave
    /\ UNCHANGED <<registry, target, temporary, source, meta, locked, active>>
    /\ UNCHANGED <<matched, host, faults>>

-----------------------------------------------------------------------------
(* What interrupts it *)

\* Any step may raise, before its effect or, as the next step, after it.
Raise ==
    /\ pc # "idle" /\ Fault("raise")
    /\ temporary' = Closed(temporary)
    /\ Leave
    /\ UNCHANGED <<registry, target, source, meta, locked, active, checkpoint, matched, host>>

Killed == IF temporary = "none" THEN "none" ELSE "stray"

Kill ==
    /\ pc # "idle" /\ Fault("kill")
    /\ temporary' = Killed
    /\ Leave
    /\ UNCHANGED <<registry, target, source, meta, locked, active, checkpoint, matched, host>>

HostReboot ==
    /\ Fault("reboot")
    /\ temporary' = Killed /\ matched' = {} /\ host' = "booting"
    /\ Leave
    /\ UNCHANGED <<registry, target, source, meta, locked, active, checkpoint>>

\* dns_bootstrap, in a process of its own, then wg-quick.
Bootstrap ==
    /\ host = "booting"
    /\ Ready /\ Unowned = {}
    /\ \/ Enforced /\ host' = "dnsReady"
       \/ NotEnforced /\ UNCHANGED host
    /\ UNCHANGED <<files, pc, peer>>

WgQuickUp ==
    /\ host = "dnsReady"
    /\ host' = "up"
    /\ UNCHANGED <<files, matched, pc, peer, faults>>

\* Between two attempts an operator protects an owner or a profile over SSH.
Edit(p) ==
    /\ pc = "idle" /\ Fault("edit")
    /\ \/ p \notin locked /\ locked' = locked \cup {p} /\ UNCHANGED meta
       \/ meta[p] = "plain" /\ meta' = [meta EXCEPT ![p] = "safe"] /\ UNCHANGED locked
    /\ UNCHANGED <<registry, target, temporary, source, active, checkpoint>>
    /\ UNCHANGED <<matched, host, pc, peer>>

-----------------------------------------------------------------------------
\* A running host on which the panel has been serving.
Init ==
    /\ registry \in SUBSET Peers /\ target = registry /\ temporary = "none"
    /\ source = Peers \ registry
    /\ meta \in [Peers -> Entries]
    /\ \A p \in Peers : p \in registry <=> meta[p] = "absent"
    /\ \A p \in Peers : meta[p] # "revoked"
    /\ locked \in SUBSET Peers /\ active \in SUBSET Peers
    /\ checkpoint = NoCheckpoint
    /\ matched = Selected /\ host = "up"
    /\ pc = "idle" /\ peer = Nobody /\ faults = 0

AttemptStep == \/ Confirm \/ Select \/ WriteCheckpoint \/ Verify \/ Replace
               \/ Claim \/ Release \/ UnlinkSource \/ Check \/ Finish

Interruption == Raise \/ Kill \/ HostReboot \/ \E p \in Peers : Edit(p)

Next ==
    \/ AttemptStep \/ Resume
    \/ \E p \in Peers : Adopt(p) \/ AdoptAgain(p)
    \/ Bootstrap \/ WgQuickUp
    \/ Interruption

Spec == Init /\ [][Next]_vars

\* The command ends, and the operator repeats it with the same identity.
FairSpec == Spec /\ WF_vars(AttemptStep) /\ WF_vars(Resume)

-----------------------------------------------------------------------------
(* Properties *)

Checkpoints == [name : Peers, entry : Entries, safe : SUBSET Peers, locked : SUBSET Peers]

\* Every variable holds what its file, the kernel or the process can hold.
TypeOK ==
    /\ registry \subseteq Peers /\ target \subseteq Peers /\ source \subseteq Peers
    /\ locked \subseteq Peers /\ active \subseteq Peers /\ matched \subseteq Peers
    /\ temporary \in {"none", "open", "stray", "both"}
    /\ meta \in [Peers -> Entries]
    /\ checkpoint \in Checkpoints \cup {NoCheckpoint}
    /\ host \in {"booting", "dnsReady", "up"}
    /\ pc \in Steps /\ peer \in Peers \cup {Nobody}
    /\ pc # "idle" => peer \in Peers
    /\ faults \in 0..MaxFaults

\* Whatever interrupts the move, a protected peer is at every moment claimed
\* in the registry or protected by its personal entry (the comment before the
\* metadata is popped).
Secured(p) == p \in registry \/ (meta[p] # "revoked" /\ Effective(p))
ProtectionNeverDropped == [][\A p \in Peers : Secured(p) => Secured(p)']_vars

\* The only copy of the private key is never lost: a claimed peer's file is in
\* the infrastructure directory, and the peer of a checkpoint has a complete
\* file in one of the two directories.
ConfigKept ==
    /\ registry \subseteq target
    /\ checkpoint # NoCheckpoint => checkpoint.name \in target \cup source

\* Once wg0 is up every claimed address is matched, through interrupted moves,
\* reboots and failed reconciliations.
ClaimsMatched == host = "up" => registry \subseteq matched

\* The panel and the helpers work again only when the move is complete: no
\* claimed peer has personal metadata or a personal file left.
ReadyIsClean ==
    Ready => \A p \in registry : p \notin source /\ meta[p] = "absent"

\* What the checkpoint recorded still holds.
Undisturbed == /\ Unchanged /\ Selected = checkpoint.safe
               /\ meta[checkpoint.name] \in {"absent", checkpoint.entry}

\* A move that was interrupted, but not by killing it while it copied the
\* file, completes when the operator repeats it, unless protection changed.
ResumeCompletes ==
    /\ checkpoint # NoCheckpoint /\ temporary # "stray"
    ~> \/ checkpoint = NoCheckpoint
       \/ temporary \in {"stray", "both"}
       \/ ~Undisturbed

\* "A durable checkpoint is retained on every incomplete move; retry with the
\* same identity": retrying completes the move.
RetryCompletes == checkpoint # NoCheckpoint ~> checkpoint = NoCheckpoint
=============================================================================
