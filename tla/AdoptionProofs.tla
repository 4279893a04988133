--------------------------- MODULE AdoptionProofs ---------------------------
(***************************************************************************)
(* Proofs about InfrastructureAdoption, for any set of peers and any       *)
(* number of failures.                                                     *)
(*                                                                         *)
(* Inv is the inductive invariant.  Progress says what each step of an     *)
(* attempt may rely on, OthersClean that only the peer of a checkpoint can *)
(* be half moved, and Covered that it stays protected and matched.         *)
(***************************************************************************)
EXTENDS InfrastructureAdoption, TLAPS

Moving == {"verify", "replace", "claim", "release", "unlink", "check", "finish"}

Progress ==
    /\ pc \in Moving => checkpoint # NoCheckpoint /\ checkpoint.name = peer
    /\ pc \in {"confirm", "select", "checkpoint"} => checkpoint = NoCheckpoint
    /\ pc \in {"select", "checkpoint"} => peer \in source
    /\ pc \in {"claim", "release", "unlink", "check", "finish"} => peer \in target
    /\ pc \in {"release", "unlink", "check", "finish"} => peer \in registry
    /\ pc \in {"unlink", "check", "finish"} => meta[peer] = "absent"
    /\ pc \in {"check", "finish"} => peer \notin source

OthersClean ==
    \A p \in registry : \/ checkpoint # NoCheckpoint /\ p = checkpoint.name
                        \/ p \notin source /\ meta[p] = "absent"

Covered ==
    /\ checkpoint # NoCheckpoint => Secured(checkpoint.name)
    /\ pc = "checkpoint" => Secured(peer) /\ peer \in matched
    /\ host # "booting" =>
          /\ registry \subseteq matched
          /\ checkpoint # NoCheckpoint => checkpoint.name \in matched

Inv == TypeOK /\ ConfigKept /\ Progress /\ OthersClean /\ Covered

-----------------------------------------------------------------------------
(* About the operators *)

LEMMA SelectedIsSecured ==
    ASSUME NEW p \in Peers
    PROVE  p \in Selected <=> Secured(p)
BY DEF Selected, SelectedPersonal, Secured

LEMMA CheckpointIsReal ==
    ASSUME NEW c \in Checkpoints
    PROVE  c # NoCheckpoint
<1>1. "safe" \in DOMAIN c
  BY DEF Checkpoints
<1>2. "safe" \notin DOMAIN NoCheckpoint
  BY DEF NoCheckpoint
<1> QED BY <1>1, <1>2

\* A reconciliation that succeeds or fails matches what is selected or what
\* was matched before.
LEMMA Reconciled ==
    ASSUME TypeOK, Enforced \/ NotEnforced
    PROVE  /\ matched' \in {matched, Selected}
           /\ matched' \subseteq Peers
           /\ faults' \in 0..MaxFaults
<1>1. Selected \subseteq Peers
  BY DEF TypeOK, Selected, SelectedPersonal
<1> QED
  BY <1>1, FaultsAssumption DEF TypeOK, Enforced, NotEnforced, Fault

-----------------------------------------------------------------------------
(* The steps *)

LEMMA InitInv == Init => Inv
<1> SUFFICES ASSUME Init PROVE Inv
  OBVIOUS
<1>1. TypeOK
  BY FaultsAssumption DEF Init, TypeOK, Selected, SelectedPersonal, Steps
<1>2. ConfigKept
  BY DEF Init, ConfigKept
<1>3. Progress
  BY DEF Init, Progress, Moving
<1>4. OthersClean
  BY DEF Init, OthersClean
<1>5. Covered
  BY DEF Init, Covered, Selected
<1> QED BY <1>1, <1>2, <1>3, <1>4, <1>5 DEF Inv

\* An attempt begins.
LEMMA BeginKeeps ==
    ASSUME Inv, Resume \/ \E p \in Peers : Adopt(p) \/ AdoptAgain(p)
    PROVE  Inv'
<1> USE DEF Inv, files
<1>1. CASE Resume
  <2>1. checkpoint.name \in Peers
    BY <1>1 DEF Resume, TypeOK, Checkpoints
  <2> QED
    BY <1>1, <2>1 DEF Resume, Start, TypeOK, ConfigKept, Progress, OthersClean, Covered,
                      Secured, Effective, Moving, Steps
<1>2. ASSUME NEW p \in Peers, Adopt(p) PROVE Inv'
  BY <1>2 DEF Adopt, Adoptable, Ready, Start, TypeOK, ConfigKept, Progress, OthersClean,
              Covered, Secured, Effective, Moving, Steps
<1>3. ASSUME NEW p \in Peers, AdoptAgain(p) PROVE Inv'
  BY <1>3 DEF AdoptAgain, Ready, Start, TypeOK, ConfigKept, Progress, OthersClean,
              Covered, Secured, Effective, Moving, Steps
<1> QED BY <1>1, <1>2, <1>3

\* The steps that reconcile the firewall.
LEMMA ReconcilingKeeps ==
    ASSUME Inv, Confirm \/ Select \/ Check \/ Bootstrap
    PROVE  Inv'
<1> USE DEF Inv, files
<1>1. UNCHANGED files
  BY DEF Confirm, Select, Check, Bootstrap
<1>2. Enforced \/ NotEnforced
  BY DEF Confirm, Select, Check, Bootstrap
<1>3. /\ matched' \in {matched, Selected}
      /\ matched' \subseteq Peers
      /\ faults' \in 0..MaxFaults
  BY <1>2, Reconciled
<1>4. TypeOK'
  BY <1>1, <1>3 DEF TypeOK, Confirm, Select, Check, Bootstrap, Goto, Leave, Steps
<1>5. ConfigKept'
  BY <1>1 DEF ConfigKept
<1>6. Progress'
  BY <1>1 DEF Progress, Moving, Confirm, Select, Check, Bootstrap, Goto, Leave
<1>7. OthersClean'
  BY <1>1 DEF OthersClean
<1>8. \A p \in Peers : Secured(p)' <=> Secured(p)
  BY <1>1 DEF Secured, Effective
<1>9. (checkpoint # NoCheckpoint => Secured(checkpoint.name))'
  BY <1>1 DEF Covered, Secured, Effective
<1>10. (pc = "checkpoint" => Secured(peer) /\ peer \in matched)'
  <2>1. CASE Select
    <3> SUFFICES ASSUME pc' = "checkpoint" PROVE Secured(peer)' /\ peer' \in matched'
      OBVIOUS
    <3>1. Enforced /\ peer \in Selected /\ peer' = peer
      BY <2>1 DEF Select, Leave, Goto
    <3>2. peer \in Peers
      BY <2>1 DEF Select, TypeOK
    <3> QED
      BY <1>1, <3>1, <3>2, SelectedIsSecured DEF Enforced, Secured, Effective
  <2>2. CASE Bootstrap
    <3> SUFFICES ASSUME pc = "checkpoint" PROVE Secured(peer)' /\ peer' \in matched'
      BY <2>2 DEF Bootstrap
    <3>1. peer \in Peers /\ Secured(peer) /\ peer \in matched /\ peer' = peer
      BY <2>2 DEF Bootstrap, TypeOK, Covered
    <3> QED
      BY <1>1, <1>3, <3>1, SelectedIsSecured DEF Secured, Effective
  <2>3. CASE Confirm \/ Check
    BY <2>3 DEF Confirm, Check, Leave, Goto
  <2> QED BY <2>1, <2>2, <2>3
<1>11. (host # "booting" =>
          /\ registry \subseteq matched
          /\ checkpoint # NoCheckpoint => checkpoint.name \in matched)'
  <2> SUFFICES ASSUME host' # "booting"
               PROVE  /\ registry \subseteq matched'
                      /\ checkpoint # NoCheckpoint => checkpoint.name \in matched'
    BY <1>1
  <2>1. registry \subseteq Selected
    BY DEF Selected
  <2>2. checkpoint # NoCheckpoint => checkpoint.name \in Selected
    BY SelectedIsSecured DEF Covered, TypeOK, Checkpoints
  <2>3. CASE host # "booting"
    BY <1>3, <2>1, <2>2, <2>3 DEF Covered
  <2>4. CASE host = "booting"
    <3>1. matched' = Selected
      BY <2>4 DEF Confirm, Select, Check, Bootstrap, Enforced
    <3> QED BY <2>1, <2>2, <3>1
  <2> QED BY <2>3, <2>4
<1> QED
  BY <1>4, <1>5, <1>6, <1>7, <1>9, <1>10, <1>11 DEF Covered

LEMMA CheckpointKeeps ==
    ASSUME Inv, WriteCheckpoint
    PROVE  Inv'
<1> USE DEF Inv
<1>1. peer \in Peers /\ Selected \subseteq Peers
  BY DEF WriteCheckpoint, TypeOK, Selected, SelectedPersonal
<1>2. checkpoint' \in Checkpoints
  BY <1>1 DEF WriteCheckpoint, TypeOK, Checkpoints
<1>3. checkpoint' # NoCheckpoint /\ checkpoint'.name = peer
  BY <1>2, CheckpointIsReal DEF WriteCheckpoint
<1>4. TypeOK'
  BY <1>1, <1>2 DEF WriteCheckpoint, TypeOK, Goto, Steps
<1>5. ConfigKept' /\ Progress'
  BY <1>3 DEF WriteCheckpoint, ConfigKept, Progress, Moving, Goto
<1>6. OthersClean'
  BY <1>3 DEF WriteCheckpoint, OthersClean, Progress
<1>7. Covered'
  BY <1>3 DEF WriteCheckpoint, Covered, Secured, Effective, Goto
<1> QED BY <1>4, <1>5, <1>6, <1>7

\* The steps that move files, in order.
LEMMA MovingKeeps ==
    ASSUME Inv, Verify \/ Replace \/ Claim \/ Release \/ UnlinkSource \/ Finish
    PROVE  Inv'
<1> USE DEF Inv
<1>0. peer \in Peers /\ pc \in Moving
  BY DEF Verify, Replace, Claim, Release, UnlinkSource, Finish, TypeOK, Moving
<1>a. checkpoint # NoCheckpoint /\ checkpoint.name = peer
  BY <1>0 DEF Progress
<1>1. CASE Verify
  BY <1>0, <1>a, <1>1 DEF Verify, Goto, Leave, TypeOK, ConfigKept, Progress, OthersClean,
              Covered, Secured, Effective, Moving, Steps
<1>2. CASE Replace
  BY <1>0, <1>a, <1>2 DEF Replace, Closed, Goto, TypeOK, ConfigKept, Progress, OthersClean,
              Covered, Secured, Effective, Moving, Steps
<1>3. CASE Claim
  BY <1>0, <1>a, <1>3 DEF Claim, Goto, TypeOK, ConfigKept, Progress, OthersClean,
              Covered, Secured, Effective, Moving, Steps
<1>4. CASE Release
  <2>1. peer \in registry
    BY <1>4 DEF Release, Progress
  <2>2. TypeOK'
    BY <1>0, <1>4 DEF Release, Goto, Leave, TypeOK, Entries, Steps
  <2>3. ConfigKept' /\ Progress' /\ OthersClean'
    BY <1>0, <1>a, <1>4, <2>1 DEF Release, Goto, Leave, TypeOK, ConfigKept, Progress,
              OthersClean, Moving
  <2>4. Covered'
    BY <1>0, <1>a, <1>4, <2>1 DEF Release, Goto, Leave, Covered, Secured
  <2> QED BY <2>2, <2>3, <2>4
<1>5. CASE UnlinkSource
  BY <1>0, <1>a, <1>5 DEF UnlinkSource, Goto, TypeOK, ConfigKept, Progress, OthersClean,
              Covered, Secured, Effective, Moving, Steps
<1>6. CASE Finish
  BY <1>0, <1>a, <1>6 DEF Finish, Leave, TypeOK, ConfigKept, Progress, OthersClean,
              Covered, Secured, Effective, Moving, Steps
<1> QED BY <1>1, <1>2, <1>3, <1>4, <1>5, <1>6

\* What interrupts an attempt, and what happens between two.
LEMMA InterruptionKeeps ==
    ASSUME Inv, Interruption \/ WgQuickUp
    PROVE  Inv'
<1> USE DEF Inv
<1>1. CASE Raise \/ Kill
  <2>1. faults' \in 0..MaxFaults
    BY <1>1, FaultsAssumption DEF Raise, Kill, Fault, TypeOK
  <2> QED
    BY <1>1, <2>1 DEF Raise, Kill, Closed, Killed, Leave, TypeOK, ConfigKept, Progress,
              OthersClean, Covered, Secured, Effective, Moving, Steps
<1>2. CASE HostReboot
  <2>1. faults' \in 0..MaxFaults
    BY <1>2, FaultsAssumption DEF HostReboot, Fault, TypeOK
  <2> QED
    BY <1>2, <2>1 DEF HostReboot, Killed, Leave, TypeOK, ConfigKept, Progress,
              OthersClean, Covered, Secured, Effective, Moving, Steps
<1>3. ASSUME NEW p \in Peers, Edit(p) PROVE Inv'
  <2>1. faults' \in 0..MaxFaults
    BY <1>3, FaultsAssumption DEF Edit, Fault, TypeOK
  <2>2. TypeOK'
    BY <1>3, <2>1 DEF Edit, TypeOK, Entries
  <2>3. ConfigKept' /\ Progress'
    BY <1>3 DEF Edit, ConfigKept, Progress, Moving
  <2>4. OthersClean'
    BY <1>3 DEF Edit, OthersClean, TypeOK
  <2>5. Covered'
    BY <1>3 DEF Edit, Covered, Secured, Effective, TypeOK, Checkpoints
  <2> QED BY <2>2, <2>3, <2>4, <2>5
<1>4. CASE WgQuickUp
  BY <1>4 DEF WgQuickUp, files, TypeOK, ConfigKept, Progress, OthersClean, Covered,
              Secured, Effective
<1> QED BY <1>1, <1>2, <1>3, <1>4 DEF Interruption

LEMMA NextInv == Inv /\ [Next]_vars => Inv'
<1> SUFFICES ASSUME Inv, [Next]_vars PROVE Inv'
  OBVIOUS
<1>1. CASE UNCHANGED vars
  BY <1>1 DEF Inv, vars, files, TypeOK, ConfigKept, Progress, OthersClean, Covered,
              Secured, Effective
<1>2. CASE Next
  BY <1>2, BeginKeeps, ReconcilingKeeps, CheckpointKeeps, MovingKeeps, InterruptionKeeps
  DEF Next, AttemptStep
<1> QED BY <1>1, <1>2

-----------------------------------------------------------------------------
(* What holds of every adoption, interrupted anywhere, any number of times *)

THEOREM AdoptionInvariant == Spec => []Inv
<1>1. Inv /\ [Next]_vars => Inv'
  BY NextInv
<1> QED BY InitInv, <1>1, PTL DEF Spec

\* Every variable keeps its type.
THEOREM AdoptionTypes == Spec => []TypeOK
BY AdoptionInvariant, PTL DEF Inv

\* The configuration of a claimed or half moved peer always exists.
THEOREM ConfigAlwaysKept == Spec => []ConfigKept
BY AdoptionInvariant, PTL DEF Inv

\* With wg0 up every claimed address is matched by the firewall.
THEOREM ClaimsAlwaysMatched == Spec => []ClaimsMatched
<1>1. Inv => ClaimsMatched
  BY DEF Inv, Covered, ClaimsMatched
<1> QED BY AdoptionInvariant, <1>1, PTL

\* The panel never works beside a half moved peer.
THEOREM ReadyAlwaysClean == Spec => []ReadyIsClean
<1>1. Inv => ReadyIsClean
  BY DEF Inv, OthersClean, ReadyIsClean, Ready
<1> QED BY AdoptionInvariant, <1>1, PTL

\* No step, failure or crash takes the protection of a peer away: the personal
\* authority goes only after the claim is written.
THEOREM ProtectionKept == Spec => ProtectionNeverDropped
<1>1. Inv /\ [Next]_vars => [\A p \in Peers : Secured(p) => Secured(p)']_vars
  <2> SUFFICES ASSUME Inv, Next, NEW p \in Peers, Secured(p) PROVE Secured(p)'
    OBVIOUS
  <2> USE DEF Inv, Secured, Effective, files
  <2>1. CASE Release
    BY <2>1 DEF Release, Progress, TypeOK
  <2>2. CASE Claim
    BY <2>2 DEF Claim
  <2>3. CASE Confirm \/ Select \/ Check \/ Bootstrap \/ WgQuickUp
    BY <2>3 DEF Confirm, Select, Check, Bootstrap, WgQuickUp
  <2>4. CASE WriteCheckpoint \/ Verify \/ Replace \/ UnlinkSource \/ Finish
    BY <2>4 DEF WriteCheckpoint, Verify, Replace, UnlinkSource, Finish
  <2>5. CASE Resume \/ \E q \in Peers : Adopt(q) \/ AdoptAgain(q)
    BY <2>5 DEF Resume, Adopt, AdoptAgain
  <2>6. CASE Raise \/ Kill \/ HostReboot
    BY <2>6 DEF Raise, Kill, HostReboot
  <2>7. ASSUME NEW q \in Peers, Edit(q) PROVE Secured(p)'
    BY <2>7 DEF Edit, TypeOK
  <2> QED
    BY <2>1, <2>2, <2>3, <2>4, <2>5, <2>6, <2>7 DEF Next, AttemptStep, Interruption
<1> QED BY AdoptionInvariant, <1>1, PTL DEF Spec, ProtectionNeverDropped
=============================================================================
