--------------------------- MODULE DeviceCleanup ---------------------------
(***************************************************************************)
(* device_cleanup.cleanup_inactive_devices: every hour the panel compares  *)
(* each profile's WireGuard counters with the ones it saved, and deletes   *)
(* the profiles that showed no activity for longer than Period, watched    *)
(* without a gap longer than Gap.                                          *)
(*                                                                         *)
(* The kernel's counters move while a run is at work, and are zeroed when  *)
(* the host reboots or a peer is removed and added again.  A run holds the *)
(* lifecycle lock, so pauses, creations and deletions wait for it.         *)
(*                                                                         *)
(* Simplifications.  One tick stands for an hour or more; a run takes less *)
(* than one.  rx and tx are one counter.  Two profiles never share a key,  *)
(* and an owner's account id does not change under a profile.              *)
(***************************************************************************)
EXTENDS Integers

CONSTANTS Devices,
          Period,    \* INACTIVITY_PERIOD
          Gap,       \* MAX_OBSERVATION_GAP
          MaxTime,   \* bounds of the exploration: the clock,
          MaxBytes,  \* a counter,
          MaxKeys,   \* the profiles created under one name,
          Faults     \* and which of FaultKinds happen

\* "unknown": wg show, the generation or the profiles' files cannot be read.
\* "unsaved": writing the activity file raises, before or after its effect.  "helper": a removal fails.
\* "quickResume": an exclusion ends before any run has seen it.
FaultKinds == {"unknown", "unsaved", "helper", "crash", "reboot", "quickResume"}

ASSUME TimesAssumption == Period \in Nat /\ Gap \in Nat /\ MaxTime \in Nat
ASSUME BoundsAssumption == MaxBytes \in Nat /\ MaxKeys \in Nat \ {0} /\ Faults \subseteq FaultKinds

VARIABLES
    clock,
    boot,      \* the generation of wg0: boot id and interface index
    profile,   \* per name: the key of its profile (0: none) and its exclusion
    counter,   \* per name: the kernel's bytes and latest handshake
    saved,     \* device_activity.json
    pc,        \* the step of the running observation
    current,   \* its trackers, saved at its end and after each candidate
    queue,     \* its candidates, with the observation that condemned them
    dev,       \* the candidate being deleted
    restarted  \* ghost: when the period of each name had to start again

observer == <<pc, current, queue, dev>>
vars == <<clock, boot, profile, counter, saved, observer, restarted>>

Exclusions == {"none", "paused", "protected"}
Trackers == [key : 1..MaxKeys, boot : 1..MaxTime + 1, bytes : 0..MaxBytes, shake : 0..MaxTime,
             observed : 0..MaxTime, idle : 0..MaxTime]
NoTracker == [key |-> 0]
NoTrackers == [d \in Devices |-> NoTracker]
Nobody == "nobody"

-----------------------------------------------------------------------------
(* One device *)

\* _eligible.  Mutant: deletion protection is not looked at.
NotPaused(d) == profile[d].excluded # "paused"
Eligible(d) == profile[d].excluded = "none"

Observable(d) == profile[d].key # 0 /\ Eligible(d)

\* _observe
Observation(d) == [key |-> profile[d].key, boot |-> boot,
                   bytes |-> counter[d].bytes, shake |-> counter[d].shake]

\* _valid_previous
Valid(t, o) ==
    /\ t # NoTracker /\ t.key = o.key /\ t.boot = o.boot
    /\ clock - t.observed <= Gap
    /\ o.bytes >= t.bytes /\ o.shake >= t.shake

Active(t, o) == o.bytes > t.bytes \/ o.shake > t.shake

\* Mutant: a tracker is not dated, so nothing tells a gap.
TrackerUndated(o, idle) == [key |-> o.key, boot |-> o.boot, bytes |-> o.bytes,
                            shake |-> o.shake, idle |-> idle]

Tracker(o, idle) == [key |-> o.key, boot |-> o.boot, bytes |-> o.bytes, shake |-> o.shake,
                     observed |-> clock, idle |-> idle]

\* _advance
Advanced(t, o) ==
    IF Valid(t, o) /\ ~Active(t, o) THEN Tracker(o, t.idle) ELSE Tracker(o, clock)

Due(t, o) == Valid(t, o) /\ clock - Advanced(t, o).idle > Period

-----------------------------------------------------------------------------
(* One run *)

Idle == pc = "idle"
Leave == pc' = "idle" /\ current' = NoTrackers /\ queue' = NoTrackers /\ dev' = Nobody

\* Everything readable, nothing readable, or a profile of unknown identity
\* beside the readable ones: then nobody is a candidate.
Observe ==
    /\ Idle
    /\ \/ /\ current' = [d \in Devices |-> IF Observable(d)
                                           THEN Advanced(saved[d], Observation(d))
                                           ELSE NoTracker]
          /\ \/ queue' = [d \in Devices |-> IF Observable(d) /\ Due(saved[d], Observation(d))
                                            THEN Observation(d) ELSE NoTracker]
             \/ "unknown" \in Faults /\ queue' = NoTrackers
       \/ "unknown" \in Faults /\ current' = NoTrackers /\ queue' = NoTrackers
    /\ pc' = "save"
    /\ UNCHANGED <<clock, boot, profile, counter, saved, dev, restarted>>

\* Nothing is deleted unless the observation was saved; an interval nobody
\* observed starts a new period.
Save ==
    /\ pc = "save"
    /\ LET written == /\ saved' = current
                      /\ restarted' = [d \in Devices |->
                            IF current[d] = NoTracker THEN clock ELSE restarted[d]]
       IN  \/ written /\ pc' = "candidates" /\ UNCHANGED <<current, queue, dev>>
           \/ "unsaved" \in Faults /\ Leave /\ (written \/ UNCHANGED <<saved, restarted>>)
    /\ UNCHANGED <<clock, boot, profile, counter>>

\* The second look at a candidate.  Mutant: there is none.
RecheckSkipped ==
    /\ pc = "candidates"
    /\ \E d \in Devices : queue[d] # NoTracker /\ dev' = d
    /\ pc' = "delete"
    /\ UNCHANGED <<clock, boot, profile, counter, saved, current, queue, restarted>>

Recheck ==
    /\ pc = "candidates"
    /\ \E d \in Devices :
          /\ queue[d] # NoTracker
          /\ \/ /\ Observable(d) /\ Observation(d) = queue[d]
                /\ dev' = d /\ pc' = "delete" /\ UNCHANGED <<current, queue>>
             \/ /\ Observable(d) /\ Observation(d) # queue[d]
                /\ current' = [current EXCEPT ![d] = Tracker(Observation(d), clock)]
                /\ queue' = [queue EXCEPT ![d] = NoTracker]
                /\ pc' = "saveOne" /\ UNCHANGED dev
             \/ /\ "unknown" \in Faults
                /\ current' = [current EXCEPT ![d] = NoTracker]
                /\ queue' = [queue EXCEPT ![d] = NoTracker]
                /\ pc' = "saveOne" /\ UNCHANGED dev
    /\ UNCHANGED <<clock, boot, profile, counter, saved, restarted>>

\* wireguard.delete_device, or its failure
Delete ==
    /\ pc = "delete"
    /\ queue' = [queue EXCEPT ![dev] = NoTracker] /\ dev' = Nobody
    /\ \/ /\ profile' = [profile EXCEPT ![dev].key = 0]
          /\ current' = [current EXCEPT ![dev] = NoTracker]
          /\ pc' = "saveOne"
       \/ "helper" \in Faults /\ pc' = "candidates" /\ UNCHANGED <<profile, current>>
    /\ UNCHANGED <<clock, boot, counter, saved, restarted>>

\* After a deletion or a changed candidate; a failure ends the run.
SaveOne ==
    /\ pc = "saveOne"
    /\ \/ saved' = current /\ pc' = "candidates" /\ UNCHANGED <<current, queue, dev>>
       \/ "unsaved" \in Faults /\ Leave /\ saved' \in {saved, current}
    /\ UNCHANGED <<clock, boot, profile, counter, restarted>>

RunEnds ==
    /\ pc = "candidates" /\ queue = NoTrackers
    /\ Leave
    /\ UNCHANGED <<clock, boot, profile, counter, saved, restarted>>

-----------------------------------------------------------------------------
(* Around it *)

\* Time passes between runs; a gap in the watching restarts the period.
Tick ==
    /\ Idle /\ clock < MaxTime
    /\ clock' = clock + 1
    /\ restarted' = [d \in Devices |->
                        IF saved[d] # NoTracker /\ clock + 1 - saved[d].observed > Gap
                        THEN clock + 1 ELSE restarted[d]]
    /\ UNCHANGED <<boot, profile, counter, saved, observer>>

\* The client sends or receives, at any time; a session has a handshake.
Traffic(d) ==
    /\ profile[d].key # 0 /\ profile[d].excluded # "paused"
    /\ counter[d].bytes < MaxBytes
    /\ counter' = [counter EXCEPT ![d] = [bytes |-> @.bytes + 1, shake |-> clock]]
    /\ restarted' = [restarted EXCEPT ![d] = clock]
    /\ UNCHANGED <<clock, boot, profile, saved, observer>>

NoTraffic == [bytes |-> 0, shake |-> 0]

\* The lifecycle operations wait for a run to end.  A pause takes the peer
\* out of the kernel; adding it again starts from zero.
Exclude(d, kind) ==
    /\ Idle /\ profile[d].key # 0 /\ profile[d].excluded = "none"
    /\ profile' = [profile EXCEPT ![d].excluded = kind]
    /\ counter' = IF kind = "paused" THEN [counter EXCEPT ![d] = NoTraffic] ELSE counter
    /\ UNCHANGED <<clock, boot, saved, observer, restarted>>

Include(d) ==
    /\ Idle /\ profile[d].excluded # "none"
    /\ saved[d] # NoTracker => "quickResume" \in Faults
    /\ profile' = [profile EXCEPT ![d].excluded = "none"]
    /\ restarted' = [restarted EXCEPT ![d] = clock]
    /\ UNCHANGED <<clock, boot, counter, saved, observer>>

\* A name is generated again for a new profile with new keys.
Create(d, key) ==
    /\ Idle /\ profile[d].key = 0 /\ key \notin {0, saved[d].key}
    /\ profile' = [profile EXCEPT ![d] = [key |-> key, excluded |-> "none"]]
    /\ counter' = [counter EXCEPT ![d] = NoTraffic]
    /\ restarted' = [restarted EXCEPT ![d] = clock]
    /\ UNCHANGED <<clock, boot, saved, observer>>

OwnerDeletes(d) ==
    /\ Idle /\ profile[d].key # 0
    /\ profile' = [profile EXCEPT ![d] = [key |-> 0, excluded |-> "none"]]
    /\ UNCHANGED <<clock, boot, counter, saved, observer, restarted>>

Crash ==
    /\ "crash" \in Faults /\ ~Idle
    /\ Leave
    /\ UNCHANGED <<clock, boot, profile, counter, saved, restarted>>

\* The host reboots, or wg0 is made again.
Reboot ==
    /\ "reboot" \in Faults /\ boot <= clock
    /\ boot' = boot + 1
    /\ counter' = [d \in Devices |-> NoTraffic]
    /\ restarted' = [d \in Devices |-> clock]
    /\ Leave
    /\ UNCHANGED <<clock, profile, saved>>

-----------------------------------------------------------------------------
Init ==
    /\ clock = 0 /\ boot = 1
    /\ profile = [d \in Devices |-> [key |-> 1, excluded |-> "none"]]
    /\ counter = [d \in Devices |-> NoTraffic]
    /\ saved = NoTrackers
    /\ pc = "idle" /\ current = NoTrackers /\ queue = NoTrackers /\ dev = Nobody
    /\ restarted = [d \in Devices |-> 0]

RunStep == Save \/ Recheck \/ Delete \/ SaveOne \/ RunEnds

Around(d) ==
    \/ Traffic(d) \/ Include(d) \/ OwnerDeletes(d)
    \/ \E kind \in Exclusions \ {"none"} : Exclude(d, kind)
    \/ \E key \in 1..MaxKeys : Create(d, key)

Next == Observe \/ RunStep \/ Tick \/ Crash \/ Reboot \/ \E d \in Devices : Around(d)

Spec == Init /\ [][Next]_vars

-----------------------------------------------------------------------------
(* Properties *)

\* Every variable holds what its file, the kernel or the run can hold.
TypeOK ==
    /\ clock \in 0..MaxTime /\ boot \in 1..MaxTime + 1
    /\ profile \in [Devices -> [key : 0..MaxKeys, excluded : Exclusions]]
    /\ counter \in [Devices -> [bytes : 0..MaxBytes, shake : 0..MaxTime]]
    /\ saved \in [Devices -> Trackers \cup {NoTracker}]
    /\ current \in [Devices -> Trackers \cup {NoTracker}]
    /\ pc \in {"idle", "save", "candidates", "delete", "saveOne"}
    /\ dev \in Devices \cup {Nobody}
    /\ pc = "delete" => dev \in Devices

\* The run that decides to delete a profile.
Condemned(d) == pc # "delete" /\ pc' = "delete" /\ dev' = d

\* A profile is condemned only if, for longer than Period, it had no activity,
\* was not created, resumed or seen excluded, wg0 was not replaced and no
\* observation was missing for longer than Gap (README, "Devices are checked
\* hourly ... Resuming an excluded device or account also starts a new
\* period"): across crashes, unsaved runs, rewritten profiles and traffic that
\* arrives during the run.
CondemnedWasIdle ==
    [][\A d \in Devices : Condemned(d) => clock - restarted[d] > Period]_vars

\* A deletion protected or paused profile is never the one a run deletes.
ExcludedNeverDeleted ==
    [][\A d \in Devices : pc = "delete" /\ profile[d].key # 0 /\ profile'[d].key = 0
                           => profile[d].excluded = "none"]_vars

=============================================================================
