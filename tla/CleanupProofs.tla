--------------------------- MODULE CleanupProofs ---------------------------
(***************************************************************************)
(* Proofs about DeviceCleanup: for any period, gap and number of profiles, *)
(* a profile is condemned only after a whole period watched idle, provided *)
(* no exclusion ends unseen.                                               *)
(*                                                                         *)
(* Fresh(d, t) is the heart of it: a tracker t that still fits d's peer    *)
(* cannot be older than d's last restart unless the counters have moved.   *)
(***************************************************************************)
EXTENDS DeviceCleanup, TLAPS

Observations == [key : 1..MaxKeys, boot : 1..MaxTime + 1,
                 bytes : 0..MaxBytes, shake : 0..MaxTime]

Typed ==
    /\ TypeOK
    /\ queue \in [Devices -> Observations \cup {NoTracker}]
    /\ restarted \in [Devices -> 0..MaxTime]

\* Nothing is dated in the future, and an idle observer has no candidates.
Ordered ==
    /\ \A d \in Devices : counter[d].shake <= clock /\ restarted[d] <= clock
    /\ \A d \in Devices : saved[d] # NoTracker => saved[d].boot <= boot
    /\ \A d \in Devices : current[d] # NoTracker => current[d].boot <= boot
    /\ pc = "idle" => queue = NoTrackers /\ current = NoTrackers

Fits(d, t) == t # NoTracker /\ Observable(d) /\ t.key = profile[d].key /\ t.boot = boot

Unmoved(d, t) == counter[d].bytes = t.bytes /\ counter[d].shake = t.shake

Fresh(d, t) ==
    Fits(d, t) =>
        /\ counter[d].bytes >= t.bytes /\ counter[d].shake >= t.shake
        /\ Unmoved(d, t) /\ clock - t.observed <= Gap => restarted[d] <= t.idle

Candidate(d) ==
    queue[d] # NoTracker =>
        /\ pc = "save" => current[d] # NoTracker
        /\ counter[d].bytes >= queue[d].bytes
        /\ counter[d].bytes = queue[d].bytes => clock - restarted[d] > Period

Inv ==
    /\ Typed /\ Ordered
    /\ \A d \in Devices : Fresh(d, saved[d]) /\ Fresh(d, current[d]) /\ Candidate(d)

-----------------------------------------------------------------------------
(* About trackers *)

LEMMA TrackerIsReal == \A t \in Trackers \cup Observations : t # NoTracker
BY DEF Trackers, Observations, NoTracker

LEMMA ObservationTyped ==
    ASSUME TypeOK, NEW d \in Devices, Observable(d)
    PROVE  Observation(d) \in Observations
BY TimesAssumption, BoundsAssumption DEF TypeOK, Observable, Observation, Observations

LEMMA TrackerTyped ==
    ASSUME TypeOK, NEW o \in Observations, NEW i \in 0..MaxTime
    PROVE  Tracker(o, i) \in Trackers
BY DEF TypeOK, Observations, Tracker, Trackers

\* What _advance returns, and what makes a profile due.
LEMMA AdvancedIsFresh ==
    ASSUME Inv, NEW d \in Devices, Observable(d)
    PROVE  LET o == Observation(d)
               a == Advanced(saved[d], o)
           IN  /\ a \in Trackers
               /\ a.key = profile[d].key /\ a.boot = boot /\ Unmoved(d, a)
               /\ restarted[d] <= a.idle
               /\ Due(saved[d], o) => clock - restarted[d] > Period
<1> DEFINE o == Observation(d)
           t == saved[d]
<1>1. o \in Observations
  BY ObservationTyped DEF Inv, Typed
<1>2. clock \in 0..MaxTime /\ restarted[d] \in 0..MaxTime /\ restarted[d] <= clock
  BY DEF Inv, Typed, TypeOK, Ordered
<1>3. t = NoTracker \/ t \in Trackers
  BY DEF Inv, Typed, TypeOK
<1>4. CASE Valid(t, o) /\ ~Active(t, o)
  <2>1. Advanced(t, o) = Tracker(o, t.idle)
    BY <1>4 DEF Advanced
  <2>2. t \in Trackers /\ t # NoTracker
    BY <1>3, <1>4 DEF Valid
  <2>3. t.bytes \in Int /\ t.shake \in Int /\ t.idle \in 0..MaxTime
    BY <2>2 DEF Trackers
  <2>4. o.bytes = t.bytes /\ o.shake = t.shake
    BY <1>1, <1>4, <2>3 DEF Valid, Active, Observations
  <2>5. Fits(d, t) /\ Unmoved(d, t) /\ clock - t.observed <= Gap
    BY <1>4, <2>4 DEF Valid, Fits, Unmoved, Observation
  <2>6. restarted[d] <= t.idle
    BY <2>5 DEF Inv, Fresh
  <2>7. Tracker(o, t.idle) \in Trackers
    BY <1>1, <2>3, TrackerTyped DEF Inv, Typed
  <2>8. Due(t, o) => clock - restarted[d] > Period
    BY <1>2, <2>1, <2>3, <2>6, TimesAssumption DEF Due, Tracker
  <2> QED
    BY <2>1, <2>6, <2>7, <2>8 DEF Tracker, Observation, Unmoved
<1>5. CASE ~(Valid(t, o) /\ ~Active(t, o))
  <2>1. Advanced(t, o) = Tracker(o, clock)
    BY <1>5 DEF Advanced
  <2>2. Tracker(o, clock) \in Trackers
    BY <1>1, <1>2, TrackerTyped DEF Inv, Typed
  <2>3. ~Due(t, o)
    BY <1>2, <2>1, TimesAssumption DEF Due, Tracker
  <2> QED
    BY <1>2, <2>1, <2>2, <2>3 DEF Tracker, Observation, Unmoved
<1> QED BY <1>4, <1>5

-----------------------------------------------------------------------------
(* The steps *)

LEMMA InitInv == Init => Inv
<1> SUFFICES ASSUME Init PROVE Inv
  OBVIOUS
<1>1. Typed
  BY TimesAssumption, BoundsAssumption
  DEF Init, Typed, TypeOK, NoTrackers, NoTraffic, Exclusions
<1>2. Ordered
  BY DEF Init, Ordered, NoTrackers, NoTraffic
<1>3. \A d \in Devices : Fresh(d, saved[d]) /\ Fresh(d, current[d]) /\ Candidate(d)
  BY DEF Init, Fresh, Fits, Candidate, NoTrackers
<1> QED BY <1>1, <1>2, <1>3 DEF Inv

LEMMA ObserveKeeps ==
    ASSUME Inv, Observe
    PROVE  Inv'
<1> DEFINE Look(d) == Advanced(saved[d], Observation(d))
<1>1. \A d \in Devices : current'[d] = NoTracker \/ (Observable(d) /\ current'[d] = Look(d))
  BY DEF Observe, NoTrackers
<1>2. \A d \in Devices :
         \/ queue'[d] = NoTracker
         \/ /\ Observable(d) /\ Due(saved[d], Observation(d)) /\ queue'[d] = Observation(d)
            /\ current'[d] = Look(d)
  BY DEF Observe, NoTrackers
<1>3. Typed'
  <2>1. \A d \in Devices : current'[d] \in Trackers \cup {NoTracker}
    BY <1>1, AdvancedIsFresh
  <2>2. \A d \in Devices : queue'[d] \in Observations \cup {NoTracker}
    BY <1>2, ObservationTyped DEF Inv, Typed
  <2>3. current' = [d \in Devices |-> current'[d]] /\ queue' = [d \in Devices |-> queue'[d]]
    BY DEF Observe, NoTrackers
  <2> QED
    BY <2>1, <2>2, <2>3 DEF Inv, Typed, TypeOK, Observe
<1>4. Ordered'
  <2>1. \A d \in Devices : current'[d] # NoTracker => current'[d].boot <= boot
    BY <1>1, AdvancedIsFresh DEF Inv, Typed, TypeOK
  <2> QED
    BY <2>1 DEF Inv, Ordered, Observe
<1>5. ASSUME NEW d \in Devices PROVE (Fresh(d, saved[d]) /\ Fresh(d, current[d]) /\ Candidate(d))'
  <2>1. Fresh(d, saved[d])'
    BY DEF Inv, Observe, Fresh, Fits, Unmoved, Observable, Eligible
  <2>2. Fresh(d, current[d])'
    <3>1. CASE current'[d] = NoTracker
      BY <3>1 DEF Fresh, Fits
    <3>2. CASE Observable(d) /\ current'[d] = Look(d)
      <4>1. /\ Look(d) \in Trackers /\ Unmoved(d, Look(d)) /\ restarted[d] <= Look(d).idle
        BY <3>2, AdvancedIsFresh
      <4>2. counter[d].bytes \in Int /\ counter[d].shake \in Int
        BY DEF Inv, Typed, TypeOK
      <4> HIDE DEF Look
      <4>3. counter' = counter /\ restarted' = restarted
        BY DEF Observe
      <4> QED
        BY <3>2, <4>1, <4>2, <4>3 DEF Fresh, Unmoved
    <3> QED BY <1>1, <3>1, <3>2
  <2>3. Candidate(d)'
    <3> SUFFICES ASSUME queue'[d] # NoTracker PROVE Candidate(d)'
      BY DEF Candidate
    <3>1. Observable(d) /\ Due(saved[d], Observation(d)) /\ queue'[d] = Observation(d)
      BY <1>2
    <3>2. Look(d) \in Trackers /\ clock - restarted[d] > Period
      BY <3>1, AdvancedIsFresh
    <3>3. current'[d] # NoTracker
      BY <1>2, <3>2, TrackerIsReal
    <3>4. counter[d].bytes >= queue'[d].bytes
      BY <3>1 DEF Inv, Typed, TypeOK, Observation
    <3> QED
      BY <3>2, <3>3, <3>4 DEF Candidate, Observe
  <2> QED BY <2>1, <2>2, <2>3
<1> QED BY <1>3, <1>4, <1>5 DEF Inv

\* Saving, looking again, deleting, ending: the kernel and the clock stand
\* still, trackers and candidates only go, or start at this moment.
LEMMA RunKeeps ==
    ASSUME Inv, RunStep
    PROVE  Inv'
<1> USE DEF Inv
<1>0. UNCHANGED <<clock, boot, counter>>
  BY DEF RunStep, Save, Recheck, Delete, SaveOne, RunEnds
<1>t. clock \in 0..MaxTime
  BY DEF Typed, TypeOK
<1>1. CASE Save
  <2>1. \A d \in Devices :
               \/ restarted'[d] = restarted[d]
               \/ restarted'[d] = clock /\ current[d] = NoTracker /\ saved'[d] = NoTracker
    BY <1>1 DEF Save, Typed
  <2>2. Typed'
    <3>1. restarted' \in [Devices -> 0..MaxTime]
      BY <1>1, <1>t DEF Save, Typed
    <3>2. current' \in [Devices -> Trackers \cup {NoTracker}] /\ saved' \in [Devices -> Trackers \cup {NoTracker}]
      BY <1>1 DEF Save, Typed, TypeOK, Leave, NoTrackers
    <3>3. queue' \in [Devices -> Observations \cup {NoTracker}]
      BY <1>1 DEF Save, Typed, Leave, NoTrackers
    <3> QED
      BY <1>1, <3>1, <3>2, <3>3 DEF Save, Typed, TypeOK, Leave
  <2>3. Ordered'
    BY <1>1, <1>t, <2>1 DEF Save, Ordered, Typed, TypeOK, Leave, NoTrackers
  <2>4. ASSUME NEW d \in Devices PROVE (Fresh(d, saved[d]) /\ Fresh(d, current[d]) /\ Candidate(d))'
    <3>1. current'[d] \in {current[d], NoTracker} /\ saved'[d] \in {saved[d], current[d]}
      BY <1>1 DEF Save, Leave, NoTrackers
    <3>2. profile' = profile
      BY <1>1 DEF Save
    <3>3. CASE restarted'[d] = restarted[d]
      <4>1. Fresh(d, saved[d])' /\ Fresh(d, current[d])'
        BY <1>0, <3>1, <3>2, <3>3 DEF Fresh, Fits, Unmoved, Observable, Eligible
      <4>2. Candidate(d)'
        BY <1>0, <1>1, <3>3 DEF Candidate, Save, Leave, NoTrackers
      <4> QED BY <4>1, <4>2
    <3>4. CASE restarted'[d] = clock /\ current[d] = NoTracker /\ saved'[d] = NoTracker
      <4>1. Fresh(d, saved[d])' /\ Fresh(d, current[d])'
        BY <3>1, <3>4 DEF Fresh, Fits
      <4>2. queue[d] = NoTracker
        BY <1>1, <3>4 DEF Candidate, Save
      <4>3. queue'[d] = NoTracker
        BY <1>1, <4>2 DEF Save, Leave, NoTrackers
      <4> QED BY <4>1, <4>3 DEF Candidate
    <3> QED BY <2>1, <3>3, <3>4
  <2> QED BY <2>2, <2>3, <2>4
<1>2. CASE Recheck
  <2> PICK d \in Devices :
          /\ queue[d] # NoTracker
          /\ \/ /\ Observable(d) /\ Observation(d) = queue[d]
                /\ dev' = d /\ pc' = "delete" /\ UNCHANGED <<current, queue>>
             \/ /\ Observable(d) /\ Observation(d) # queue[d]
                /\ current' = [current EXCEPT ![d] = Tracker(Observation(d), clock)]
                /\ queue' = [queue EXCEPT ![d] = NoTracker]
                /\ pc' = "saveOne" /\ UNCHANGED dev
             \/ /\ "unknown" \in Faults
                /\ current' = [current EXCEPT ![d] = NoTracker]
                /\ queue' = [queue EXCEPT ![d] = NoTracker]
                /\ pc' = "saveOne" /\ UNCHANGED dev
    BY <1>2 DEF Recheck
  <2>0. UNCHANGED <<profile, saved, restarted>> /\ pc = "candidates"
    BY <1>2 DEF Recheck
  <2>1. Observable(d) => Tracker(Observation(d), clock) \in Trackers
    BY <1>t, ObservationTyped, TrackerTyped DEF Typed
  <2>2. Typed'
    BY <1>0, <2>0, <2>1, ZenonT(40) DEF Typed, TypeOK
  <2>3. Ordered'
    <3>1. Tracker(Observation(d), clock).boot <= boot
      BY DEF Tracker, Observation, Typed, TypeOK
    <3> QED
      BY <1>0, <2>0, <3>1 DEF Ordered, Typed, TypeOK
  <2>4. ASSUME NEW e \in Devices PROVE (Fresh(e, saved[e]) /\ Fresh(e, current[e]) /\ Candidate(e))'
    <3>1. Fresh(e, saved[e])'
      BY <1>0, <2>0 DEF Fresh, Fits, Unmoved, Observable, Eligible
    <3>2. \/ current'[e] \in {current[e], NoTracker}
          \/ Observable(e) /\ current'[e] = Tracker(Observation(e), clock)
      BY DEF Typed, TypeOK
    <3>3. Fresh(e, current[e])'
      <4>1. CASE current'[e] \in {current[e], NoTracker}
        BY <1>0, <2>0, <4>1 DEF Fresh, Fits, Unmoved, Observable, Eligible
      <4>2. CASE current'[e] = Tracker(Observation(e), clock)
        BY <1>0, <2>0, <4>2 DEF Fresh, Tracker, Observation, Ordered, Typed, TypeOK
      <4> QED BY <3>2, <4>1, <4>2
    <3>4. Candidate(e)'
      BY <1>0, <2>0 DEF Candidate, Typed
    <3> QED BY <3>1, <3>3, <3>4
  <2> QED BY <2>2, <2>3, <2>4
<1>3. CASE Delete
  <2>0. UNCHANGED <<saved, restarted>> /\ dev \in Devices /\ pc' \in {"saveOne", "candidates"}
    BY <1>3 DEF Delete, Typed, TypeOK
  <2>1. Typed'
    <3>1. profile' \in [Devices -> [key : 0..MaxKeys, excluded : Exclusions]]
      <4>1. [profile[dev] EXCEPT !.key = 0] \in [key : 0..MaxKeys, excluded : Exclusions]
        BY <2>0, BoundsAssumption DEF Typed, TypeOK
      <4> DEFINE gone == [profile[dev] EXCEPT !.key = 0]
      <4>2. profile' \in {profile, [profile EXCEPT ![dev] = gone]}
        BY <1>3 DEF Delete
      <4> HIDE DEF gone
      <4> QED
        BY <4>1, <4>2, <2>0 DEF gone, Typed, TypeOK
    <3>2. /\ current' \in {current, [current EXCEPT ![dev] = NoTracker]}
          /\ queue' = [queue EXCEPT ![dev] = NoTracker] /\ dev' = Nobody
      BY <1>3 DEF Delete
    <3> QED
      BY <1>0, <2>0, <3>1, <3>2 DEF Typed, TypeOK
  <2>2. Ordered'
    BY <1>0, <1>3, <2>0 DEF Delete, Ordered, Typed, TypeOK
  <2>3. ASSUME NEW d \in Devices PROVE (Fresh(d, saved[d]) /\ Fresh(d, current[d]) /\ Candidate(d))'
    <3>1. queue'[d] \in {queue[d], NoTracker} /\ current'[d] \in {current[d], NoTracker}
      BY <1>3 DEF Delete, Typed, TypeOK
    <3>2. Observable(d)' => profile'[d] = profile[d]
      BY <1>3, <2>0 DEF Delete, Observable, Typed, TypeOK
    <3> QED
      BY <1>0, <2>0, <3>1, <3>2 DEF Fresh, Fits, Unmoved, Candidate, Observable, Eligible
  <2> QED BY <2>1, <2>2, <2>3
<1>4. CASE SaveOne \/ RunEnds
  <2>0. UNCHANGED <<profile, restarted>> /\ pc' \in {"candidates", "idle"}
    BY <1>4 DEF SaveOne, RunEnds, Leave
  <2>1. \A d \in Devices : /\ saved'[d] \in {saved[d], current[d]}
                           /\ current'[d] \in {current[d], NoTracker}
                           /\ queue'[d] \in {queue[d], NoTracker}
    BY <1>4 DEF SaveOne, RunEnds, Leave, NoTrackers
  <2>2. Typed'
    BY <1>0, <1>4 DEF SaveOne, RunEnds, Leave, NoTrackers, Typed, TypeOK
  <2>3. Ordered'
    BY <1>0, <1>4 DEF SaveOne, RunEnds, Leave, NoTrackers, Ordered
  <2>4. \A d \in Devices : (Fresh(d, saved[d]) /\ Fresh(d, current[d]) /\ Candidate(d))'
    BY <1>0, <2>0, <2>1 DEF Fresh, Fits, Unmoved, Candidate, Observable, Eligible
  <2> QED BY <2>2, <2>3, <2>4
<1> QED BY <1>1, <1>2, <1>3, <1>4 DEF RunStep

-----------------------------------------------------------------------------
(* Around the run *)

\* A run that is not there condemns nobody, and the clock of an idle watch
\* goes on.
LEMMA TickKeeps ==
    ASSUME Inv, Tick
    PROVE  Inv'
<1> USE DEF Inv
<1>1. /\ UNCHANGED <<boot, profile, counter, saved, current, queue, pc, dev>>
      /\ clock' = clock + 1 /\ clock \in 0..MaxTime /\ clock' \in 0..MaxTime
      /\ pc = "idle" /\ queue = NoTrackers /\ current = NoTrackers
  <2>1. clock \in 0..MaxTime /\ clock < MaxTime /\ clock' = clock + 1
    BY DEF Tick, Typed, TypeOK
  <2>2. clock' \in 0..MaxTime
    BY <2>1, TimesAssumption
  <2> QED BY <2>1, <2>2 DEF Tick, Idle, observer, Ordered
<1>2. \A d \in Devices : restarted'[d] \in {restarted[d], clock'}
  BY <1>1 DEF Tick
<1>3. Typed'
  <2>1. restarted' \in [Devices -> 0..MaxTime]
    <3>1. restarted' = [d \in Devices |-> restarted'[d]]
      BY DEF Tick
    <3>2. \A d \in Devices : restarted'[d] \in 0..MaxTime
      BY <1>1, <1>2 DEF Typed
    <3> QED BY <3>1, <3>2
  <2> QED BY <1>1, <2>1 DEF Typed, TypeOK
<1>4. Ordered'
  BY <1>1, <1>2 DEF Ordered, Typed, TypeOK
<1>5. ASSUME NEW d \in Devices PROVE (Fresh(d, saved[d]) /\ Fresh(d, current[d]) /\ Candidate(d))'
  <2>1. current'[d] = NoTracker /\ queue'[d] = NoTracker
    BY <1>1 DEF NoTrackers
  <2>2. Fresh(d, saved[d])'
    <3> SUFFICES ASSUME Fits(d, saved[d])' PROVE Fresh(d, saved[d])'
      BY DEF Fresh
    <3>1. Fits(d, saved[d]) /\ saved[d] \in Trackers
      BY <1>1 DEF Fits, Observable, Eligible, Typed, TypeOK
    <3>2. clock \in Int /\ saved[d].observed \in Int /\ Gap \in Int /\ restarted[d] \in Int
      BY <3>1, TimesAssumption DEF Typed, TypeOK, Trackers
    <3>3. (Unmoved(d, saved[d]) /\ clock - saved[d].observed <= Gap)' => restarted'[d] <= saved[d].idle
      <4> SUFFICES ASSUME Unmoved(d, saved[d]), clock' - saved[d].observed <= Gap
                   PROVE  restarted'[d] <= saved[d].idle
        BY <1>1 DEF Unmoved
      <4>1. restarted'[d] = restarted[d]
        BY <1>1, <3>2 DEF Tick
      <4>2. clock - saved[d].observed <= Gap
        BY <1>1, <3>2
      <4> QED BY <3>1, <4>1, <4>2 DEF Fresh
    <3> QED BY <1>1, <3>1, <3>3 DEF Fresh
  <2> QED BY <2>1, <2>2 DEF Fresh, Fits, Candidate
<1> QED BY <1>3, <1>4, <1>5

\* A crash and a reboot end the run; no tracker fits the next generation.
LEMMA StopKeeps ==
    ASSUME Inv, Crash \/ Reboot
    PROVE  Inv'
<1> USE DEF Inv
<1>1. /\ UNCHANGED <<clock, profile, saved>>
      /\ pc' = "idle" /\ current' = NoTrackers /\ queue' = NoTrackers /\ dev' = Nobody
  BY DEF Crash, Reboot, Leave
<1>2. clock \in 0..MaxTime /\ boot \in 1..MaxTime + 1
  BY DEF Typed, TypeOK
<1>3. \A d \in Devices : current'[d] = NoTracker /\ queue'[d] = NoTracker
  BY <1>1 DEF NoTrackers
<1>4. \/ UNCHANGED <<boot, counter, restarted>>
      \/ /\ boot' = boot + 1 /\ boot' \in 1..MaxTime + 1
         /\ counter' = [d \in Devices |-> NoTraffic]
         /\ restarted' = [d \in Devices |-> clock]
  BY <1>2, TimesAssumption DEF Crash, Reboot
<1>5. NoTraffic \in [bytes : 0..MaxBytes, shake : 0..MaxTime] /\ NoTraffic.shake = 0
  BY TimesAssumption, BoundsAssumption DEF NoTraffic
<1>6. Typed'
  <2>1. /\ boot' \in 1..MaxTime + 1
        /\ counter' \in [Devices -> [bytes : 0..MaxBytes, shake : 0..MaxTime]]
        /\ restarted' \in [Devices -> 0..MaxTime]
    BY <1>2, <1>4, <1>5 DEF Typed, TypeOK
  <2>2. /\ current' \in [Devices -> Trackers \cup {NoTracker}]
        /\ queue' \in [Devices -> Observations \cup {NoTracker}]
    BY <1>1 DEF NoTrackers
  <2> QED BY <1>1, <2>1, <2>2 DEF Typed, TypeOK
<1>7. Ordered'
  <2>1. \A d \in Devices : saved'[d] # NoTracker => saved'[d].boot <= boot'
    <3> SUFFICES ASSUME NEW d \in Devices, saved[d] # NoTracker PROVE saved[d].boot <= boot'
      BY <1>1
    <3>1. saved[d].boot \in Int /\ saved[d].boot <= boot
      BY DEF Ordered, Typed, TypeOK, Trackers
    <3> QED BY <1>2, <1>4, <3>1
  <2>2. \A d \in Devices : counter'[d].shake <= clock' /\ restarted'[d] <= clock'
    BY <1>1, <1>2, <1>4, <1>5 DEF Ordered
  <2> QED BY <1>1, <1>3, <2>1, <2>2 DEF Ordered
<1>8. ASSUME NEW d \in Devices PROVE Fresh(d, saved[d])'
  <2>1. CASE UNCHANGED <<boot, counter, restarted>>
    BY <1>1, <2>1 DEF Fresh, Fits, Unmoved, Observable, Eligible
  <2>2. CASE boot' = boot + 1
    <3>1. saved[d] # NoTracker => saved[d].boot <= boot /\ saved[d].boot \in Int
      BY DEF Ordered, Typed, TypeOK, Trackers
    <3> QED BY <1>1, <1>2, <2>2, <3>1 DEF Fresh, Fits
  <2> QED BY <1>4, <2>1, <2>2
<1> QED BY <1>3, <1>6, <1>7, <1>8 DEF Fresh, Fits, Candidate

\* A tracker that fitted is moved away from: traffic counts upwards.
LEMMA TrafficKeeps ==
    ASSUME Inv, NEW d \in Devices, Traffic(d)
    PROVE  Inv'
<1> USE DEF Inv
<1> DEFINE moved == [bytes |-> counter[d].bytes + 1, shake |-> clock]
<1>1. /\ UNCHANGED <<clock, boot, profile, saved, pc, current, queue, dev>>
      /\ counter' = [counter EXCEPT ![d] = moved]
      /\ restarted' = [restarted EXCEPT ![d] = clock]
  BY DEF Traffic, observer
<1>2. clock \in 0..MaxTime /\ moved \in [bytes : 0..MaxBytes, shake : 0..MaxTime]
  BY BoundsAssumption DEF Traffic, Typed, TypeOK
<1>3. moved.bytes = counter[d].bytes + 1 /\ moved.shake = clock
  OBVIOUS
<1> HIDE DEF moved
<1>4. counter'[d] = moved /\ restarted'[d] = clock
  BY <1>1 DEF Typed, TypeOK
<1>5. \A e \in Devices \ {d} : counter'[e] = counter[e] /\ restarted'[e] = restarted[e]
  BY <1>1 DEF Typed, TypeOK
<1>6. Typed'
  BY <1>1, <1>2 DEF Typed, TypeOK
<1>7. Ordered'
  <2>1. \A e \in Devices : counter'[e].shake <= clock /\ restarted'[e] <= clock
    BY <1>2, <1>3, <1>4, <1>5 DEF Ordered
  <2> QED BY <1>1, <2>1 DEF Ordered
<1>8. ASSUME NEW e \in Devices PROVE (Fresh(e, saved[e]) /\ Fresh(e, current[e]) /\ Candidate(e))'
  <2>1. CASE e # d
    BY <1>1, <1>5, <2>1 DEF Fresh, Fits, Unmoved, Candidate, Observable, Eligible
  <2>2. CASE e = d
    <3>1. counter[d].bytes \in Int /\ counter[d].shake \in Int /\ counter[d].shake <= clock
      BY DEF Ordered, Typed, TypeOK
    <3>2. ASSUME NEW t, t = NoTracker \/ t \in Trackers, Fresh(d, t), t' = t
          PROVE  Fresh(d, t)'
      <4> SUFFICES ASSUME Fits(d, t) PROVE Fresh(d, t)'
        BY <1>1, <3>2 DEF Fresh, Fits, Observable, Eligible
      <4>1. t.bytes \in Int /\ t.shake \in Int
        BY <3>2 DEF Fits, Trackers
      <4>2. counter[d].bytes >= t.bytes /\ counter[d].shake >= t.shake
        BY <3>2 DEF Fresh
      <4>3. counter'[d].bytes > t.bytes /\ counter'[d].shake >= t.shake
        BY <1>2, <1>3, <1>4, <3>1, <4>1, <4>2
      <4> QED BY <3>2, <4>1, <4>3, <1>2, <1>4 DEF Fresh, Unmoved
    <3>3. Candidate(d)'
      <4> SUFFICES ASSUME queue[d] # NoTracker PROVE Candidate(d)'
        BY <1>1 DEF Candidate
      <4>1. queue[d].bytes \in Int /\ counter[d].bytes >= queue[d].bytes
        BY DEF Candidate, Typed, Observations
      <4>2. counter'[d].bytes > queue[d].bytes
        BY <1>3, <1>4, <3>1, <4>1
      <4>3. counter'[d].bytes >= queue[d].bytes /\ counter'[d].bytes # queue[d].bytes
        BY <1>2, <1>4, <4>1, <4>2
      <4> QED BY <1>1, <4>3 DEF Candidate
    <3> QED BY <1>1, <2>2, <3>2, <3>3 DEF Typed, TypeOK
  <2> QED BY <2>1, <2>2
<1> QED BY <1>6, <1>7, <1>8

\* What the lock lets in between runs leaves no tracker that fits.
LEMMA ProfileKeeps ==
    ASSUME Inv, "quickResume" \notin Faults, NEW d \in Devices, Around(d), ~Traffic(d)
    PROVE  Inv'
<1> USE DEF Inv
<1>1. /\ UNCHANGED <<clock, boot, saved, pc, current, queue, dev>>
      /\ pc = "idle" /\ queue = NoTrackers /\ current = NoTrackers
  BY DEF Around, Include, OwnerDeletes, Exclude, Create, Idle, observer, Ordered
<1>2. clock \in 0..MaxTime
  BY DEF Typed, TypeOK
<1>3. NoTraffic \in [bytes : 0..MaxBytes, shake : 0..MaxTime] /\ NoTraffic.shake = 0
  BY TimesAssumption, BoundsAssumption DEF NoTraffic
<1>4. counter' \in {counter, [counter EXCEPT ![d] = NoTraffic]}
  BY DEF Around, Include, OwnerDeletes, Exclude, Create
<1>5. restarted' \in {restarted, [restarted EXCEPT ![d] = clock]}
  BY DEF Around, Include, OwnerDeletes, Exclude, Create
<1>6. PICK p \in [key : 0..MaxKeys, excluded : Exclusions] :
        /\ profile' = [profile EXCEPT ![d] = p]
        /\ \/ p.key = 0 \/ p.excluded # "none" \/ saved[d] = NoTracker
           \/ p.key # saved[d].key
  <2> DEFINE P(p) == /\ profile' = [profile EXCEPT ![d] = p]
                     /\ \/ p.key = 0 \/ p.excluded # "none" \/ saved[d] = NoTracker
                        \/ p.key # saved[d].key
  <2>1. profile[d] \in [key : 0..MaxKeys, excluded : Exclusions]
        /\ profile[d].key \in 0..MaxKeys
    BY DEF Typed, TypeOK
  <2>2. CASE Include(d)
    <3> DEFINE p == [profile[d] EXCEPT !.excluded = "none"]
    <3>1. p \in [key : 0..MaxKeys, excluded : Exclusions]
      BY <2>1 DEF Exclusions
    <3>2. P(p)
      BY <2>2 DEF Include
    <3> QED BY <3>1, <3>2
  <2>3. CASE OwnerDeletes(d)
    <3> DEFINE p == [key |-> 0, excluded |-> "none"]
    <3>1. p \in [key : 0..MaxKeys, excluded : Exclusions]
      BY BoundsAssumption DEF Exclusions
    <3>2. P(p)
      BY <2>3 DEF OwnerDeletes
    <3> QED BY <3>1, <3>2
  <2>4. ASSUME NEW kind \in Exclusions \ {"none"}, Exclude(d, kind)
        PROVE  \E p \in [key : 0..MaxKeys, excluded : Exclusions] : P(p)
    <3> DEFINE p == [profile[d] EXCEPT !.excluded = kind]
    <3>1. p \in [key : 0..MaxKeys, excluded : Exclusions] /\ p.excluded = kind
      BY <2>1
    <3>2. profile' = [profile EXCEPT ![d] = p]
      BY <2>4 DEF Exclude
    <3>3. kind # "none"
      OBVIOUS
    <3> HIDE DEF p
    <3>4. P(p)
      BY <3>1, <3>2, <3>3
    <3> QED BY <3>1, <3>4
  <2>5. ASSUME NEW key \in 1..MaxKeys, Create(d, key)
        PROVE  \E p \in [key : 0..MaxKeys, excluded : Exclusions] : P(p)
    <3> DEFINE p == [key |-> key, excluded |-> "none"]
    <3>1. p \in [key : 0..MaxKeys, excluded : Exclusions]
      BY BoundsAssumption DEF Exclusions
    <3>2. P(p)
      BY <2>5 DEF Create
    <3> QED BY <3>1, <3>2
  <2> QED BY <2>2, <2>3, <2>4, <2>5 DEF Around
<1>7. Typed'
  <2>1. counter' \in [Devices -> [bytes : 0..MaxBytes, shake : 0..MaxTime]]
    BY <1>3, <1>4 DEF Typed, TypeOK
  <2>2. restarted' \in [Devices -> 0..MaxTime]
    BY <1>2, <1>5 DEF Typed
  <2>3. profile' \in [Devices -> [key : 0..MaxKeys, excluded : Exclusions]]
    BY <1>6 DEF Typed, TypeOK
  <2> QED
    BY <1>1, <2>1, <2>2, <2>3 DEF Typed, TypeOK
<1>8. Ordered'
  BY <1>1, <1>2, <1>3, <1>4, <1>5 DEF Ordered, Typed, TypeOK
<1>9. ASSUME NEW e \in Devices PROVE (Fresh(e, saved[e]) /\ Fresh(e, current[e]) /\ Candidate(e))'
  <2>1. current'[e] = NoTracker /\ queue'[e] = NoTracker
    BY <1>1 DEF NoTrackers
  <2>2. Fresh(e, saved[e])'
    <3>1. CASE e # d
      <4>1. UNCHANGED <<profile[e], counter[e], restarted[e]>>
        BY <1>4, <1>5, <1>6, <3>1 DEF Typed, TypeOK
      <4> QED BY <1>1, <4>1 DEF Fresh, Fits, Unmoved, Observable, Eligible
    <3>2. CASE e = d
      <4>1. profile'[d] = p
        BY <1>6 DEF Typed, TypeOK
      <4> QED
        BY <1>1, <1>6, <3>2, <4>1 DEF Fresh, Fits, Observable, Eligible
    <3> QED BY <3>1, <3>2
  <2> QED BY <2>1, <2>2 DEF Fresh, Fits, Candidate
<1> QED BY <1>7, <1>8, <1>9

-----------------------------------------------------------------------------
(* The theorems *)

\* The typing, order and freshness of every state, without exclusions that end
\* between two runs.
THEOREM CleanupInvariant ==
    ASSUME "quickResume" \notin Faults
    PROVE  Spec => []Inv
<1>1. Init => Inv
  BY InitInv
<1>2. Inv /\ [Next]_vars => Inv'
  <2> SUFFICES ASSUME Inv, [Next]_vars PROVE Inv'
    OBVIOUS
  <2>1. CASE Observe
    BY <2>1, ObserveKeeps
  <2>2. CASE RunStep
    BY <2>2, RunKeeps
  <2>3. CASE Tick
    BY <2>3, TickKeeps
  <2>4. CASE Crash \/ Reboot
    BY <2>4, StopKeeps
  <2>5. ASSUME NEW d \in Devices, Around(d) PROVE Inv'
    BY <2>5, TrafficKeeps, ProfileKeeps
  <2>6. CASE UNCHANGED vars
    BY <2>6 DEF vars, observer, Inv, Typed, TypeOK, Ordered, Fresh, Fits, Unmoved, Candidate,
                Observable, Eligible
  <2> QED BY <2>1, <2>2, <2>3, <2>4, <2>5, <2>6 DEF Next
<1> QED BY <1>1, <1>2, PTL DEF Spec

\* cleanup_inactive_devices deletes nobody who was active, resumed, created or
\* unwatched within the period: for every period, gap and set of profiles, as
\* long as no exclusion ends between two runs.
THEOREM OnlyIdleCondemned ==
    ASSUME "quickResume" \notin Faults
    PROVE  Spec => CondemnedWasIdle
<1>1. Inv /\ [Next]_vars =>
        [\A d \in Devices : Condemned(d) => clock - restarted[d] > Period]_vars
  <2> SUFFICES ASSUME Inv, Next, NEW d \in Devices, Condemned(d)
               PROVE  clock - restarted[d] > Period
    OBVIOUS
  <2>1. Recheck
    BY DEF Next, Condemned, RunStep, Around, Observe, Save, Recheck, Delete, SaveOne, RunEnds, Leave,
           Tick, Crash, Reboot, Traffic, Include, OwnerDeletes, Exclude, Create, observer
  <2>2. queue[d] # NoTracker /\ Observation(d) = queue[d]
    BY <2>1 DEF Recheck, Condemned
  <2>3. counter[d].bytes = queue[d].bytes
    BY <2>2 DEF Observation
  <2> QED BY <2>2, <2>3 DEF Inv, Candidate
<1> QED BY <1>1, CleanupInvariant, PTL DEF Spec, CondemnedWasIdle

-----------------------------------------------------------------------------
(* What holds whichever exclusions end unseen *)

LEMMA AdvancedTyped ==
    ASSUME TypeOK, NEW d \in Devices, Observable(d)
    PROVE  Advanced(saved[d], Observation(d)) \in Trackers
<1>1. Observation(d) \in Observations /\ clock \in 0..MaxTime
  BY ObservationTyped DEF TypeOK
<1>2. CASE Valid(saved[d], Observation(d))
  <2>1. saved[d] \in Trackers
    BY <1>2 DEF Valid, TypeOK
  <2>2. saved[d].idle \in 0..MaxTime
    BY <2>1 DEF Trackers
  <2> QED
    BY <1>1, <2>2, TrackerTyped DEF Advanced
<1>3. CASE ~Valid(saved[d], Observation(d))
  BY <1>1, <1>3, TrackerTyped DEF Advanced
<1> QED
  BY <1>2, <1>3

\* A profile never changes while a run is about to delete it.
Chosen == pc = "delete" => Eligible(dev)

LEMMA ChosenNext == TypeOK /\ Chosen /\ [Next]_vars => TypeOK' /\ Chosen'
<1> SUFFICES ASSUME TypeOK, Chosen, [Next]_vars PROVE TypeOK' /\ Chosen'
  OBVIOUS
<1> USE DEF TypeOK
<1>1. ASSUME Observe PROVE TypeOK' /\ Chosen'
  <2>1. current' \in [Devices -> Trackers \cup {NoTracker}]
    BY <1>1, AdvancedTyped DEF Observe, NoTrackers
  <2> QED
    BY <1>1, <2>1 DEF Observe, Chosen
<1>2. ASSUME Save \/ SaveOne \/ RunEnds \/ Crash PROVE TypeOK' /\ Chosen'
  <2>1. /\ saved' \in {saved, current} /\ current' \in {current, NoTrackers}
        /\ dev' \in {dev, Nobody} /\ pc' \in {"idle", "candidates"}
        /\ UNCHANGED <<clock, boot, profile, counter>>
    BY <1>2 DEF Save, SaveOne, RunEnds, Crash, Leave
  <2>2. NoTrackers \in [Devices -> Trackers \cup {NoTracker}]
    BY DEF NoTrackers
  <2> QED
    BY <2>1, <2>2 DEF Chosen
<1>3. ASSUME Recheck PROVE TypeOK' /\ Chosen'
  <2>1. PICK d \in Devices :
          \/ /\ Observable(d) /\ dev' = d /\ pc' = "delete" /\ UNCHANGED current
          \/ /\ Observable(d) /\ current' = [current EXCEPT ![d] = Tracker(Observation(d), clock)]
             /\ pc' = "saveOne" /\ UNCHANGED dev
          \/ /\ current' = [current EXCEPT ![d] = NoTracker]
             /\ pc' = "saveOne" /\ UNCHANGED dev
    BY <1>3 DEF Recheck
  <2>2. Observable(d) => Tracker(Observation(d), clock) \in Trackers
    BY ObservationTyped, TrackerTyped
  <2>3. UNCHANGED <<clock, boot, profile, counter, saved>>
    BY <1>3 DEF Recheck
  <2>4. current' \in [Devices -> Trackers \cup {NoTracker}]
    BY <2>1, <2>2
  <2> QED
    BY <2>1, <2>3, <2>4 DEF Chosen, Observable, Eligible
<1>4. ASSUME Delete PROVE TypeOK' /\ Chosen'
  <2>1. dev \in Devices /\ dev' = Nobody /\ pc' \in {"saveOne", "candidates"}
    BY <1>4 DEF Delete
  <2>2. UNCHANGED <<clock, boot, counter, saved>>
    BY <1>4 DEF Delete
  <2>3. current' \in [Devices -> Trackers \cup {NoTracker}]
    BY <1>4, <2>1 DEF Delete
  <2>4. profile' \in [Devices -> [key : 0..MaxKeys, excluded : Exclusions]]
    <3> DEFINE gone == [profile[dev] EXCEPT !.key = 0]
    <3>1. gone \in [key : 0..MaxKeys, excluded : Exclusions]
      BY <2>1, BoundsAssumption
    <3>2. profile' \in {profile, [profile EXCEPT ![dev] = gone]}
      BY <1>4 DEF Delete
    <3> HIDE DEF gone
    <3> QED
      BY <2>1, <3>1, <3>2
  <2> QED
    BY <2>1, <2>2, <2>3, <2>4 DEF Chosen
<1>5. ASSUME Tick PROVE TypeOK' /\ Chosen'
  <2>1. clock' \in 0..MaxTime
    BY <1>5, TimesAssumption DEF Tick
  <2> QED
    BY <1>5, <2>1 DEF Tick, observer, Chosen, Eligible
<1>6. NoTraffic \in [bytes : 0..MaxBytes, shake : 0..MaxTime]
  BY TimesAssumption, BoundsAssumption DEF NoTraffic
<1>7. ASSUME Reboot PROVE TypeOK' /\ Chosen'
  <2>1. boot' \in 1..MaxTime + 1
    BY <1>7, TimesAssumption DEF Reboot
  <2> QED
    BY <1>6, <1>7, <2>1 DEF Reboot, Leave, NoTrackers, Chosen
<1>8. ASSUME NEW d \in Devices, Traffic(d) PROVE TypeOK' /\ Chosen'
  <2> DEFINE moved == [bytes |-> counter[d].bytes + 1, shake |-> clock]
  <2>1. counter[d].bytes \in 0..MaxBytes /\ counter[d].bytes < MaxBytes
    BY <1>8 DEF Traffic
  <2>2. moved \in [bytes : 0..MaxBytes, shake : 0..MaxTime]
    BY <2>1, BoundsAssumption
  <2>3. counter' = [counter EXCEPT ![d] = moved]
    BY <1>8 DEF Traffic
  <2> HIDE DEF moved
  <2> QED
    BY <1>8, <2>2, <2>3 DEF Traffic, observer, Chosen, Eligible
<1>9. ASSUME NEW d \in Devices, NEW p \in [key : 0..MaxKeys, excluded : Exclusions],
             pc = "idle", profile' = [profile EXCEPT ![d] = p],
             counter' \in {counter, [counter EXCEPT ![d] = NoTraffic]},
             UNCHANGED <<clock, boot, saved, pc, current, dev>>
      PROVE  TypeOK' /\ Chosen'
  BY <1>6, <1>9 DEF Chosen
<1>10. ASSUME NEW d \in Devices, Around(d) PROVE TypeOK' /\ Chosen'
  <2>1. /\ profile[d] \in [key : 0..MaxKeys, excluded : Exclusions]
        /\ \A x \in Exclusions : [profile[d] EXCEPT !.excluded = x]
                                     \in [key : 0..MaxKeys, excluded : Exclusions]
        /\ "none" \in Exclusions
    BY DEF Exclusions
  <2>2. ASSUME Include(d) PROVE TypeOK' /\ Chosen'
    <3>1. profile' = [profile EXCEPT ![d] = [profile[d] EXCEPT !.excluded = "none"]]
      BY <2>2 DEF Include
    <3> QED
      BY <1>9, <2>1, <2>2, <3>1 DEF Include, Idle, observer
  <2>3. ASSUME NEW kind \in Exclusions, Exclude(d, kind) PROVE TypeOK' /\ Chosen'
    <3>1. profile' = [profile EXCEPT ![d] = [profile[d] EXCEPT !.excluded = kind]]
      BY <2>3 DEF Exclude
    <3> QED
      BY <1>9, <2>1, <2>3, <3>1 DEF Exclude, Idle, observer
  <2>4. ASSUME NEW key \in 1..MaxKeys, Create(d, key) PROVE TypeOK' /\ Chosen'
    <3>1. [key |-> key, excluded |-> "none"] \in [key : 0..MaxKeys, excluded : Exclusions]
      BY <2>1, BoundsAssumption
    <3> QED
      BY <1>9, <2>4, <3>1 DEF Create, Idle, observer
  <2>5. ASSUME OwnerDeletes(d) PROVE TypeOK' /\ Chosen'
    <3>1. [key |-> 0, excluded |-> "none"] \in [key : 0..MaxKeys, excluded : Exclusions]
      BY <2>1, BoundsAssumption
    <3> QED
      BY <1>9, <2>5, <3>1 DEF OwnerDeletes, Idle, observer
  <2> QED
    BY <1>8, <1>10, <2>2, <2>3, <2>4, <2>5 DEF Around
<1>11. CASE UNCHANGED vars
  BY <1>11 DEF vars, observer, Chosen, Eligible
<1> QED
  BY <1>1, <1>2, <1>3, <1>4, <1>5, <1>7, <1>10, <1>11 DEF Next, RunStep

LEMMA ChosenInvariant == Spec => [](TypeOK /\ Chosen)
<1>1. Init => TypeOK /\ Chosen
  BY InitInv DEF Inv, Typed, Init, Chosen
<1> QED
  BY <1>1, ChosenNext, PTL DEF Spec

\* Every variable keeps its type, whichever exclusions end unseen.
THEOREM CleanupTypes == Spec => []TypeOK
BY ChosenInvariant, PTL

\* A run deletes no protected and no paused profile: nothing can exclude a
\* profile between the second look at it and its removal, because the
\* exclusions wait for the lifecycle lock (cleanup_inactive_devices).
THEOREM ExcludedAreKept == Spec => ExcludedNeverDeleted
<1>1. TypeOK /\ Chosen /\ [Next]_vars =>
        [\A d \in Devices : pc = "delete" /\ profile[d].key # 0 /\ profile'[d].key = 0
                               => profile[d].excluded = "none"]_vars
  <2> SUFFICES ASSUME TypeOK, Chosen, Next, NEW d \in Devices, pc = "delete",
                      profile[d].key # 0, profile'[d].key = 0
               PROVE  profile[d].excluded = "none"
    OBVIOUS
  <2>1. profile' # profile
    OBVIOUS
  <2>2. Delete
    BY <2>1 DEF Next, RunStep, Around, Observe, Save, Recheck, SaveOne, RunEnds, Tick, Crash, Reboot,
                Traffic, Include, OwnerDeletes, Exclude, Create, Idle
  <2>3. dev \in Devices /\ profile' \in {profile, [profile EXCEPT ![dev].key = 0]}
    BY <2>2 DEF Delete, TypeOK
  <2>4. d = dev
    BY <2>1, <2>3 DEF TypeOK
  <2> QED
    BY <2>4 DEF Chosen, Eligible
<1> QED
  BY <1>1, ChosenInvariant, PTL DEF Spec, ExcludedNeverDeleted

=============================================================================
