------------------------- MODULE TrafficAccounting -------------------------
(***************************************************************************)
(* traffic.collect_traffic: the background loop, the administrator's page  *)
(* and every pause read the kernel's counters and add what is new since    *)
(* the last sample to the monthly totals.  The counters are read before    *)
(* the traffic lock is taken, so samples may be applied in another order   *)
(* than they were read.  A counter smaller than the last sample is taken   *)
(* for one that started again; a pause says so itself.                     *)
(*                                                                         *)
(* Simplifications.  Received and transmitted bytes follow one rule and    *)
(* are one counter; the months of a profile are one total.  A profile made *)
(* again under its name has the address of the old one, and is taken to be *)
(* in the list of devices that is read between the counters and the totals.*)
(***************************************************************************)
EXTENDS Integers

CONSTANTS Metered,    \* profiles
          Collectors, \* threads that may collect at a time
          MaxCarried, \* bounds: a counter, and how often it starts again
          MaxEpoch

ASSUME TrafficAssumption == MaxCarried \in Nat /\ MaxEpoch \in Nat \ {0}

VARIABLES
    state,      \* per profile: "on", "paused" or "gone"
    kernel,     \* its counter
    epoch,      \* how often the counter started
    record,     \* traffic.json: last sample and total
    sample,     \* per collector: what it has read and not yet applied
    resetting,  \* peers taken out by a pause, last not yet set to zero
    before,     \* ghost: bytes of ended epochs that were accounted while they lasted,
    seen,       \* and of this one
    unnoticed,  \* ghost: an epoch ended and nothing told the record
    missed,     \* ghost: and the counter passed the last sample again
    disturbed   \* ghost: a sample was out of date when another step needed it applied

trafficVars == <<state, kernel, epoch, record, sample, resetting, before, seen, unnoticed, missed, disturbed>>

States == {"on", "paused", "gone"}
\* A collector that has nothing: no epoch is 0.
Nothing == [p \in Metered |-> [epoch |-> 0, bytes |-> 0]]

-----------------------------------------------------------------------------
Carry(p) ==
    /\ state[p] = "on" /\ kernel[p] < MaxCarried
    /\ kernel' = [kernel EXCEPT ![p] = @ + 1]
    /\ UNCHANGED <<state, epoch, record, sample, resetting, before, seen, unnoticed, missed, disturbed>>

\* get_wg_peer_stats: only peers the kernel has; none at all ends the collection.
Read(c) ==
    /\ sample[c] = Nothing /\ \E p \in Metered : state[p] = "on"
    /\ sample' = [sample EXCEPT ![c] = [p \in Metered |->
                     IF state[p] = "on" THEN [epoch |-> epoch[p], bytes |-> kernel[p]]
                                        ELSE [epoch |-> 0, bytes |-> 0]]]
    /\ disturbed' = (disturbed \/ \E x \in Collectors : sample[x] # Nothing)
    /\ UNCHANGED <<state, kernel, epoch, record, resetting, before, seen, unnoticed, missed>>

\* One entry of apply.  Mutants: a smaller counter counts nothing; every
\* counter counts in full.
AddedUpwards(r, bytes) ==
    [last |-> bytes, total |-> r.total + (IF bytes >= r.last THEN bytes - r.last ELSE 0)]
AddedAlways(r, bytes) == [last |-> bytes, total |-> r.total + bytes]
Added(r, bytes) ==
    [last |-> bytes, total |-> r.total + (IF bytes >= r.last THEN bytes - r.last ELSE bytes)]

\* The profiles of a sample that still have a configuration.
Applies(c, p) == sample[c][p].epoch # 0 /\ state[p] # "gone"
Current(c, p) == Applies(c, p) /\ sample[c][p].epoch = epoch[p]

Apply(c) ==
    /\ sample[c] # Nothing
    /\ record' = [p \in Metered |-> IF Applies(c, p) THEN Added(record[p], sample[c][p].bytes)
                                                     ELSE record[p]]
    /\ seen' = [p \in Metered |-> IF Current(c, p) /\ sample[c][p].bytes > seen[p]
                                  THEN sample[c][p].bytes ELSE seen[p]]
    /\ missed' = missed \cup {p \in unnoticed : Current(c, p) /\ sample[c][p].bytes >= record[p].last}
    /\ unnoticed' = {p \in unnoticed : ~Current(c, p)}
    /\ sample' = [sample EXCEPT ![c] = Nothing]
    /\ UNCHANGED <<state, kernel, epoch, resetting, before, disturbed>>

\* The write fails or the process dies.
Forgotten(c) ==
    /\ sample[c] # Nothing
    /\ sample' = [sample EXCEPT ![c] = Nothing]
    /\ UNCHANGED <<state, kernel, epoch, record, resetting, before, seen, unnoticed, missed, disturbed>>

-----------------------------------------------------------------------------
(* What ends a counter *)

EpochEnds(P) ==
    /\ kernel' = [p \in Metered |-> IF p \in P THEN 0 ELSE kernel[p]]
    /\ epoch' = [p \in Metered |-> IF p \in P THEN epoch[p] + 1 ELSE epoch[p]]
    /\ before' = [p \in Metered |-> IF p \in P THEN before[p] + seen[p] ELSE before[p]]
    /\ seen' = [p \in Metered |-> IF p \in P THEN 0 ELSE seen[p]]
    /\ unnoticed' = unnoticed \cup P
    /\ missed' = missed \cup (unnoticed \cap P)
    /\ disturbed' = (disturbed \/ \E c \in Collectors : sample[c] # Nothing)

\* _pause_peers: the peer leaves the kernel; then its last sample becomes zero,
\* unless that write fails.
PauseMeter(p) ==
    /\ state[p] = "on" /\ epoch[p] < MaxEpoch
    /\ state' = [state EXCEPT ![p] = "paused"] /\ resetting' = resetting \cup {p}
    /\ EpochEnds({p})
    /\ UNCHANGED <<record, sample>>

ResetCounters(p) ==
    /\ p \in resetting /\ resetting' = resetting \ {p}
    /\ record' = [record EXCEPT ![p].last = 0]
    /\ unnoticed' = unnoticed \ {p}
    /\ UNCHANGED <<state, kernel, epoch, sample, before, seen, missed, disturbed>>

ResetFails(p) ==
    /\ p \in resetting /\ resetting' = resetting \ {p}
    /\ UNCHANGED <<state, kernel, epoch, record, sample, before, seen, unnoticed, missed, disturbed>>

ResumeMeter(p) ==
    /\ state[p] = "paused" /\ p \notin resetting
    /\ state' = [state EXCEPT ![p] = "on"]
    /\ UNCHANGED <<kernel, epoch, record, sample, resetting, before, seen, unnoticed, missed, disturbed>>

\* wg0 is made again.
MetersRestart ==
    /\ \A p \in Metered : epoch[p] < MaxEpoch
    /\ EpochEnds({p \in Metered : state[p] = "on"})
    /\ UNCHANGED <<state, record, sample, resetting>>

\* The record outlives its profile; a profile made again goes on with it.
RemoveMetered(p) ==
    /\ state[p] # "gone" /\ p \notin resetting
    /\ state' = [state EXCEPT ![p] = "gone"]
    /\ UNCHANGED <<kernel, epoch, record, sample, resetting, before, seen, unnoticed, missed, disturbed>>

MakeMetered(p) ==
    /\ state[p] = "gone" /\ epoch[p] < MaxEpoch
    /\ state' = [state EXCEPT ![p] = "on"]
    /\ EpochEnds({p})
    /\ UNCHANGED <<record, sample, resetting>>

TrafficInit ==
    /\ state = [p \in Metered |-> "on"] /\ kernel = [p \in Metered |-> 0]
    /\ epoch = [p \in Metered |-> 1]
    /\ record = [p \in Metered |-> [last |-> 0, total |-> 0]]
    /\ sample = [c \in Collectors |-> Nothing] /\ resetting = {}
    /\ before = [p \in Metered |-> 0] /\ seen = [p \in Metered |-> 0]
    /\ unnoticed = {} /\ missed = {} /\ disturbed = FALSE

Collect(c) == Read(c) \/ Apply(c) \/ Forgotten(c)
Meter(p) == \/ Carry(p) \/ PauseMeter(p) \/ ResetCounters(p) \/ ResetFails(p) \/ ResumeMeter(p)
            \/ RemoveMetered(p) \/ MakeMetered(p)

TrafficNext == MetersRestart \/ (\E c \in Collectors : Collect(c)) \/ (\E p \in Metered : Meter(p))

TrafficSpec == TrafficInit /\ [][TrafficNext]_trafficVars

-----------------------------------------------------------------------------
(* Properties *)

\* Every variable holds what the kernel, traffic.json and a collector can hold.
TrafficTypeOK ==
    /\ state \in [Metered -> States] /\ kernel \in [Metered -> 0..MaxCarried]
    /\ epoch \in [Metered -> 1..MaxEpoch]
    /\ record \in [Metered -> [last : 0..MaxCarried, total : Nat]]
    /\ sample \in [Collectors -> [Metered -> [epoch : 0..MaxEpoch, bytes : 0..MaxCarried]]]
    /\ resetting \subseteq Metered /\ unnoticed \subseteq Metered /\ missed \subseteq Metered
    /\ before \in [Metered -> Nat] /\ seen \in [Metered -> 0..MaxCarried]
    /\ disturbed \in BOOLEAN

\* However collections overlap and whatever order they are applied in, and
\* across pauses, reboots and profiles made again, the total holds at least
\* every byte that was accounted: that a sample reported and that was applied
\* while the counter it was read from still ran.  Left out are counters that
\* started again behind the record's back and passed the last sample before the
\* next one.
NeverUndercounted ==
    \A p \in Metered \ missed : record[p].total >= before[p] + seen[p]

\* The total is exactly those bytes as long as no two collections overlapped
\* and no counter started again under a collection.
ExactWhenSerial ==
    \A p \in Metered \ missed : ~disturbed => record[p].total = before[p] + seen[p]

=============================================================================
