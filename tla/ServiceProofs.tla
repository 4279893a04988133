--------------------------- MODULE ServiceProofs ---------------------------
(***************************************************************************)
(* The parts of the panel's process that share no variable, for any        *)
(* profiles, accounts and bounds.                                          *)
(*   Traffic accounting: nothing accounted is ever lost from a total, and  *)
(*   a total is exact while collections do not overlap.                    *)
(*   Payment reminders: a month's mark means both parts were acknowledged, *)
(*   and no part is sent twice unless its record was lost.                 *)
(*   Deletion challenges: a confirmed deletion acts on what was shown.     *)
(*   Sliding windows: no bucket admits more than its rate within the span  *)
(*   less what a reading of the clock may be late.                         *)
(*   Login failures: the guesses admitted for a key without a success stay *)
(*   within the threshold and the slots, over the window less that.        *)
(***************************************************************************)
EXTENDS MCPanelServices, FiniteSetTheorems, SequenceTheorems, WellFoundedInduction, TLAPS

Records == [Metered -> [last : 0..MaxCarried, total : Nat]]

LEMMA AddedIs ==
    ASSUME NEW r \in [last : 0..MaxCarried, total : Nat], NEW bytes \in 0..MaxCarried
    PROVE  /\ Added(r, bytes) \in [last : 0..MaxCarried, total : Nat]
           /\ Added(r, bytes).last = bytes
           /\ bytes >= r.last => Added(r, bytes).total = r.total + bytes - r.last
           /\ bytes < r.last => Added(r, bytes).total = r.total + bytes
BY TrafficAssumption DEF Added

-----------------------------------------------------------------------------
(* Types *)

LEMMA TypeInit == TrafficInit => TrafficTypeOK
<1> SUFFICES ASSUME TrafficInit PROVE TrafficTypeOK
  OBVIOUS
<1>1. Nothing \in [Metered -> [epoch : 0..MaxEpoch, bytes : 0..MaxCarried]]
  BY TrafficAssumption DEF Nothing
<1>2. sample \in [Collectors -> [Metered -> [epoch : 0..MaxEpoch, bytes : 0..MaxCarried]]]
  BY <1>1 DEF TrafficInit
<1>3. record \in [Metered -> [last : 0..MaxCarried, total : Nat]]
  BY TrafficAssumption DEF TrafficInit
<1>4. kernel \in [Metered -> 0..MaxCarried] /\ epoch \in [Metered -> 1..MaxEpoch]
  BY TrafficAssumption DEF TrafficInit
<1>5. before \in [Metered -> Nat] /\ seen \in [Metered -> 0..MaxCarried]
  BY TrafficAssumption DEF TrafficInit
<1>6. state \in [Metered -> States] /\ disturbed \in BOOLEAN
  BY DEF TrafficInit, States
<1>7. resetting \subseteq Metered /\ unnoticed \subseteq Metered /\ missed \subseteq Metered
  BY DEF TrafficInit
<1> QED BY <1>2, <1>3, <1>4, <1>5, <1>6, <1>7 DEF TrafficTypeOK

LEMMA TypeEpochEnds ==
    ASSUME TrafficTypeOK, NEW P \in SUBSET Metered, \A p \in P : epoch[p] < MaxEpoch, EpochEnds(P)
    PROVE  /\ kernel' \in [Metered -> 0..MaxCarried] /\ epoch' \in [Metered -> 1..MaxEpoch]
           /\ before' \in [Metered -> Nat] /\ seen' \in [Metered -> 0..MaxCarried]
           /\ unnoticed' \subseteq Metered /\ missed' \subseteq Metered
           /\ disturbed' \in BOOLEAN
<1>1. kernel' \in [Metered -> 0..MaxCarried]
  BY TrafficAssumption DEF TrafficTypeOK, EpochEnds
<1>2. epoch' \in [Metered -> 1..MaxEpoch]
  BY TrafficAssumption DEF TrafficTypeOK, EpochEnds
<1>3. before' \in [Metered -> Nat] /\ seen' \in [Metered -> 0..MaxCarried]
  BY TrafficAssumption DEF TrafficTypeOK, EpochEnds
<1>4. unnoticed' \subseteq Metered /\ missed' \subseteq Metered /\ disturbed' \in BOOLEAN
  BY DEF TrafficTypeOK, EpochEnds
<1> QED BY <1>1, <1>2, <1>3, <1>4

LEMMA TypeRead ==
    ASSUME TrafficTypeOK, NEW c \in Collectors, Read(c)
    PROVE  TrafficTypeOK'
<1> DEFINE new == [p \in Metered |-> IF state[p] = "on" THEN [epoch |-> epoch[p], bytes |-> kernel[p]]
                                                       ELSE [epoch |-> 0, bytes |-> 0]]
<1>1. new \in [Metered -> [epoch : 0..MaxEpoch, bytes : 0..MaxCarried]]
  BY TrafficAssumption DEF TrafficTypeOK
<1>2. sample' = [sample EXCEPT ![c] = new] /\ disturbed' \in BOOLEAN
  BY DEF Read
<1> HIDE DEF new
<1>3. sample' \in [Collectors -> [Metered -> [epoch : 0..MaxEpoch, bytes : 0..MaxCarried]]]
  BY <1>1, <1>2 DEF TrafficTypeOK
<1> QED BY <1>2, <1>3 DEF Read, TrafficTypeOK

LEMMA ApplyRecord ==
    ASSUME TrafficTypeOK, NEW c \in Collectors, Apply(c)
    PROVE  /\ record' \in Records
           /\ \A p \in Metered : record'[p] = IF Applies(c, p) THEN Added(record[p], sample[c][p].bytes)
                                                              ELSE record[p]
<1>1. \A p \in Metered : /\ record[p] \in [last : 0..MaxCarried, total : Nat]
                         /\ sample[c][p].bytes \in 0..MaxCarried
  BY DEF TrafficTypeOK
<1>2. \A p \in Metered : Added(record[p], sample[c][p].bytes) \in [last : 0..MaxCarried, total : Nat]
  BY <1>1, AddedIs
<1>3. record' = [p \in Metered |-> IF Applies(c, p) THEN Added(record[p], sample[c][p].bytes)
                                                   ELSE record[p]]
  BY DEF Apply
<1> QED BY <1>1, <1>2, <1>3 DEF Records

LEMMA TypeApply ==
    ASSUME TrafficTypeOK, NEW c \in Collectors, Apply(c)
    PROVE  TrafficTypeOK'
<1>1. record' \in Records
  BY ApplyRecord
<1>2. Nothing \in [Metered -> [epoch : 0..MaxEpoch, bytes : 0..MaxCarried]]
  BY TrafficAssumption DEF Nothing
<1>3. sample' \in [Collectors -> [Metered -> [epoch : 0..MaxEpoch, bytes : 0..MaxCarried]]]
  BY <1>2 DEF TrafficTypeOK, Apply
<1>4. seen' \in [Metered -> 0..MaxCarried]
  BY DEF TrafficTypeOK, Apply
<1>5. unnoticed' \subseteq Metered /\ missed' \subseteq Metered
  BY DEF TrafficTypeOK, Apply
<1> QED BY <1>1, <1>3, <1>4, <1>5 DEF Apply, TrafficTypeOK, Records

LEMMA TypeForgotten ==
    ASSUME TrafficTypeOK, NEW c \in Collectors, Forgotten(c)
    PROVE  TrafficTypeOK'
<1>1. Nothing \in [Metered -> [epoch : 0..MaxEpoch, bytes : 0..MaxCarried]]
  BY TrafficAssumption DEF Nothing
<1> QED BY <1>1 DEF TrafficTypeOK, Forgotten

LEMMA ResetRecord ==
    ASSUME TrafficTypeOK, NEW p \in Metered, ResetCounters(p)
    PROVE  /\ record' \in Records
           /\ record'[p].last = 0 /\ record'[p].total = record[p].total
           /\ \A q \in Metered : q # p => record'[q] = record[q]
<1> DEFINE zero == [record[p] EXCEPT !.last = 0]
<1>1. record[p] \in [last : 0..MaxCarried, total : Nat]
  BY DEF TrafficTypeOK
<1>2. zero \in [last : 0..MaxCarried, total : Nat] /\ zero.last = 0 /\ zero.total = record[p].total
  BY <1>1, TrafficAssumption
<1>3. record' = [record EXCEPT ![p] = zero]
  BY DEF ResetCounters
<1> HIDE DEF zero
<1> QED BY <1>2, <1>3 DEF TrafficTypeOK, Records

LEMMA TypeMeter ==
    ASSUME TrafficTypeOK, NEW p \in Metered, Meter(p)
    PROVE  TrafficTypeOK'
<1>1. CASE Carry(p)
  BY <1>1, TrafficAssumption DEF Carry, TrafficTypeOK
<1>2. CASE PauseMeter(p)
  <2>1. {p} \in SUBSET Metered /\ (\A q \in {p} : epoch[q] < MaxEpoch) /\ EpochEnds({p})
    BY <1>2 DEF PauseMeter
  <2>2. state' \in [Metered -> States] /\ resetting' \subseteq Metered
    BY <1>2 DEF PauseMeter, TrafficTypeOK, States
  <2> QED BY <1>2, <2>1, <2>2, TypeEpochEnds DEF PauseMeter, TrafficTypeOK
<1>3. CASE ResetCounters(p)
  <2>1. record' \in Records
    BY <1>3, ResetRecord
  <2> QED BY <1>3, <2>1 DEF ResetCounters, TrafficTypeOK, Records
<1>4. CASE ResetFails(p)
  BY <1>4 DEF ResetFails, TrafficTypeOK
<1>5. CASE ResumeMeter(p)
  BY <1>5 DEF ResumeMeter, TrafficTypeOK, States
<1>6. CASE RemoveMetered(p)
  BY <1>6 DEF RemoveMetered, TrafficTypeOK, States
<1>7. CASE MakeMetered(p)
  <2>1. {p} \in SUBSET Metered /\ (\A q \in {p} : epoch[q] < MaxEpoch) /\ EpochEnds({p})
    BY <1>7 DEF MakeMetered
  <2>2. state' \in [Metered -> States]
    BY <1>7 DEF MakeMetered, TrafficTypeOK, States
  <2> QED BY <1>7, <2>1, <2>2, TypeEpochEnds DEF MakeMetered, TrafficTypeOK
<1> QED BY <1>1, <1>2, <1>3, <1>4, <1>5, <1>6, <1>7 DEF Meter

LEMMA TypeRestart ==
    ASSUME TrafficTypeOK, MetersRestart
    PROVE  TrafficTypeOK'
<1> DEFINE P == {p \in Metered : state[p] = "on"}
<1>1. P \in SUBSET Metered /\ (\A q \in P : epoch[q] < MaxEpoch) /\ EpochEnds(P)
  BY DEF MetersRestart
<1> HIDE DEF P
<1> QED BY <1>1, TypeEpochEnds DEF MetersRestart, TrafficTypeOK

LEMMA TypeStep == TrafficTypeOK /\ [TrafficNext]_trafficVars => TrafficTypeOK'
<1> SUFFICES ASSUME TrafficTypeOK, [TrafficNext]_trafficVars PROVE TrafficTypeOK'
  OBVIOUS
<1>1. CASE MetersRestart
  BY <1>1, TypeRestart
<1>2. ASSUME NEW c \in Collectors, Collect(c) PROVE TrafficTypeOK'
  BY <1>2, TypeRead, TypeApply, TypeForgotten DEF Collect
<1>3. ASSUME NEW p \in Metered, Meter(p) PROVE TrafficTypeOK'
  BY <1>3, TypeMeter
<1>4. CASE UNCHANGED trafficVars
  BY <1>4 DEF trafficVars, TrafficTypeOK
<1> QED BY <1>1, <1>2, <1>3, <1>4 DEF TrafficNext

\* Every variable keeps its type, whatever the profiles, collectors and bounds.
THEOREM TrafficTypes == TrafficSpec => []TrafficTypeOK
BY TypeInit, TypeStep, PTL DEF TrafficSpec

-----------------------------------------------------------------------------
(* Nothing accounted is lost *)

\* What the record of p is sure to hold.  While a new epoch is unnoticed
\* nothing of it was accounted; afterwards the bytes above the last sample
\* hold every earlier epoch.
Holds(p) ==
    IF p \in unnoticed
    THEN seen[p] = 0 /\ record[p].total >= before[p]
    ELSE /\ record[p].total >= before[p] + seen[p]
         /\ record[p].total - record[p].last >= before[p]

Accounted == TrafficTypeOK /\ \A p \in Metered \ missed : Holds(p)

LEMMA NumbersTyped ==
    ASSUME TrafficTypeOK, NEW p \in Metered
    PROVE  /\ record[p] \in [last : 0..MaxCarried, total : Nat]
           /\ record[p].last \in Nat /\ record[p].total \in Nat
           /\ before[p] \in Nat /\ seen[p] \in Nat
           /\ \A c \in Collectors : sample[c][p].bytes \in 0..MaxCarried
BY TrafficAssumption DEF TrafficTypeOK

LEMMA AccountedInit == TrafficInit => Accounted
<1> SUFFICES ASSUME TrafficInit, NEW p \in Metered PROVE Holds(p)
  BY TypeInit DEF Accounted
<1>1. record[p] = [last |-> 0, total |-> 0] /\ before[p] = 0 /\ seen[p] = 0 /\ p \notin unnoticed
  BY DEF TrafficInit
<1>2. record[p].last = 0 /\ record[p].total = 0
  BY <1>1
<1> QED BY <1>1, <1>2 DEF Holds

LEMMA AccountedApply ==
    ASSUME Accounted, NEW c \in Collectors, Apply(c), NEW p \in Metered \ missed'
    PROVE  Holds(p)'
<1> DEFINE b == sample[c][p].bytes
<1>1. TrafficTypeOK /\ p \notin missed /\ Holds(p)
  BY DEF Accounted, Apply
<1>2. /\ record[p] \in [last : 0..MaxCarried, total : Nat]
      /\ record[p].last \in Nat /\ record[p].total \in Nat
      /\ before[p] \in Nat /\ seen[p] \in Nat /\ b \in 0..MaxCarried /\ b \in Nat
  BY <1>1, NumbersTyped, TrafficAssumption
<1>3. before' = before /\ (p \in unnoticed' <=> p \in unnoticed /\ ~Current(c, p))
  BY DEF Apply
<1>4. seen'[p] = IF Current(c, p) /\ b > seen[p] THEN b ELSE seen[p]
  BY <1>1 DEF Apply, TrafficTypeOK
<1>5. p \in unnoticed /\ Current(c, p) => b < record[p].last
  BY <1>2 DEF Apply
<1>6. record'[p] = IF Applies(c, p) THEN Added(record[p], b) ELSE record[p]
  BY <1>1, ApplyRecord
<1>7. /\ Added(record[p], b).last = b
      /\ b >= record[p].last => Added(record[p], b).total = record[p].total + b - record[p].last
      /\ b < record[p].last => Added(record[p], b).total = record[p].total + b
  BY <1>2, AddedIs
<1>8. Current(c, p) => Applies(c, p)
  BY DEF Current
<1> HIDE DEF b
<1>9. CASE ~Applies(c, p)
  BY <1>1, <1>3, <1>4, <1>6, <1>8, <1>9 DEF Holds
<1>10. CASE Applies(c, p) /\ ~Current(c, p)
  <2>1. record'[p] = Added(record[p], b) /\ seen'[p] = seen[p] /\ (p \in unnoticed' <=> p \in unnoticed)
    BY <1>3, <1>4, <1>6, <1>10
  <2> QED BY <1>1, <1>2, <1>3, <1>7, <2>1 DEF Holds
<1>11. CASE Current(c, p)
  <2>1. record'[p] = Added(record[p], b) /\ p \notin unnoticed'
    BY <1>3, <1>6, <1>8, <1>11
  <2>2. seen'[p] = IF b > seen[p] THEN b ELSE seen[p]
    BY <1>4, <1>11
  <2>3. CASE p \in unnoticed
    BY <1>1, <1>2, <1>3, <1>5, <1>7, <1>11, <2>1, <2>2, <2>3 DEF Holds
  <2>4. CASE p \notin unnoticed
    BY <1>1, <1>2, <1>3, <1>7, <2>1, <2>2, <2>4 DEF Holds
  <2> QED BY <2>3, <2>4
<1> QED BY <1>9, <1>10, <1>11

LEMMA AccountedEpochEnds ==
    ASSUME Accounted, NEW P \in SUBSET Metered, EpochEnds(P), record' = record,
           NEW p \in Metered \ missed'
    PROVE  Holds(p)'
<1>1. p \notin missed /\ Holds(p) /\ ~(p \in unnoticed /\ p \in P)
  BY DEF Accounted, EpochEnds
<1>2. record[p].last \in Nat /\ record[p].total \in Nat /\ before[p] \in Nat /\ seen[p] \in Nat
  BY NumbersTyped DEF Accounted
<1>3. CASE p \in P
  <2>1. before'[p] = before[p] + seen[p] /\ seen'[p] = 0 /\ p \in unnoticed'
    BY <1>3 DEF EpochEnds
  <2> QED BY <1>1, <1>2, <1>3, <2>1 DEF Holds
<1>4. CASE p \notin P
  <2>1. before'[p] = before[p] /\ seen'[p] = seen[p] /\ (p \in unnoticed' <=> p \in unnoticed)
    BY <1>4 DEF EpochEnds
  <2> QED BY <1>1, <2>1 DEF Holds
<1> QED BY <1>3, <1>4

LEMMA AccountedReset ==
    ASSUME Accounted, NEW q \in Metered, ResetCounters(q), NEW p \in Metered \ missed'
    PROVE  Holds(p)'
<1>1. TrafficTypeOK /\ p \notin missed /\ Holds(p) /\ before' = before /\ seen' = seen
  BY DEF Accounted, ResetCounters
<1>2. record[p].last \in Nat /\ record[p].total \in Nat /\ before[p] \in Nat /\ seen[p] \in Nat
  BY <1>1, NumbersTyped
<1>3. CASE p = q
  <2>1. record'[p].last = 0 /\ record'[p].total = record[p].total /\ p \notin unnoticed'
    BY <1>1, <1>3, ResetRecord DEF ResetCounters
  <2> QED BY <1>1, <1>2, <2>1 DEF Holds
<1>4. CASE p # q
  <2>1. record'[p] = record[p] /\ (p \in unnoticed' <=> p \in unnoticed)
    BY <1>1, <1>4, ResetRecord DEF ResetCounters
  <2> QED BY <1>1, <2>1 DEF Holds
<1> QED BY <1>3, <1>4

LEMMA AccountedSame ==
    ASSUME Accounted, UNCHANGED <<record, before, seen, unnoticed, missed>>,
           NEW p \in Metered \ missed'
    PROVE  Holds(p)'
BY DEF Accounted, Holds

LEMMA AccountedStep == Accounted /\ [TrafficNext]_trafficVars => Accounted'
<1> SUFFICES ASSUME Accounted, [TrafficNext]_trafficVars, NEW p \in Metered \ missed' PROVE Holds(p)'
  BY TypeStep DEF Accounted
<1>1. CASE MetersRestart
  <2> DEFINE P == {q \in Metered : state[q] = "on"}
  <2>1. P \in SUBSET Metered /\ EpochEnds(P) /\ record' = record
    BY <1>1 DEF MetersRestart
  <2> HIDE DEF P
  <2> QED BY <2>1, AccountedEpochEnds
<1>2. ASSUME NEW c \in Collectors, Collect(c) PROVE Holds(p)'
  <2>1. CASE Read(c)
    BY <2>1, AccountedSame DEF Read
  <2>2. CASE Apply(c)
    BY <2>2, AccountedApply
  <2>3. CASE Forgotten(c)
    BY <2>3, AccountedSame DEF Forgotten
  <2> QED BY <1>2, <2>1, <2>2, <2>3 DEF Collect
<1>3. ASSUME NEW q \in Metered, Meter(q) PROVE Holds(p)'
  <2>1. CASE PauseMeter(q) \/ MakeMetered(q)
    <3>1. {q} \in SUBSET Metered /\ EpochEnds({q}) /\ record' = record
      BY <2>1 DEF PauseMeter, MakeMetered
    <3> QED BY <3>1, AccountedEpochEnds
  <2>2. CASE ResetCounters(q)
    BY <2>2, AccountedReset
  <2>3. CASE Carry(q) \/ ResetFails(q) \/ ResumeMeter(q) \/ RemoveMetered(q)
    BY <2>3, AccountedSame DEF Carry, ResetFails, ResumeMeter, RemoveMetered
  <2> QED BY <1>3, <2>1, <2>2, <2>3 DEF Meter
<1>4. CASE UNCHANGED trafficVars
  BY <1>4, AccountedSame DEF trafficVars
<1> QED BY <1>1, <1>2, <1>3, <1>4 DEF TrafficNext

LEMMA AccountedEnough == Accounted => NeverUndercounted
<1> SUFFICES ASSUME Accounted, NEW p \in Metered \ missed PROVE record[p].total >= before[p] + seen[p]
  BY DEF NeverUndercounted
<1>1. Holds(p) /\ record[p].total \in Nat /\ before[p] \in Nat /\ seen[p] \in Nat
  BY NumbersTyped DEF Accounted
<1> QED BY <1>1 DEF Holds

\* Whatever order overlapping collections are applied in, and whatever pauses,
\* restarts and failed writes lie between them, no byte that a sample reported
\* and that was applied while its epoch lasted is lost from the total, unless
\* the counter passed its last sample unseen.
THEOREM NeverLost == TrafficSpec => []NeverUndercounted
BY AccountedInit, AccountedStep, AccountedEnough, PTL DEF TrafficSpec

-----------------------------------------------------------------------------
(* And nothing is counted twice while collections do not overlap *)

\* A pending sample is of the epochs that run, and lies between what was
\* accounted and the counter.
Pending(c, p) ==
    sample[c][p].epoch # 0 =>
        /\ sample[c][p].epoch = epoch[p]
        /\ seen[p] <= sample[c][p].bytes /\ sample[c][p].bytes <= kernel[p]

Metering(p) ==
    /\ seen[p] <= kernel[p]
    /\ p \in resetting => state[p] = "paused" /\ kernel[p] = 0

Alone(c) == \A x \in Collectors : x # c => sample[x] = Nothing

ExactlyHolds(p) ==
    IF p \in unnoticed
    THEN seen[p] = 0 /\ record[p].total = before[p]
    ELSE record[p].total = before[p] + seen[p] /\ record[p].last = seen[p]

Undisturbed ==
    /\ \A c \in Collectors : sample[c] # Nothing => Alone(c)
    /\ \A p \in Metered : Metering(p) /\ \A c \in Collectors : Pending(c, p)
    /\ \A p \in Metered \ missed : ExactlyHolds(p)

Exact == TrafficTypeOK /\ (~disturbed => Undisturbed)

LEMMA NothingPending ==
    ASSUME NEW c \in Collectors, NEW p \in Metered, sample[c] = Nothing
    PROVE  sample[c][p].epoch = 0
BY DEF Nothing

LEMMA ExactInit == TrafficInit => Exact
<1> SUFFICES ASSUME TrafficInit PROVE Undisturbed
  BY TypeInit DEF Exact
<1>1. \A c \in Collectors : sample[c] = Nothing
  BY DEF TrafficInit
<1>2. ASSUME NEW p \in Metered PROVE Metering(p) /\ ExactlyHolds(p)
  <2>1. /\ record[p] = [last |-> 0, total |-> 0] /\ before[p] = 0 /\ seen[p] = 0
        /\ p \notin unnoticed /\ p \notin resetting /\ kernel[p] = 0
    BY DEF TrafficInit
  <2>2. record[p].last = 0 /\ record[p].total = 0
    BY <2>1
  <2> QED BY <2>1, <2>2 DEF Metering, ExactlyHolds
<1> QED BY <1>1, <1>2, NothingPending DEF Undisturbed, Pending

LEMMA ExactRead ==
    ASSUME TrafficTypeOK, Undisturbed, NEW c \in Collectors, Read(c), ~disturbed'
    PROVE  Undisturbed'
<1> DEFINE new == [p \in Metered |-> IF state[p] = "on" THEN [epoch |-> epoch[p], bytes |-> kernel[p]]
                                                       ELSE [epoch |-> 0, bytes |-> 0]]
<1>1. \A x \in Collectors : sample[x] = Nothing
  BY DEF Read
<1>2. sample' = [sample EXCEPT ![c] = new]
  BY DEF Read
<1>3. \A p \in Metered : /\ new[p].epoch # 0 => new[p].epoch = epoch[p]
                         /\ new[p].epoch # 0 => new[p].bytes = kernel[p]
  OBVIOUS
<1> HIDE DEF new
<1>4. /\ sample'[c] = new
      /\ \A x \in Collectors : x # c => sample'[x] = Nothing
  BY <1>1, <1>2 DEF TrafficTypeOK
<1>5. UNCHANGED <<state, kernel, epoch, record, resetting, before, seen, unnoticed, missed>>
  BY DEF Read
<1>6. \A x \in Collectors : sample'[x] # Nothing' => Alone(x)'
  BY <1>4 DEF Alone, Nothing
<1>7. ASSUME NEW p \in Metered, NEW x \in Collectors PROVE Pending(x, p)'
  <2>1. CASE x # c
    <3>1. sample'[x][p].epoch = 0
      BY <1>4, <2>1 DEF Nothing
    <3> QED BY <3>1 DEF Pending
  <2>2. CASE x = c
    <3>1. seen[p] <= kernel[p] /\ kernel[p] \in Nat
      BY TrafficAssumption DEF Undisturbed, Metering, TrafficTypeOK
    <3> QED BY <1>3, <1>4, <1>5, <2>2, <3>1 DEF Pending
  <2> QED BY <2>1, <2>2
<1>8. \A p \in Metered : Metering(p)'
  BY <1>5 DEF Undisturbed, Metering
<1>9. \A p \in Metered \ missed' : ExactlyHolds(p)'
  BY <1>5 DEF Undisturbed, ExactlyHolds
<1> QED BY <1>6, <1>7, <1>8, <1>9 DEF Undisturbed

LEMMA ExactApply ==
    ASSUME TrafficTypeOK, Undisturbed, NEW c \in Collectors, Apply(c)
    PROVE  Undisturbed'
<1>1. \A x \in Collectors : sample'[x] = Nothing
  BY DEF Apply, Undisturbed, Alone, TrafficTypeOK
<1>2. \A x \in Collectors : sample'[x] # Nothing' => Alone(x)'
  BY <1>1 DEF Nothing
<1>3. \A p \in Metered, x \in Collectors : Pending(x, p)'
  BY <1>1 DEF Pending, Nothing
<1>4. ASSUME NEW p \in Metered
      PROVE  Metering(p)' /\ (p \notin missed' => ExactlyHolds(p)')
  <2> DEFINE b == sample[c][p].bytes
  <2>1. /\ record[p] \in [last : 0..MaxCarried, total : Nat]
        /\ record[p].last \in Nat /\ record[p].total \in Nat
        /\ before[p] \in Nat /\ seen[p] \in Nat /\ b \in 0..MaxCarried /\ b \in Nat
    BY NumbersTyped, TrafficAssumption
  <2>2. Metering(p) /\ Pending(c, p) /\ (p \notin missed => ExactlyHolds(p))
    BY DEF Undisturbed
  <2>3. kernel' = kernel /\ state' = state /\ resetting' = resetting /\ before' = before
    BY DEF Apply
  <2>4. seen'[p] = IF Current(c, p) /\ b > seen[p] THEN b ELSE seen[p]
    BY DEF Apply, TrafficTypeOK
  <2>5. record'[p] = IF Applies(c, p) THEN Added(record[p], b) ELSE record[p]
    BY ApplyRecord
  <2>6. Applies(c, p) <=> Current(c, p)
    BY <2>2 DEF Applies, Current, Pending
  <2>7. /\ Added(record[p], b).last = b
        /\ b >= record[p].last => Added(record[p], b).total = record[p].total + b - record[p].last
        /\ b < record[p].last => Added(record[p], b).total = record[p].total + b
    BY <2>1, AddedIs
  <2>8. Current(c, p) => seen[p] <= b /\ b <= kernel[p]
    BY <2>2 DEF Current, Applies, Pending
  <2>9. p \in unnoticed' <=> p \in unnoticed /\ ~Current(c, p)
    BY DEF Apply
  <2>10. p \notin missed' => p \notin missed /\ (p \in unnoticed /\ Current(c, p) => b < record[p].last)
    BY <2>1 DEF Apply
  <2> HIDE DEF b
  <2>11. Metering(p)'
    BY <2>1, <2>2, <2>3, <2>4, <2>8 DEF Metering
  <2>12. ASSUME p \notin missed' PROVE ExactlyHolds(p)'
    <3>1. CASE ~Current(c, p)
      BY <2>2, <2>3, <2>4, <2>5, <2>6, <2>9, <2>10, <2>12, <3>1 DEF ExactlyHolds
    <3>2. CASE Current(c, p)
      <4>1. record'[p] = Added(record[p], b) /\ p \notin unnoticed'
        BY <2>5, <2>6, <2>9, <3>2
      <4>2. seen'[p] = b
        BY <2>1, <2>4, <2>8, <3>2
      <4>3. CASE p \in unnoticed
        BY <2>1, <2>2, <2>3, <2>7, <2>10, <2>12, <3>2, <4>1, <4>2, <4>3 DEF ExactlyHolds
      <4>4. CASE p \notin unnoticed
        BY <2>1, <2>2, <2>3, <2>7, <2>8, <2>10, <2>12, <3>2, <4>1, <4>2, <4>4 DEF ExactlyHolds
      <4> QED BY <4>3, <4>4
    <3> QED BY <3>1, <3>2
  <2> QED BY <2>11, <2>12
<1> QED BY <1>2, <1>3, <1>4 DEF Undisturbed

LEMMA ExactForgotten ==
    ASSUME TrafficTypeOK, Undisturbed, NEW c \in Collectors, Forgotten(c)
    PROVE  Undisturbed'
<1>1. \A x \in Collectors : sample'[x] = Nothing
  BY DEF Forgotten, Undisturbed, Alone, TrafficTypeOK
<1>2. \A x \in Collectors : sample'[x] # Nothing' => Alone(x)'
  BY <1>1 DEF Nothing
<1>3. \A p \in Metered, x \in Collectors : Pending(x, p)'
  BY <1>1 DEF Pending, Nothing
<1>4. \A p \in Metered : Metering(p)' /\ (p \notin missed' => ExactlyHolds(p)')
  BY DEF Forgotten, Undisturbed, Metering, ExactlyHolds
<1> QED BY <1>2, <1>3, <1>4 DEF Undisturbed

LEMMA ExactEpochEnds ==
    ASSUME TrafficTypeOK, Undisturbed, NEW P \in SUBSET Metered, EpochEnds(P),
           ~disturbed', record' = record, sample' = sample,
           \A p \in resetting' : \/ p \in P /\ state'[p] = "paused"
                                 \/ p \in resetting /\ state'[p] = state[p]
    PROVE  Undisturbed'
<1>1. \A x \in Collectors : sample'[x] = Nothing
  BY DEF EpochEnds
<1>2. \A x \in Collectors : sample'[x] # Nothing' => Alone(x)'
  BY <1>1 DEF Nothing
<1>3. \A p \in Metered, x \in Collectors : Pending(x, p)'
  BY <1>1 DEF Pending, Nothing
<1>4. ASSUME NEW p \in Metered
      PROVE  Metering(p)' /\ (p \notin missed' => ExactlyHolds(p)')
  <2>1. /\ record[p].last \in Nat /\ record[p].total \in Nat
        /\ before[p] \in Nat /\ seen[p] \in Nat
    BY NumbersTyped
  <2>2. Metering(p) /\ (p \notin missed => ExactlyHolds(p))
    BY DEF Undisturbed
  <2>3. p \notin missed' => p \notin missed /\ ~(p \in unnoticed /\ p \in P)
    BY DEF EpochEnds
  <2>4. CASE p \in P
    <3>1. kernel'[p] = 0 /\ before'[p] = before[p] + seen[p] /\ seen'[p] = 0 /\ p \in unnoticed'
      BY <2>4 DEF EpochEnds
    <3>2. Metering(p)'
      BY <2>2, <3>1 DEF Metering
    <3> QED BY <2>1, <2>2, <2>3, <2>4, <3>1, <3>2 DEF ExactlyHolds
  <2>5. CASE p \notin P
    <3>1. /\ kernel'[p] = kernel[p] /\ before'[p] = before[p] /\ seen'[p] = seen[p]
          /\ (p \in unnoticed' <=> p \in unnoticed)
      BY <2>5 DEF EpochEnds
    <3>2. Metering(p)'
      BY <2>2, <2>5, <3>1 DEF Metering
    <3> QED BY <2>2, <2>3, <3>1, <3>2 DEF ExactlyHolds
  <2> QED BY <2>4, <2>5
<1> QED BY <1>2, <1>3, <1>4 DEF Undisturbed

LEMMA ExactCarry ==
    ASSUME TrafficTypeOK, Undisturbed, NEW q \in Metered, Carry(q)
    PROVE  Undisturbed'
<1>1. ASSUME NEW p \in Metered
      PROVE  Metering(p)' /\ \A c \in Collectors : Pending(c, p)'
  <2>1. kernel[p] \in Nat /\ seen[p] \in Nat /\ \A c \in Collectors : sample[c][p].bytes \in Nat
    BY NumbersTyped, TrafficAssumption DEF TrafficTypeOK
  <2>2. kernel'[p] = IF p = q THEN kernel[p] + 1 ELSE kernel[p]
    BY DEF Carry, TrafficTypeOK
  <2>3. p = q => p \notin resetting
    BY DEF Carry, Undisturbed, Metering
  <2> QED BY <2>1, <2>2, <2>3 DEF Carry, Undisturbed, Metering, Pending
<1> QED BY <1>1 DEF Carry, Undisturbed, ExactlyHolds, Alone, Nothing

LEMMA ExactReset ==
    ASSUME TrafficTypeOK, Undisturbed, NEW q \in Metered, ResetCounters(q)
    PROVE  Undisturbed'
<1>1. ASSUME NEW p \in Metered, p \notin missed' PROVE ExactlyHolds(p)'
  <2>1. /\ record[p].last \in Nat /\ record[p].total \in Nat
        /\ before[p] \in Nat /\ seen[p] \in Nat
    BY NumbersTyped
  <2>2. Metering(p) /\ ExactlyHolds(p) /\ before' = before /\ seen' = seen
    BY <1>1 DEF Undisturbed, ResetCounters
  <2>3. CASE p = q
    <3>1. seen[p] = 0
      BY <2>1, <2>2, <2>3 DEF Metering, ResetCounters
    <3>2. record'[p].last = 0 /\ record'[p].total = record[p].total /\ p \notin unnoticed'
      BY <2>3, ResetRecord DEF ResetCounters
    <3> QED BY <2>1, <2>2, <3>1, <3>2 DEF ExactlyHolds
  <2>4. CASE p # q
    <3>1. record'[p] = record[p] /\ (p \in unnoticed' <=> p \in unnoticed)
      BY <2>4, ResetRecord DEF ResetCounters
    <3> QED BY <2>2, <3>1 DEF ExactlyHolds
  <2> QED BY <2>3, <2>4
<1> QED BY <1>1 DEF ResetCounters, Undisturbed, Metering, Pending, Alone, Nothing

LEMMA ExactRest ==
    ASSUME TrafficTypeOK, Undisturbed, NEW q \in Metered,
           ResetFails(q) \/ ResumeMeter(q) \/ RemoveMetered(q)
    PROVE  Undisturbed'
<1>1. /\ UNCHANGED <<kernel, epoch, record, sample, before, seen, unnoticed, missed>>
      /\ resetting' \subseteq resetting
      /\ \A p \in resetting' : p \in resetting /\ state'[p] = state[p]
  BY DEF ResetFails, ResumeMeter, RemoveMetered, TrafficTypeOK
<1> QED BY <1>1 DEF Undisturbed, Metering, Pending, Alone, Nothing, ExactlyHolds

LEMMA ExactStep == Exact /\ [TrafficNext]_trafficVars => Exact'
<1> SUFFICES ASSUME TrafficTypeOK, ~disturbed => Undisturbed, [TrafficNext]_trafficVars, ~disturbed'
             PROVE  Undisturbed'
  BY TypeStep DEF Exact
<1>0. ~disturbed /\ Undisturbed
  <2>1. disturbed => disturbed'
    <3>1. CASE MetersRestart
      BY <3>1 DEF MetersRestart, EpochEnds
    <3>2. ASSUME NEW c \in Collectors, Collect(c) PROVE disturbed => disturbed'
      BY <3>2 DEF Collect, Read, Apply, Forgotten
    <3>3. ASSUME NEW q \in Metered, Meter(q) PROVE disturbed => disturbed'
      BY <3>3 DEF Meter, Carry, PauseMeter, ResetCounters, ResetFails, ResumeMeter, RemoveMetered,
                  MakeMetered, EpochEnds
    <3>4. CASE UNCHANGED trafficVars
      BY <3>4 DEF trafficVars
    <3> QED BY <3>1, <3>2, <3>3, <3>4 DEF TrafficNext
  <2> QED BY <2>1
<1>1. CASE MetersRestart
  <2> DEFINE P == {q \in Metered : state[q] = "on"}
  <2>1. /\ P \in SUBSET Metered /\ EpochEnds(P) /\ record' = record /\ sample' = sample
        /\ \A p \in resetting' : p \in resetting /\ state'[p] = state[p]
    BY <1>1 DEF MetersRestart
  <2> HIDE DEF P
  <2> QED BY <1>0, <2>1, ExactEpochEnds
<1>2. ASSUME NEW c \in Collectors, Collect(c) PROVE Undisturbed'
  BY <1>0, <1>2, ExactRead, ExactApply, ExactForgotten DEF Collect
<1>3. ASSUME NEW q \in Metered, Meter(q) PROVE Undisturbed'
  <2>1. CASE PauseMeter(q)
    <3>1. /\ {q} \in SUBSET Metered /\ EpochEnds({q}) /\ record' = record /\ sample' = sample
          /\ \A p \in resetting' : \/ p \in {q} /\ state'[p] = "paused"
                                   \/ p \in resetting /\ state'[p] = state[p]
      BY <2>1 DEF PauseMeter, TrafficTypeOK
    <3> QED BY <1>0, <3>1, ExactEpochEnds
  <2>2. CASE MakeMetered(q)
    <3>1. q \notin resetting
      BY <1>0, <2>2 DEF MakeMetered, Undisturbed, Metering
    <3>2. /\ {q} \in SUBSET Metered /\ EpochEnds({q}) /\ record' = record /\ sample' = sample
          /\ \A p \in resetting' : p \in resetting /\ state'[p] = state[p]
      BY <2>2, <3>1 DEF MakeMetered, TrafficTypeOK
    <3> QED BY <1>0, <3>2, ExactEpochEnds
  <2>3. CASE Carry(q)
    BY <1>0, <2>3, ExactCarry
  <2>4. CASE ResetCounters(q)
    BY <1>0, <2>4, ExactReset
  <2>5. CASE ResetFails(q) \/ ResumeMeter(q) \/ RemoveMetered(q)
    BY <1>0, <2>5, ExactRest
  <2> QED BY <1>3, <2>1, <2>2, <2>3, <2>4, <2>5 DEF Meter
<1>4. CASE UNCHANGED trafficVars
  BY <1>0, <1>4 DEF trafficVars, Undisturbed, Metering, Pending, Alone, Nothing, ExactlyHolds
<1> QED BY <1>1, <1>2, <1>3, <1>4 DEF TrafficNext

LEMMA ExactEnough == Exact => ExactWhenSerial
<1> SUFFICES ASSUME Exact, NEW p \in Metered \ missed, ~disturbed
             PROVE  record[p].total = before[p] + seen[p]
  BY DEF ExactWhenSerial
<1>1. ExactlyHolds(p) /\ before[p] \in Nat /\ seen[p] \in Nat
  BY NumbersTyped DEF Exact, Undisturbed
<1> QED BY <1>1 DEF ExactlyHolds

\* Until two collections overlap, or a counter starts again under one, every
\* total is exactly what was accounted.
THEOREM ExactlyAccounted == TrafficSpec => []ExactWhenSerial
BY ExactInit, ExactStep, ExactEnough, PTL DEF TrafficSpec

-----------------------------------------------------------------------------
(* Payment reminders: types *)

LEMMA AccountsOfPayments ==
    /\ Fresh \in PaymentAccounts /\ Fresh.notified = 0 /\ Fresh.delivery = NoDelivery
    /\ NoDelivery \in [month : 0..MaxMonth, parts : SUBSET Parts]
    /\ NoDelivery.month = 0 /\ NoDelivery.parts = {}
    /\ \A a \in PaymentAccounts : a # Gone
<1>1. 0 \in 0..MaxMonth
  BY MonthsAssumption
<1> QED
  BY <1>1 DEF Fresh, PaymentAccounts, NoDelivery, Gone

\* One account is written, as its reader found it.
LEMMA AccountWritten ==
    ASSUME PaymentTypeOK, NEW u \in Payers, NEW a \in PaymentAccounts \cup {Gone},
           account' = [account EXCEPT ![u] = a]
    PROVE  /\ account' \in [Payers -> PaymentAccounts \cup {Gone}]
           /\ account'[u] = a /\ \A v \in Payers \ {u} : account'[v] = account[v]
BY DEF PaymentTypeOK

LEMMA KnownTyped ==
    ASSUME PaymentTypeOK, NEW u \in Payers, Known(u)
    PROVE  account[u] \in PaymentAccounts
BY DEF PaymentTypeOK, Known

\* At most one account is at its turn.
LEMMA OneTurn ==
    ASSUME PaymentTypeOK, NEW u \in Payers, NEW v \in Payers, Turn(u), Turn(v)
    PROVE  u = v
<1>1. u \in Nat /\ v \in Nat /\ u <= v /\ v <= u
  BY PayersAssumption DEF Turn
<1> QED
  BY <1>1

\* What _checkpoint writes for a part.
LEMMA MarkedIs ==
    ASSUME PaymentTypeOK, NEW u \in Payers, NEW part \in Parts, Known(u)
    PROVE  /\ Marked(u, part) \in PaymentAccounts
           /\ Marked(u, part).enabled = account[u].enabled
           /\ LET parts == Recorded(u) \cup {part}
                  a == Marked(u, part)
              IN  IF parts = Parts
                  THEN a.notified = run.month /\ a.delivery = NoDelivery
                  ELSE /\ a.notified = account[u].notified
                       /\ a.delivery.month = run.month /\ a.delivery.parts = parts
<1>1. account[u] \in PaymentAccounts /\ run.month \in 0..MaxMonth
  BY KnownTyped DEF PaymentTypeOK, Runs
<1>2. Recorded(u) \in SUBSET Parts
  BY <1>1 DEF Recorded, PaymentAccounts
<1> DEFINE parts == Recorded(u) \cup {part}
           new == [month |-> run.month, parts |-> parts]
<1>3. parts \in SUBSET Parts
  BY <1>2
<1>4. new \in [month : 0..MaxMonth, parts : SUBSET Parts]
  BY <1>1, <1>3
<1>5. Marked(u, part) = IF parts = Parts
                        THEN [account[u] EXCEPT !.notified = run.month, !.delivery = NoDelivery]
                        ELSE [account[u] EXCEPT !.delivery = new]
  BY DEF Marked
<1>6. new.month = run.month /\ new.parts = parts
  OBVIOUS
<1> HIDE DEF new, parts
<1>7. CASE parts = Parts
  <2>1. NoDelivery \in [month : 0..MaxMonth, parts : SUBSET Parts]
    BY AccountsOfPayments
  <2>2. Marked(u, part) = [account[u] EXCEPT !.notified = run.month, !.delivery = NoDelivery]
    BY <1>5, <1>7
  <2>3. /\ Marked(u, part) \in PaymentAccounts
        /\ Marked(u, part).enabled = account[u].enabled
        /\ Marked(u, part).notified = run.month /\ Marked(u, part).delivery = NoDelivery
    BY <1>1, <2>1, <2>2 DEF PaymentAccounts
  <2> QED
    BY <1>7, <2>3 DEF parts
<1>8. CASE parts # Parts
  BY <1>1, <1>4, <1>5, <1>6, <1>8 DEF PaymentAccounts, parts
<1> QED
  BY <1>7, <1>8

\* Where a run goes after an account, or towards its next part.
LEMMA NextUserIs ==
    ASSUME PaymentTypeOK, NEW u
    PROVE  /\ NextUser(u) \in Runs /\ NextUser(u).month = run.month
           /\ NextUser(u).step \in {"idle", "prepare"}
           /\ NextUser(u).due = run.due \ {u}
BY DEF PaymentTypeOK, Runs, NextUser, Steps

LEMMA TowardsIs ==
    ASSUME PaymentTypeOK, NEW u, NEW parts \in SUBSET Parts
    PROVE  /\ Towards(u, parts) \in Runs /\ Towards(u, parts).month = run.month
           /\ parts = Parts => Towards(u, parts) = NextUser(u)
           /\ parts # Parts => /\ Towards(u, parts).step \in Parts \ parts
                               /\ Towards(u, parts).parts = parts
                               /\ Towards(u, parts).due = run.due
<1>1. CASE parts = Parts
  BY <1>1, NextUserIs DEF Towards
<1>2. CASE parts # Parts
  <2> DEFINE step == IF "summary" \in parts THEN "forward" ELSE "summary"
  <2>1. step \in Parts \ parts /\ step \in Steps
    BY <1>2 DEF Parts, Steps
  <2>2. Towards(u, parts) = [run EXCEPT !.parts = parts, !.step = step]
    BY <1>2 DEF Towards
  <2> HIDE DEF step
  <2> QED
    BY <1>2, <2>1, <2>2 DEF PaymentTypeOK, Runs
<1> QED
  BY <1>1, <1>2

LEMMA BrokenIs ==
    PaymentTypeOK => /\ Broken \in Runs /\ Broken.month = run.month
                     /\ Broken.step = "idle" /\ Broken.due = {}
BY DEF PaymentTypeOK, Runs, Broken, Steps

-----------------------------------------------------------------------------
(* Payment reminders: what is on record and what was acknowledged *)

\* The part of u whose acknowledgement is about to be recorded.
Unrecorded(u) == {part \in Parts : run.step = Marking(part) /\ Turn(u)}

\* The parts of u on record for the month of the latest run.
Counted(u) == IF ~Known(u) THEN {}
              ELSE IF account[u].notified = run.month THEN Parts ELSE Recorded(u)

\* Nothing is recorded for a month no run has reached.
PaymentOrder ==
    /\ run.month <= month /\ (run.step # "idle" => run.month # 0)
    /\ \A u \in Payers : Known(u) => /\ account[u].notified <= run.month
                                     /\ account[u].delivery.month <= run.month

\* What is on record, or about to be, was acknowledged.
BackedFor(u) ==
    /\ Unrecorded(u) \subseteq acked[u]
    /\ run.month # 0 /\ Known(u) => /\ account[u].notified = run.month => acked[u] = Parts
                                    /\ Recorded(u) \subseteq acked[u]

\* Unless u is excused, what was acknowledged is on record or about to be, and
\* known to the run that serves u.
UnlostFor(u) ==
    /\ acked[u] \subseteq Counted(u) \cup Unrecorded(u)
    /\ Turn(u) /\ run.step \notin {"idle", "prepare"} =>
           Known(u) /\ account[u].enabled /\ acked[u] \subseteq run.parts \cup Unrecorded(u)

PaymentInv ==
    /\ PaymentTypeOK /\ PaymentOrder
    /\ run.step \in Parts => run.step \notin run.parts
    /\ \A u \in Payers : BackedFor(u)
    /\ \A u \in Payers \ excused : UnlostFor(u)
    /\ SentOnce

Quiet(u) == Turn(u) => run.step \in {"idle", "prepare"}

LEMMA QuietUnrecorded == \A u : Quiet(u) \/ run.step \in Parts => Unrecorded(u) = {}
BY DEF Quiet, Unrecorded, Marking, Parts

LEMMA UnrecordedIs ==
    ASSUME NEW u, NEW part \in Parts, run.step = Marking(part), Turn(u)
    PROVE  Unrecorded(u) = {part}
BY DEF Unrecorded, Marking, Parts

\* A step that leaves an account alone, and its turn behind.
LEMMA QuietKeeps ==
    ASSUME PaymentInv, NEW u \in Payers, Quiet(u)', run'.month = run.month,
           account'[u] = account[u], acked'[u] = acked[u],
           u \in excused' \/ (u \notin excused /\ Unrecorded(u) = {})
    PROVE  BackedFor(u)' /\ (u \notin excused' => UnlostFor(u)')
<1>1. Unrecorded(u)' = {}
  BY QuietUnrecorded DEF Quiet, Unrecorded, Turn, Marking, Parts
<1>2. Known(u)' = Known(u) /\ Recorded(u)' = Recorded(u) /\ Counted(u)' = Counted(u)
  BY DEF Known, Recorded, Counted
<1>3. BackedFor(u)
  BY DEF PaymentInv
<1>4. BackedFor(u)'
  BY <1>1, <1>2, <1>3 DEF BackedFor
<1>5. u \notin excused' => UnlostFor(u)'
  BY <1>1, <1>2 DEF PaymentInv, UnlostFor, Quiet
<1> QED
  BY <1>4, <1>5

\* A run that serves u leaves the others alone.
LEMMA OthersKeep ==
    ASSUME PaymentInv, NEW u \in Payers, NEW v \in Payers, u # v, Turn(u), run'.month = run.month,
           account'[v] = account[v], acked'[v] = acked[v], excused \subseteq excused',
           run'.due = run.due \/ run'.step \in {"idle", "prepare"}
    PROVE  BackedFor(v)' /\ (v \notin excused' => UnlostFor(v)')
<1>1. ~Turn(v)
  BY OneTurn DEF PaymentInv
<1>2. Quiet(v)'
  BY <1>1 DEF Quiet, Turn
<1>3. Unrecorded(v) = {}
  BY <1>1 DEF Unrecorded
<1> QED
  BY <1>2, <1>3, QuietKeeps

\* A step that ends one account's turn without writing anything.
LEMMA SkipKeeps ==
    ASSUME PaymentInv, NEW u \in Payers, Turn(u), run' = NextUser(u), run.step # "idle",
           u \in excused \/ Unrecorded(u) = {},
           UNCHANGED <<month, arrived, account, breaks, acked, excused, repeated>>
    PROVE  PaymentInv'
<1>1. PaymentTypeOK'
  BY NextUserIs DEF PaymentInv, PaymentTypeOK, Known
<1>2. /\ run'.month = run.month /\ run'.step \in {"idle", "prepare"}
  BY NextUserIs DEF PaymentInv
<1>3. PaymentOrder'
  BY <1>2 DEF PaymentInv, PaymentOrder, Known
<1>4. ASSUME NEW v \in Payers PROVE BackedFor(v)' /\ (v \notin excused' => UnlostFor(v)')
  <2>1. CASE v = u
    BY <1>2, <2>1, QuietKeeps DEF Quiet
  <2>2. CASE v # u
    BY <1>2, <2>2, OthersKeep
  <2> QED
    BY <2>1, <2>2
<1>5. SentOnce'
  BY DEF PaymentInv, SentOnce
<1>6. run'.step \notin Parts
  BY <1>2 DEF Parts
<1> QED
  BY <1>1, <1>3, <1>4, <1>5, <1>6 DEF PaymentInv

LEMMA PrepareKeeps ==
    ASSUME PaymentInv, NEW u \in Payers, Prepare(u) PROVE PaymentInv'
<1>1. PaymentTypeOK /\ Turn(u) /\ run.step = "prepare" /\ Unrecorded(u) = {}
  BY QuietUnrecorded DEF PaymentInv, Prepare, Quiet
<1>2. CASE run' = NextUser(u) /\ UNCHANGED account
  BY <1>1, <1>2, SkipKeeps DEF Prepare
<1>3. CASE ~(run' = NextUser(u) /\ UNCHANGED account)
  <2> DEFINE new == [month |-> run.month, parts |-> Recorded(u)]
             a == [account[u] EXCEPT !.delivery = new]
  <2>1. /\ Known(u) /\ account[u].enabled /\ account[u].notified # run.month
        /\ account' = [account EXCEPT ![u].delivery = new]
        /\ run' = Towards(u, Recorded(u))
        /\ UNCHANGED <<month, arrived, breaks, acked, excused, repeated>>
    BY <1>3 DEF Prepare
  <2>2. account[u] \in PaymentAccounts /\ run.month \in 0..MaxMonth /\ run.month # 0
    BY <1>1, <2>1, KnownTyped DEF PaymentTypeOK, Runs, PaymentInv, PaymentOrder
  <2>3. Recorded(u) \in SUBSET Parts
    BY <2>2 DEF Recorded, PaymentAccounts
  <2>4. new \in [month : 0..MaxMonth, parts : SUBSET Parts]
    BY <2>2, <2>3
  <2>5. account' = [account EXCEPT ![u] = a]
    BY <1>1, <2>1 DEF PaymentTypeOK
  <2>6. new.month = run.month /\ new.parts = Recorded(u)
    OBVIOUS
  <2> HIDE DEF new
  <2>7. /\ a \in PaymentAccounts /\ a.notified = account[u].notified
        /\ a.enabled = account[u].enabled /\ a.delivery = new
    BY <2>2, <2>4 DEF PaymentAccounts
  <2> HIDE DEF a
  <2>8. /\ account' \in [Payers -> PaymentAccounts \cup {Gone}]
        /\ account'[u] = a /\ \A v \in Payers \ {u} : account'[v] = account[v]
    BY <1>1, <2>5, <2>7, AccountWritten
  <2>9. /\ run' \in Runs /\ run'.month = run.month
        /\ \/ run'.step \in {"idle", "prepare"}
           \/ /\ run'.step \in Parts \ Recorded(u) /\ run'.parts = Recorded(u)
              /\ run'.due = run.due
    BY <1>1, <2>1, <2>3, TowardsIs, NextUserIs
  <2>10. PaymentTypeOK'
    BY <1>1, <2>1, <2>8, <2>9 DEF PaymentTypeOK
  <2>11. Known(u)' /\ Recorded(u)' = Recorded(u) /\ Unrecorded(u)' = {}
    <3>1. Known(u)'
      BY <2>7, <2>8, AccountsOfPayments DEF Known
    <3>2. Recorded(u)' = Recorded(u)
      BY <2>6, <2>7, <2>8, <2>9 DEF Recorded
    <3>3. Unrecorded(u)' = {}
      BY <2>9 DEF Unrecorded, Marking, Parts
    <3> QED
      BY <3>1, <3>2, <3>3
  <2>12. PaymentOrder'
    <3>1. PaymentOrder
      BY DEF PaymentInv
    <3>2. \A v \in Payers \ {u} : Known(v)' = Known(v)
      BY <2>8 DEF Known
    <3>3. account'[u].notified <= run.month /\ account'[u].delivery.month <= run.month
      BY <2>1, <2>2, <2>6, <2>7, <2>8, <3>1 DEF PaymentOrder
    <3> QED
      BY <2>1, <2>2, <2>8, <2>9, <3>1, <3>2, <3>3 DEF PaymentOrder
  <2>13. BackedFor(u)'
    <3>1. Recorded(u) \subseteq acked[u]
      BY <2>1, <2>2 DEF PaymentInv, BackedFor
    <3> QED
      BY <2>1, <2>7, <2>8, <2>9, <2>11, <3>1 DEF BackedFor
  <2>14. u \notin excused' => UnlostFor(u)'
    <3> SUFFICES ASSUME u \notin excused PROVE UnlostFor(u)'
      BY <2>1
    <3>1. acked[u] \subseteq Recorded(u)
      BY <1>1, <2>1 DEF PaymentInv, UnlostFor, Counted
    <3>2. Counted(u)' = Recorded(u)
      BY <2>1, <2>7, <2>8, <2>9, <2>11 DEF Counted
    <3> QED
      BY <2>1, <2>7, <2>8, <2>9, <2>11, <3>1, <3>2 DEF UnlostFor
  <2>15. \A v \in Payers \ {u} : BackedFor(v)' /\ (v \notin excused' => UnlostFor(v)')
    BY <1>1, <2>1, <2>8, <2>9, OthersKeep
  <2>16. run'.step \in Parts => run'.step \notin run'.parts
    BY <2>9 DEF Parts
  <2> QED
    BY <2>1, <2>10, <2>12, <2>13, <2>14, <2>15, <2>16 DEF PaymentInv, SentOnce
<1> QED
  BY <1>2, <1>3

LEMMA AcknowledgedKeeps ==
    ASSUME PaymentInv, NEW u \in Payers, NEW part \in Parts, Acknowledged(u, part)
    PROVE  PaymentInv'
<1>1. /\ PaymentTypeOK /\ PaymentOrder /\ Turn(u) /\ run.step = part /\ Unrecorded(u) = {}
      /\ part \notin run.parts
  BY QuietUnrecorded DEF PaymentInv, Acknowledged
<1>2. /\ run' \in Runs /\ run'.month = run.month /\ run'.due = run.due /\ run'.parts = run.parts
      /\ run'.step = Marking(part) /\ run'.step \notin Parts /\ run'.step # "idle" /\ run.step # "idle"
  BY <1>1 DEF Acknowledged, PaymentTypeOK, Runs, Marking, Parts, Steps
<1>3. /\ UNCHANGED <<month, arrived, account, breaks, excused>>
      /\ acked' = [acked EXCEPT ![u] = @ \cup {part}]
      /\ repeated' = IF part \in acked[u] THEN repeated \cup {u} ELSE repeated
  BY DEF Acknowledged
<1>4. acked'[u] = acked[u] \cup {part} /\ \A v \in Payers \ {u} : acked'[v] = acked[v]
  BY <1>1, <1>3 DEF PaymentTypeOK
<1>5. PaymentTypeOK'
  BY <1>1, <1>2, <1>3 DEF PaymentTypeOK
<1>6. PaymentOrder'
  BY <1>1, <1>2, <1>3 DEF PaymentOrder, Known
<1>7. Unrecorded(u)' = {part}
  BY <1>1, <1>2 DEF Unrecorded, Turn, Marking, Parts
<1>8. Known(u)' = Known(u) /\ Recorded(u)' = Recorded(u) /\ Counted(u)' = Counted(u)
  BY <1>2, <1>3 DEF Known, Recorded, Counted
<1>9. acked[u] \subseteq Parts
  BY <1>1 DEF PaymentTypeOK
<1>10. BackedFor(u)'
  BY <1>2, <1>3, <1>4, <1>7, <1>8, <1>9 DEF PaymentInv, BackedFor
<1>11. u \notin excused => UnlostFor(u)' /\ part \notin acked[u]
  <2> SUFFICES ASSUME u \notin excused PROVE UnlostFor(u)' /\ part \notin acked[u]
    OBVIOUS
  <2>1. UnlostFor(u) /\ run.step \notin {"idle", "prepare"}
    BY <1>1 DEF PaymentInv, Parts
  <2> QED
    BY <1>1, <1>2, <1>3, <1>4, <1>7, <1>8, <2>1 DEF UnlostFor
<1>12. \A v \in Payers \ {u} : BackedFor(v)' /\ (v \notin excused' => UnlostFor(v)')
  BY <1>1, <1>2, <1>3, <1>4, OthersKeep
<1>13. SentOnce'
  BY <1>3, <1>11 DEF PaymentInv, SentOnce
<1> QED
  BY <1>2, <1>3, <1>5, <1>6, <1>10, <1>11, <1>12, <1>13 DEF PaymentInv

LEMMA UnacknowledgedKeeps ==
    ASSUME PaymentInv, NEW u \in Payers, Unacknowledged(u) PROVE PaymentInv'
<1>1. run.step # "idle" /\ Unrecorded(u) = {}
  BY QuietUnrecorded DEF Unacknowledged, Parts
<1> QED
  BY <1>1, SkipKeeps DEF Unacknowledged

\* Writing the record of an acknowledged part, wherever the run goes after it.
LEMMA MarkedKeeps ==
    ASSUME PaymentInv, NEW u \in Payers, NEW part \in Parts, run.step = Marking(part), Turn(u),
           Known(u), account' = [account EXCEPT ![u] = Marked(u, part)],
           run' \in Runs, run'.month = run.month, breaks' \in 0..MaxBreaks,
           UNCHANGED <<month, arrived, acked, excused, repeated>>
    PROVE  /\ PaymentTypeOK' /\ PaymentOrder' /\ SentOnce'
           /\ Known(u)' /\ account'[u].enabled = account[u].enabled
           /\ account'[u].notified = run.month => acked[u] = Parts
           /\ Recorded(u)' \subseteq acked[u]
           /\ u \notin excused => acked[u] \subseteq Counted(u)'
           /\ \A v \in Payers \ {u} : account'[v] = account[v]
<1>1. PaymentTypeOK /\ PaymentOrder /\ account[u] \in PaymentAccounts /\ run.month \in 0..MaxMonth
  BY KnownTyped DEF PaymentInv, PaymentTypeOK, Runs
<1>2. run.month # 0 /\ part \in acked[u] /\ Unrecorded(u) = {part}
  <2>1. run.month # 0
    BY <1>1 DEF PaymentOrder, Marking
  <2>2. Unrecorded(u) = {part}
    BY UnrecordedIs
  <2> QED
    BY <2>1, <2>2 DEF PaymentInv, BackedFor
<1> DEFINE parts == Recorded(u) \cup {part}
           a == Marked(u, part)
<1>3. /\ a \in PaymentAccounts /\ a.enabled = account[u].enabled
      /\ \/ parts = Parts /\ a.notified = run.month /\ a.delivery = NoDelivery
         \/ /\ parts # Parts /\ a.notified = account[u].notified
            /\ a.delivery.month = run.month /\ a.delivery.parts = parts
  BY <1>1, MarkedIs
<1>4. Recorded(u) \subseteq acked[u] /\ (account[u].notified = run.month => acked[u] = Parts)
  BY <1>2 DEF PaymentInv, BackedFor
<1>5. acked[u] \subseteq Parts
  BY <1>1 DEF PaymentTypeOK
<1>6. parts \subseteq acked[u]
  BY <1>2, <1>4
<1>7. u \notin excused => acked[u] \subseteq Counted(u) \cup {part}
  BY <1>2 DEF PaymentInv, UnlostFor
<1>8. u \notin excused => account[u].notified = run.month \/ acked[u] \subseteq parts
  BY <1>7 DEF Counted
<1> HIDE DEF parts, a
<1>9. /\ account' \in [Payers -> PaymentAccounts \cup {Gone}]
      /\ account'[u] = a /\ \A v \in Payers \ {u} : account'[v] = account[v]
  BY <1>1, <1>3, AccountWritten DEF a
<1>10. PaymentTypeOK'
  BY <1>1, <1>9 DEF PaymentTypeOK
<1>11. Known(u)' /\ \A v \in Payers \ {u} : Known(v)' = Known(v)
  BY <1>3, <1>9, AccountsOfPayments DEF Known
<1>12. NoDelivery.month = 0 /\ run.month \in Nat
  BY <1>1, AccountsOfPayments, MonthsAssumption
<1>13. a.notified <= run.month /\ a.delivery.month <= run.month
  BY <1>1, <1>3, <1>12 DEF PaymentOrder
<1>14. PaymentOrder'
  <2>1. run'.month <= month' /\ (run'.step # "idle" => run'.month # 0)
    BY <1>1, <1>2 DEF PaymentOrder
  <2>2. ASSUME NEW v \in Payers, Known(v)'
        PROVE  account'[v].notified <= run'.month /\ account'[v].delivery.month <= run'.month
    BY <1>1, <1>9, <1>11, <1>13, <2>2 DEF PaymentOrder
  <2> QED
    BY <2>1, <2>2 DEF PaymentOrder
<1>15. Recorded(u)' = IF parts = Parts THEN {} ELSE parts
  BY <1>2, <1>3, <1>9, <1>12 DEF Recorded
<1>16. Counted(u)' = IF a.notified = run.month THEN Parts ELSE Recorded(u)'
  BY <1>9, <1>11 DEF Counted
<1>17. u \notin excused => acked[u] \subseteq Counted(u)'
  BY <1>3, <1>5, <1>8, <1>15, <1>16
<1>18. a.notified = run.month => acked[u] = Parts
  BY <1>3, <1>4, <1>5, <1>6
<1>19. SentOnce'
  BY DEF PaymentInv, SentOnce
<1> QED
  BY <1>3, <1>6, <1>9, <1>10, <1>11, <1>14, <1>15, <1>17, <1>18, <1>19

LEMMA CheckpointKeeps ==
    ASSUME PaymentInv, NEW u \in Payers, NEW part \in Parts, Checkpoint(u, part)
    PROVE  PaymentInv'
<1>1. /\ PaymentTypeOK /\ Turn(u) /\ run.step = Marking(part) /\ Unrecorded(u) = {part}
      /\ run.step \notin {"idle", "prepare"}
      /\ UNCHANGED <<month, arrived, breaks, acked, excused, repeated>>
  BY UnrecordedIs DEF PaymentInv, Checkpoint, Marking
<1>2. CASE ~Known(u) \/ ~account[u].enabled
  <2>1. run' = NextUser(u) /\ UNCHANGED account
    BY <1>2 DEF Checkpoint
  <2>2. u \in excused
    BY <1>1, <1>2 DEF PaymentInv, UnlostFor
  <2> QED
    BY <1>1, <2>1, <2>2, SkipKeeps
<1>3. CASE Known(u) /\ account[u].enabled
  <2> DEFINE parts == run.parts \cup {part}
  <2>1. account' = [account EXCEPT ![u] = Marked(u, part)] /\ run' = Towards(u, parts)
    BY <1>3 DEF Checkpoint
  <2>2. parts \in SUBSET Parts /\ breaks \in 0..MaxBreaks
    BY <1>1 DEF PaymentTypeOK, Runs
  <2>3. /\ run' \in Runs /\ run'.month = run.month
        /\ \/ run'.step \in {"idle", "prepare"}
           \/ run'.step \in Parts \ parts /\ run'.parts = parts /\ run'.due = run.due
    BY <1>1, <2>1, <2>2, TowardsIs, NextUserIs
  <2>4. u \notin excused => acked[u] \subseteq parts
    BY <1>1 DEF PaymentInv, UnlostFor
  <2> HIDE DEF parts
  <2>5. /\ PaymentTypeOK' /\ PaymentOrder' /\ SentOnce'
        /\ Known(u)' /\ account'[u].enabled = account[u].enabled
        /\ account'[u].notified = run.month => acked[u] = Parts
        /\ Recorded(u)' \subseteq acked[u]
        /\ u \notin excused => acked[u] \subseteq Counted(u)'
        /\ \A v \in Payers \ {u} : account'[v] = account[v]
    BY <1>1, <1>3, <2>1, <2>2, <2>3, MarkedKeeps, ZenonT(40)
  <2>6. Unrecorded(u)' = {}
    BY <2>3 DEF Unrecorded, Marking, Parts
  <2>7. BackedFor(u)'
    BY <1>1, <2>3, <2>5, <2>6 DEF BackedFor
  <2>8. u \notin excused' => UnlostFor(u)'
    BY <1>1, <1>3, <2>3, <2>4, <2>5, <2>6 DEF UnlostFor
  <2>9. \A v \in Payers \ {u} : BackedFor(v)' /\ (v \notin excused' => UnlostFor(v)')
    BY <1>1, <2>3, <2>5, OthersKeep
  <2>10. run'.step \in Parts => run'.step \notin run'.parts
    BY <2>3 DEF Parts
  <2> QED
    BY <2>5, <2>7, <2>8, <2>9, <2>10 DEF PaymentInv
<1> QED
  BY <1>2, <1>3

LEMMA BreakCommittedKeeps ==
    ASSUME PaymentInv, NEW u \in Payers, NEW part \in Parts, BreakCommitted(u, part)
    PROVE  PaymentInv'
<1>1. /\ PaymentTypeOK /\ Turn(u) /\ run.step = Marking(part) /\ Known(u) /\ account[u].enabled
      /\ account' = [account EXCEPT ![u] = Marked(u, part)] /\ run' = Broken
      /\ UNCHANGED <<month, arrived, acked, excused, repeated>>
  BY DEF PaymentInv, BreakCommitted
<1>2. breaks' \in 0..MaxBreaks
  BY <1>1, MonthsAssumption DEF BreakCommitted, PaymentTypeOK
<1>3. /\ run' \in Runs /\ run'.month = run.month /\ run'.step = "idle" /\ run'.due = {}
  BY <1>1, BrokenIs
<1>4. /\ PaymentTypeOK' /\ PaymentOrder' /\ SentOnce'
      /\ Known(u)' /\ account'[u].enabled = account[u].enabled
      /\ account'[u].notified = run.month => acked[u] = Parts
      /\ Recorded(u)' \subseteq acked[u]
      /\ u \notin excused => acked[u] \subseteq Counted(u)'
      /\ \A v \in Payers \ {u} : account'[v] = account[v]
  BY <1>1, <1>2, <1>3, MarkedKeeps
<1>5. \A v : Unrecorded(v)' = {}
  BY <1>3 DEF Unrecorded, Marking
<1>6. BackedFor(u)'
  BY <1>1, <1>3, <1>4, <1>5 DEF BackedFor
<1>7. u \notin excused' => UnlostFor(u)'
  BY <1>1, <1>3, <1>4, <1>5 DEF UnlostFor
<1>8. \A v \in Payers \ {u} : BackedFor(v)' /\ (v \notin excused' => UnlostFor(v)')
  BY <1>1, <1>3, <1>4, OthersKeep
<1> QED
  BY <1>3, <1>4, <1>6, <1>7, <1>8 DEF PaymentInv, Parts

LEMMA BreakKeeps ==
    ASSUME PaymentInv, Break PROVE PaymentInv'
<1>1. /\ PaymentTypeOK /\ PaymentOrder /\ run' = Broken
      /\ UNCHANGED <<month, arrived, account, acked, repeated>>
  BY DEF PaymentInv, Break
<1>2. breaks' \in 0..MaxBreaks
  BY <1>1, MonthsAssumption DEF Break, PaymentTypeOK
<1>3. run' \in Runs /\ run'.month = run.month /\ run'.step = "idle" /\ run'.due = {}
  BY <1>1, BrokenIs
<1>4. excused \subseteq excused' /\ excused' \subseteq Payers
  BY <1>1 DEF Break, PaymentTypeOK
<1>5. ASSUME NEW u \in Payers PROVE u \in excused' \/ (u \notin excused /\ Unrecorded(u) = {})
  <2>1. CASE run.step \in {"markSummary", "markForward"}
    BY <1>1, <2>1 DEF Break, Unrecorded
  <2>2. CASE run.step \notin {"markSummary", "markForward"}
    BY <1>4, <2>2 DEF Unrecorded, Marking, Parts
  <2> QED
    BY <2>1, <2>2
<1>6. ASSUME NEW u \in Payers PROVE BackedFor(u)' /\ (u \notin excused' => UnlostFor(u)')
  BY <1>1, <1>3, <1>5, QuietKeeps DEF Quiet
<1>7. PaymentTypeOK' /\ PaymentOrder' /\ SentOnce'
  BY <1>1, <1>2, <1>3, <1>4 DEF PaymentInv, PaymentTypeOK, PaymentOrder, SentOnce, Known
<1> QED
  BY <1>3, <1>6, <1>7 DEF PaymentInv, Parts

LEMMA StartRunKeeps ==
    ASSUME PaymentInv, StartRun PROVE PaymentInv'
<1>1. /\ PaymentTypeOK /\ PaymentOrder /\ run.step = "idle" /\ month \in 1..MaxMonth
      /\ UNCHANGED <<month, arrived, account, breaks>>
  BY DEF PaymentInv, PaymentTypeOK, StartRun, Months
<1>2. run' \in Runs /\ run'.month = month /\ run'.step = "prepare"
  BY <1>1, MonthsAssumption DEF StartRun, Runs, Steps
<1>3. PaymentOrder'
  <2>1. run.month \in 0..MaxMonth
    BY <1>1 DEF PaymentTypeOK, Runs
  <2>2. ASSUME NEW u \in Payers, Known(u)'
        PROVE  account'[u].notified <= run'.month /\ account'[u].delivery.month <= run'.month
    <3>1. Known(u) /\ account[u] \in PaymentAccounts
      BY <1>1, <2>2, KnownTyped DEF Known
    <3>2. account[u].notified \in Int /\ account[u].delivery.month \in Int
      BY <3>1, MonthsAssumption DEF PaymentAccounts
    <3> QED
      BY <1>1, <1>2, <2>1, <3>1, <3>2, MonthsAssumption DEF PaymentOrder
  <2> QED
    BY <1>1, <1>2, <2>2 DEF PaymentOrder
<1>4. CASE run.month = month
  <2>1. UNCHANGED <<acked, excused, repeated>>
    BY <1>4 DEF StartRun
  <2>2. \A u : Unrecorded(u) = {}
    BY <1>1 DEF Unrecorded, Marking
  <2>3. \A u \in Payers : BackedFor(u)' /\ (u \notin excused' => UnlostFor(u)')
    BY <1>1, <1>2, <1>4, <2>1, <2>2, QuietKeeps DEF Quiet
  <2>4. PaymentTypeOK' /\ SentOnce'
    BY <1>1, <1>2, <2>1 DEF PaymentInv, PaymentTypeOK, SentOnce
  <2> QED
    BY <1>2, <1>3, <2>3, <2>4 DEF PaymentInv, Parts
<1>5. CASE run.month # month
  <2>1. acked' = [u \in Payers |-> {}] /\ excused' = {} /\ repeated' = {}
    BY <1>5 DEF StartRun
  <2>2. ASSUME NEW u \in Payers PROVE BackedFor(u)' /\ UnlostFor(u)'
    <3>1. Unrecorded(u)' = {} /\ acked'[u] = {}
      BY <1>2, <2>1 DEF Unrecorded, Marking
    <3>2. ASSUME Known(u)' PROVE account'[u].notified # run'.month /\ Recorded(u)' = {}
      <4>1. Known(u) /\ account[u] \in PaymentAccounts /\ run.month \in 0..MaxMonth
        BY <1>1, <3>2, KnownTyped DEF Known, PaymentTypeOK, Runs
      <4>2. account[u].notified \in Int /\ account[u].delivery.month \in Int
        BY <4>1, MonthsAssumption DEF PaymentAccounts
      <4>3. account[u].notified < month /\ account[u].delivery.month < month
        BY <1>1, <1>5, <4>1, <4>2, MonthsAssumption DEF PaymentOrder
      <4> QED
        BY <1>1, <1>2, <4>2, <4>3 DEF Recorded
    <3> QED
      BY <1>2, <3>1, <3>2 DEF BackedFor, UnlostFor
  <2>3. PaymentTypeOK' /\ SentOnce'
    BY <1>1, <1>2, <2>1 DEF PaymentTypeOK, SentOnce
  <2> QED
    BY <1>2, <1>3, <2>2, <2>3 DEF PaymentInv, Parts
<1> QED
  BY <1>4, <1>5

\* An administrator's write: it may take a month's mark or record back, never
\* make one up, and the name is excused unless the record stays as it was.
LEMMA WrittenKeeps ==
    ASSUME PaymentInv, NEW u \in Payers, NEW a \in PaymentAccounts \cup {Gone},
           account' = [account EXCEPT ![u] = a], arrived' \subseteq Payers,
           \/ a = Gone
           \/ a.notified = 0 /\ a.delivery = NoDelivery
           \/ Known(u) /\ a.notified = account[u].notified
                       /\ a.delivery \in {account[u].delivery, NoDelivery},
           \/ excused' = excused \cup {u}
           \/ /\ excused' = excused /\ Known(u) /\ a # Gone
              /\ a.notified = account[u].notified /\ a.delivery = account[u].delivery
              /\ account[u].enabled => a.enabled,
           UNCHANGED <<month, run, breaks, acked, repeated>>
    PROVE  PaymentInv'
<1>1. PaymentTypeOK /\ PaymentOrder /\ BackedFor(u) /\ run.month \in 0..MaxMonth
  BY DEF PaymentInv, PaymentTypeOK, Runs
<1>2. /\ account' \in [Payers -> PaymentAccounts \cup {Gone}]
      /\ account'[u] = a /\ \A v \in Payers \ {u} : account'[v] = account[v]
  BY <1>1, AccountWritten
<1>3. excused \subseteq excused' /\ excused' \subseteq Payers
  BY <1>1 DEF PaymentTypeOK
<1>4. PaymentTypeOK' /\ SentOnce'
  BY <1>1, <1>2, <1>3 DEF PaymentInv, PaymentTypeOK, SentOnce
<1>5. \A v \in Payers : Unrecorded(v)' = Unrecorded(v) /\ Turn(v)' = Turn(v)
  BY DEF Unrecorded, Turn
<1>6. Known(u)' = (a # Gone) /\ \A v \in Payers \ {u} : Known(v)' = Known(v)
  BY <1>2 DEF Known
<1>7. NoDelivery.month = 0 /\ NoDelivery.parts = {} /\ run.month \in Nat
  BY <1>1, AccountsOfPayments, MonthsAssumption
<1>8. PaymentOrder'
  <2>1. a # Gone => a.notified <= run.month /\ a.delivery.month <= run.month
    BY <1>1, <1>7 DEF PaymentOrder
  <2>2. ASSUME NEW v \in Payers, Known(v)'
        PROVE  account'[v].notified <= run'.month /\ account'[v].delivery.month <= run'.month
    BY <1>1, <1>2, <1>6, <2>1, <2>2 DEF PaymentOrder
  <2> QED
    BY <1>1, <2>2 DEF PaymentOrder
<1>9. Recorded(u)' = IF a.delivery.month = run.month THEN a.delivery.parts ELSE {}
  BY <1>2 DEF Recorded
<1>10. BackedFor(u)'
  <2>1. ASSUME run.month # 0, a # Gone
        PROVE  /\ a.notified = run.month => acked[u] = Parts
               /\ Recorded(u)' \subseteq acked[u]
    <3>1. CASE a.notified = 0 /\ a.delivery = NoDelivery
      BY <1>7, <1>9, <2>1, <3>1
    <3>2. CASE Known(u) /\ a.notified = account[u].notified
                        /\ a.delivery \in {account[u].delivery, NoDelivery}
      <4>1. Recorded(u)' \subseteq Recorded(u)
        BY <1>7, <1>9, <2>1, <3>2 DEF Recorded
      <4> QED
        BY <1>1, <2>1, <3>2, <4>1 DEF BackedFor
    <3> QED
      BY <2>1, <3>1, <3>2
  <2> QED
    BY <1>1, <1>2, <1>5, <1>6, <2>1 DEF BackedFor
<1>11. ASSUME u \notin excused' PROVE UnlostFor(u)'
  <2>1. /\ Known(u) /\ a # Gone /\ UnlostFor(u) /\ a.notified = account[u].notified
        /\ a.delivery = account[u].delivery /\ (account[u].enabled => a.enabled)
    BY <1>11 DEF PaymentInv
  <2>2. Counted(u)' = Counted(u)
    BY <1>2, <1>6, <2>1 DEF Counted, Recorded
  <2> QED
    BY <1>2, <1>5, <1>6, <2>1, <2>2 DEF UnlostFor
<1>12. ASSUME NEW v \in Payers \ {u} PROVE BackedFor(v)' /\ (v \notin excused' => UnlostFor(v)')
  <2>1. Recorded(v)' = Recorded(v) /\ Counted(v)' = Counted(v)
    BY <1>2, <1>6 DEF Recorded, Counted
  <2>2. BackedFor(v) /\ (v \notin excused' => UnlostFor(v))
    BY <1>3 DEF PaymentInv
  <2> QED
    BY <1>2, <1>5, <1>6, <2>1, <2>2 DEF BackedFor, UnlostFor
<1> QED
  BY <1>4, <1>8, <1>10, <1>11, <1>12 DEF PaymentInv

LEMMA AdministeredKeeps ==
    ASSUME PaymentInv, NEW u \in Payers, Administered(u) PROVE PaymentInv'
<1>1. PaymentTypeOK /\ account \in [Payers -> PaymentAccounts \cup {Gone}] /\ arrived \subseteq Payers
  BY DEF PaymentInv, PaymentTypeOK
<1>2. Known(u) => account[u] \in PaymentAccounts
  BY <1>1, KnownTyped
<1>3. CASE EditOn(u)
  <2> DEFINE a == [account[u] EXCEPT !.enabled = TRUE]
  <2>1. Known(u) /\ account' = [account EXCEPT ![u] = a]
    BY <1>1, <1>3 DEF EditOn
  <2>2. /\ a \in PaymentAccounts /\ a.notified = account[u].notified
        /\ a.delivery = account[u].delivery /\ a.enabled
    BY <1>2, <2>1 DEF PaymentAccounts
  <2>3. arrived' \subseteq Payers /\ UNCHANGED <<month, run, breaks, acked, excused, repeated>>
    BY <1>1, <1>3 DEF EditOn
  <2> HIDE DEF a
  <2> QED
    BY <2>1, <2>2, <2>3, WrittenKeeps, AccountsOfPayments
<1>4. CASE EditOff(u)
  <2> DEFINE a == [account[u] EXCEPT !.enabled = FALSE, !.delivery = NoDelivery]
  <2>1. Known(u) /\ account' = [account EXCEPT ![u] = a]
    BY <1>1, <1>4 DEF EditOff
  <2>2. /\ a \in PaymentAccounts /\ a.notified = account[u].notified /\ a.delivery = NoDelivery
    BY <1>2, <2>1, AccountsOfPayments DEF PaymentAccounts
  <2>3. /\ UNCHANGED <<month, arrived, run, breaks, acked, repeated>>
        /\ excused' = excused \cup {u}
    BY <1>4 DEF EditOff
  <2> HIDE DEF a
  <2> QED
    BY <1>1, <2>1, <2>2, <2>3, WrittenKeeps
<1>5. CASE Close(u)
  <2> DEFINE a == [account[u] EXCEPT !.approved = FALSE, !.enabled = FALSE]
  <2>1. Known(u) /\ account' = [account EXCEPT ![u] = a]
    BY <1>1, <1>5 DEF Close
  <2>2. /\ a \in PaymentAccounts /\ a.notified = account[u].notified
        /\ a.delivery = account[u].delivery
    BY <1>2, <2>1 DEF PaymentAccounts
  <2>3. /\ UNCHANGED <<month, arrived, run, breaks, acked, repeated>>
        /\ excused' = excused \cup {u}
    BY <1>5 DEF Close
  <2> HIDE DEF a
  <2> QED
    BY <1>1, <2>1, <2>2, <2>3, WrittenKeeps
<1>6. CASE RemoveOrRegister(u)
  <2>1. /\ UNCHANGED <<month, arrived, run, breaks, acked, repeated>>
        /\ excused' = excused \cup {u}
        /\ account' = [account EXCEPT ![u] = IF Known(u) THEN Gone ELSE Fresh]
    BY <1>6 DEF RemoveOrRegister
  <2>2. CASE Known(u)
    BY <1>1, <2>1, <2>2, WrittenKeeps
  <2>3. CASE ~Known(u)
    BY <1>1, <2>1, <2>3, WrittenKeeps, AccountsOfPayments
  <2> QED
    BY <2>2, <2>3
<1>7. CASE Approved(u)
  <2> DEFINE a == [account[u] EXCEPT !.approved = TRUE]
  <2>1. Known(u) /\ account' = [account EXCEPT ![u] = a]
    BY <1>1, <1>7 DEF Approved
  <2>2. /\ a \in PaymentAccounts /\ a.notified = account[u].notified
        /\ a.delivery = account[u].delivery /\ a.enabled = account[u].enabled
    BY <1>2, <2>1 DEF PaymentAccounts
  <2>3. UNCHANGED <<month, arrived, run, breaks, acked, excused, repeated>>
    BY <1>7 DEF Approved
  <2> HIDE DEF a
  <2> QED
    BY <1>1, <2>1, <2>2, <2>3, WrittenKeeps, AccountsOfPayments
<1> QED
  BY <1>3, <1>4, <1>5, <1>6, <1>7 DEF Administered

\* The calendar moves under a run.
LEMMA CalendarKeeps ==
    ASSUME PaymentInv, month' \in Months, month <= month', arrived' \subseteq Payers,
           UNCHANGED <<account, run, breaks, acked, excused, repeated>>
    PROVE  PaymentInv'
<1>1. month \in Nat /\ month' \in Nat /\ run.month \in Nat
  BY MonthsAssumption DEF PaymentInv, PaymentTypeOK, Months, Runs
<1>2. PaymentTypeOK' /\ PaymentOrder' /\ SentOnce'
  BY <1>1 DEF PaymentInv, PaymentTypeOK, PaymentOrder, Known, SentOnce
<1>3. \A u \in Payers : BackedFor(u)' = BackedFor(u) /\ UnlostFor(u)' = UnlostFor(u)
  BY DEF BackedFor, UnlostFor, Unrecorded, Turn, Known, Counted, Recorded
<1> QED
  BY <1>2, <1>3 DEF PaymentInv

LEMMA PaymentInvInit == PaymentInit => PaymentInv
<1> SUFFICES ASSUME PaymentInit PROVE PaymentInv
  OBVIOUS
<1> DEFINE a == [Fresh EXCEPT !.approved = TRUE, !.enabled = TRUE]
<1>1. a \in PaymentAccounts /\ a.notified = 0 /\ a.delivery = NoDelivery
  BY AccountsOfPayments DEF PaymentAccounts
<1> HIDE DEF a
<1>2. account = [u \in Payers |-> a]
  BY DEF PaymentInit, a
<1>3. \A u \in Payers : account[u] = a /\ acked[u] = {} /\ Unrecorded(u) = {}
  BY <1>2 DEF PaymentInit, Unrecorded, Marking
<1>4. PaymentTypeOK
  BY <1>1, <1>2, MonthsAssumption DEF PaymentInit, PaymentTypeOK, Months, Runs, Steps
<1>5. PaymentOrder
  <2>1. month = 1 /\ run.month = 0 /\ run.step = "idle" /\ NoDelivery.month = 0
    BY AccountsOfPayments DEF PaymentInit
  <2> QED
    BY <1>1, <1>3, <2>1 DEF PaymentOrder
<1>6. \A u \in Payers : BackedFor(u) /\ UnlostFor(u)
  BY <1>3 DEF PaymentInit, BackedFor, UnlostFor
<1> QED
  BY <1>4, <1>5, <1>6 DEF PaymentInit, PaymentInv, SentOnce, Parts

LEMMA PaymentInvNext == PaymentInv /\ [PaymentNext]_paymentVars => PaymentInv'
<1> SUFFICES ASSUME PaymentInv, [PaymentNext]_paymentVars PROVE PaymentInv'
  OBVIOUS
<1>1. month \in Months /\ arrived \subseteq Payers
  BY DEF PaymentInv, PaymentTypeOK
<1>2. CASE StartRun
  BY <1>2, StartRunKeeps
<1>3. CASE Break
  BY <1>3, BreakKeeps
<1>4. CASE MonthEnds
  <2>1. month' \in Months /\ month <= month'
    BY <1>1, <1>4, MonthsAssumption DEF MonthEnds, Months
  <2> QED
    BY <1>4, <2>1, CalendarKeeps DEF MonthEnds
<1>5. CASE \E u \in Edited : Administered(u)
  BY <1>5, AdministeredKeeps, PayersAssumption
<1>6. CASE \E u \in Payers : DayComes(u)
  <2>1. arrived' \subseteq Payers /\ month <= month'
    BY <1>1, <1>6 DEF DayComes, Months
  <2> QED
    BY <1>1, <1>6, <2>1, CalendarKeeps DEF DayComes
<1>7. CASE \E u \in Payers : RunOf(u)
  BY <1>7, PrepareKeeps, UnacknowledgedKeeps, AcknowledgedKeeps, CheckpointKeeps DEF RunOf
<1>8. CASE \E u \in Payers : \E part \in Parts : BreakCommitted(u, part)
  BY <1>8, BreakCommittedKeeps
<1>9. CASE UNCHANGED paymentVars
  BY <1>1, <1>9, CalendarKeeps DEF paymentVars, Months
<1> QED
  BY <1>2, <1>3, <1>4, <1>5, <1>6, <1>7, <1>8, <1>9 DEF PaymentNext

LEMMA PaymentInvariant == PaymentSpec => []PaymentInv
BY PaymentInvInit, PaymentInvNext, PTL DEF PaymentSpec

\* Every variable of the reminders holds what users.json and a run can hold,
\* whoever edits accounts while a run sends and whenever it breaks off.
THEOREM PaymentTypes == PaymentSpec => []PaymentTypeOK
<1>1. PaymentInv => PaymentTypeOK
  BY DEF PaymentInv
<1> QED
  BY <1>1, PaymentInvariant, PTL

\* An account carries a month's mark only if Telegram acknowledged both parts.
THEOREM NotifiedAreSent == PaymentSpec => []NotifiedMeansSent
<1>1. PaymentInv => NotifiedMeansSent
  BY DEF PaymentInv, BackedFor, NotifiedMeansSent
<1> QED
  BY <1>1, PaymentInvariant, PTL

\* A part acknowledged once is not sent again in that month, unless the record
\* of it was lost or taken back.
THEOREM PartsAreSentOnce == PaymentSpec => []SentOnce
<1>1. PaymentInv => SentOnce
  BY DEF PaymentInv
<1> QED
  BY <1>1, PaymentInvariant, PTL

-----------------------------------------------------------------------------
(* Deletion challenges: the table *)

LEMMA LeastNatural ==
    ASSUME NEW T \in SUBSET Nat, T # {} PROVE \E m \in T : \A n \in T : m <= n
<1> DEFINE R == OpToRel(<, Nat)
<1>1. IsWellFoundedOn(R, Nat)
  BY NatLessThanWellFounded
<1>2. \A m \in Nat, n \in Nat : <<m, n>> \in R <=> m < n
  BY DEF OpToRel
<1> HIDE DEF R
<1>3. \E m \in T : \A n \in T : ~ (<<n, m>> \in R)
  BY <1>1, WFMin
<1>4. PICK m \in T : \A n \in T : ~ (<<n, m>> \in R)
  BY <1>3
<1>5. ASSUME NEW n \in T PROVE m <= n
  <2>1. m \in Nat /\ n \in Nat
    OBVIOUS
  <2>2. ~ (n < m)
    BY <1>2, <1>4, <2>1
  <2> QED
    BY <2>1, <2>2
<1> QED
  BY <1>5

\* The table as the lock holder finds it: never more than its bound.
Table(c) == c \subseteq Challenge /\ IsFiniteSet(c) /\ Cardinality(c) <= MaxChallenges

LEMMA TableSmaller ==
    ASSUME NEW c, NEW t, Table(t), c \subseteq t PROVE Table(c)
<1>1. IsFiniteSet(c) /\ Cardinality(c) <= Cardinality(t)
  BY FS_Subset DEF Table
<1>2. Cardinality(c) \in Nat /\ Cardinality(t) \in Nat
  BY <1>1, FS_CardinalityType DEF Table
<1> QED
  BY <1>1, <1>2, ChallengesAssumption DEF Table

\* Making room: the oldest challenge goes when the table is full.
LEMMA RoomyIsRoomy ==
    ASSUME Table(challenges)
    PROVE  Roomy \subseteq challenges /\ Cardinality(Roomy) <= MaxChallenges - 1
<1> DEFINE U == Unexpired
           excess == Cardinality(U) - (MaxChallenges - 1)
           rank(c) == Cardinality({x \in U : x.nonce < c.nonce})
<1>1. U \subseteq challenges /\ Table(U)
  BY TableSmaller DEF Unexpired
<1>2. Cardinality(U) \in Nat /\ IsFiniteSet(U) /\ Cardinality(U) <= MaxChallenges
  BY <1>1, FS_CardinalityType DEF Table
<1>3. Roomy = {c \in U : rank(c) >= excess}
  BY DEF Roomy
<1>4. Roomy \subseteq U
  BY <1>3
<1>5. /\ Cardinality(Roomy) \in Nat /\ Cardinality(Roomy) <= Cardinality(U)
      /\ Cardinality(Roomy) = Cardinality(U) => Roomy = U
  <2>1. IsFiniteSet(Roomy) /\ Cardinality(Roomy) <= Cardinality(U)
        /\ (Cardinality(U) = Cardinality(Roomy) => U = Roomy)
    BY <1>2, <1>4, FS_Subset
  <2> QED
    BY <2>1, FS_CardinalityType
<1>6. CASE Cardinality(U) < MaxChallenges
  BY <1>1, <1>2, <1>4, <1>5, <1>6, ChallengesAssumption
<1>7. CASE Cardinality(U) = MaxChallenges
  <2>1. U # {} /\ excess = 1
    BY <1>7, FS_EmptySet, ChallengesAssumption
  <2> DEFINE N == {c.nonce : c \in U}
  <2>2. \A c \in U : c.nonce \in Nat
    BY <1>1, BoundsAssumption DEF Table, Challenge
  <2>3. N \in SUBSET Nat /\ N # {}
    BY <2>1, <2>2
  <2>4. PICK m \in N : \A n \in N : m <= n
    BY <2>3, LeastNatural
  <2>5. PICK c \in U : c.nonce = m
    BY <2>4
  <2>6. {x \in U : x.nonce < c.nonce} = {}
    <3> SUFFICES ASSUME NEW x \in U, x.nonce < c.nonce PROVE FALSE
      OBVIOUS
    <3>1. m <= x.nonce /\ m \in Nat /\ x.nonce \in Nat
      BY <2>2, <2>3, <2>4
    <3> QED
      BY <2>5, <3>1
  <2>7. rank(c) = 0
    BY <2>6, FS_EmptySet
  <2>8. c \notin Roomy
    BY <1>3, <2>1, <2>7
  <2>9. Cardinality(Roomy) # Cardinality(U)
    BY <1>5, <2>5, <2>8
  <2> QED
    BY <1>1, <1>2, <1>4, <1>5, <1>7, <2>9, ChallengesAssumption
<1> QED
  BY <1>2, <1>6, <1>7, ChallengesAssumption

LEMMA TableAdd ==
    ASSUME NEW t, Table(t), Cardinality(t) <= MaxChallenges - 1, NEW c \in Challenge
    PROVE  Table(t \cup {c})
<1>1. /\ IsFiniteSet(t \cup {c}) /\ Cardinality(t) \in Nat
      /\ Cardinality(t \cup {c}) = IF c \in t THEN Cardinality(t) ELSE Cardinality(t) + 1
  BY FS_AddElement, FS_CardinalityType DEF Table
<1> QED
  BY <1>1, ChallengesAssumption DEF Table

LEMMA TableReplace ==
    ASSUME NEW t, Table(t), NEW c \in t, NEW e \in Challenge
    PROVE  Table((t \ {c}) \cup {e})
<1>1. /\ IsFiniteSet(t \ {c}) /\ Cardinality(t) \in Nat
      /\ Cardinality(t \ {c}) = Cardinality(t) - 1
  BY FS_RemoveElement, FS_CardinalityType DEF Table
<1>2. Table(t \ {c})
  BY TableSmaller
<1>3. Cardinality(t \ {c}) <= MaxChallenges - 1
  BY <1>1, ChallengesAssumption DEF Table
<1> QED
  BY <1>2, <1>3, TableAdd

-----------------------------------------------------------------------------
(* Deletion challenges: what a submission acts on *)

\* c's page no longer shows what is there: the session was rotated, or the
\* profile is another one or none.
Rotated(c) == c.actor[2] < rotation[c.actor[1]]
Replaced(c) == peer[c.identity[1]].config # c.identity[2]

ConfirmationTypes ==
    /\ peer \in [Profiles -> [config : 0..MaxConfigs, protected : BOOLEAN, last : 1..MaxConfigs]]
    /\ rotation \in [Sessions -> 0..MaxRotations]
    /\ Table(challenges)
    /\ made \in 0..MaxMade /\ intact \subseteq 1..made
    /\ accepted \in Seq([nonce : 1..MaxMade, asShown : BOOLEAN])

\* Nonces, configurations and rotations are numbered as they are made.
Numbered ==
    /\ \A d \in Profiles : peer[d].config <= peer[d].last
    /\ \A c \in challenges :
          /\ c.nonce <= made
          /\ c.actor[2] <= rotation[c.actor[1]] /\ c.identity[2] <= peer[c.identity[1]].last
    /\ \A c \in challenges, x \in challenges : c.nonce = x.nonce => c = x

\* A challenge whose page is out of date can be told by what it holds.
Dated == \A c \in challenges : c.nonce \in intact \/ Rotated(c) \/ Replaced(c)

\* What was accepted is spent.
Spent == \A i \in DOMAIN accepted : /\ accepted[i].nonce <= made
                                    /\ \A c \in challenges : c.nonce # accepted[i].nonce

ConfirmationInv == ConfirmationTypes /\ Numbered /\ Dated /\ Spent /\ ConfirmedAsShown

LEMMA ChallengeFields ==
    ASSUME NEW c \in Challenge
    PROVE  /\ c.nonce \in 1..MaxMade /\ c.nonce \in Nat
           /\ c.actor \in Sessions \X (0..MaxRotations)
           /\ c.actor[1] \in Sessions /\ c.actor[2] \in Nat
           /\ c.identity[1] \in Profiles /\ c.identity[2] \in Nat \ {0} /\ c.identity[2] <= MaxConfigs
BY BoundsAssumption, ChallengesAssumption DEF Challenge

\* The types of the numbers that are compared.
LEMMA PeerFields ==
    ASSUME ConfirmationTypes, NEW d \in Profiles
    PROVE  /\ peer[d] \in [config : 0..MaxConfigs, protected : BOOLEAN, last : 1..MaxConfigs]
           /\ peer[d].config \in Nat /\ peer[d].last \in Nat
           /\ peer[d].config <= MaxConfigs /\ peer[d].last <= MaxConfigs /\ peer[d].last >= 1
           /\ peer[d].protected \in BOOLEAN
BY ChallengesAssumption DEF ConfirmationTypes

\* A step that gives no challenge out and accepts nothing.
LEMMA FewerKeep ==
    ASSUME ConfirmationInv, ConfirmationTypes', \A d \in Profiles : peer[d].last <= peer'[d].last,
           \A d \in Profiles : peer'[d].config <= peer'[d].last,
           \A s \in Sessions : rotation[s] <= rotation'[s],
           challenges' \subseteq challenges, made' = made, accepted' = accepted,
           \A c \in challenges' : c.nonce \in intact \ intact' => Rotated(c)' \/ Replaced(c)',
           \A c \in challenges' : Replaced(c) => Replaced(c)'
    PROVE  ConfirmationInv'
<1>1. ConfirmationTypes /\ Numbered /\ Dated /\ Spent /\ ConfirmedAsShown
  BY DEF ConfirmationInv
<1>2. ASSUME NEW c \in challenges'
      PROVE  /\ c.actor[2] <= rotation'[c.actor[1]] /\ c.identity[2] <= peer'[c.identity[1]].last
             /\ Rotated(c) => Rotated(c)'
  <2>1. c \in Challenge /\ c \in challenges
    BY <1>1 DEF ConfirmationTypes, Table
  <2>2. c.actor[2] \in Nat /\ c.identity[2] \in Nat /\ c.actor[1] \in Sessions /\ c.identity[1] \in Profiles
    BY <2>1, ChallengeFields
  <2>3. rotation[c.actor[1]] \in Nat /\ rotation'[c.actor[1]] \in Nat
    BY <1>1, <2>2, BoundsAssumption DEF ConfirmationTypes
  <2>4. peer[c.identity[1]].last \in Nat /\ peer'[c.identity[1]].last \in Nat
    BY <1>1, <2>2, ChallengesAssumption DEF ConfirmationTypes
  <2>5. c.actor[2] <= rotation[c.actor[1]] /\ c.identity[2] <= peer[c.identity[1]].last
    BY <1>1, <2>1 DEF Numbered
  <2>6. rotation[c.actor[1]] <= rotation'[c.actor[1]] /\ peer[c.identity[1]].last <= peer'[c.identity[1]].last
    BY <2>2
  <2> QED
    BY <2>2, <2>3, <2>4, <2>5, <2>6 DEF Rotated
<1>3. Numbered'
  BY <1>1, <1>2 DEF Numbered
<1>4. Dated'
  BY <1>1, <1>2 DEF Dated
<1>5. Spent' /\ ConfirmedAsShown'
  BY <1>1 DEF Spent, ConfirmedAsShown
<1> QED
  BY <1>3, <1>4, <1>5 DEF ConfirmationInv

LEMMA ConfirmKeeps ==
    ASSUME ConfirmationInv, NEW s \in Sessions, NEW d \in Profiles, Confirm(s, d)
    PROVE  ConfirmationInv'
<1>1. ConfirmationTypes /\ Numbered /\ Dated /\ Spent /\ ConfirmedAsShown /\ Table(challenges)
  BY DEF ConfirmationInv, ConfirmationTypes
<1> DEFINE new == [nonce |-> made + 1, actor |-> Actor(s), identity |-> Identity(d), fresh |-> TRUE]
<1>2. /\ made < MaxMade /\ peer[d].config # 0 /\ made' = made + 1
      /\ challenges' = Roomy \cup {new} /\ intact' = intact \cup {made + 1}
      /\ UNCHANGED <<peer, rotation, accepted>>
  BY DEF Confirm, Authorized
<1>3. made \in Nat /\ made + 1 \in 1..MaxMade /\ rotation[s] \in 0..MaxRotations
  BY <1>1, <1>2, BoundsAssumption DEF ConfirmationTypes
<1>4. /\ peer[d].config \in 1..MaxConfigs /\ peer[d].protected \in BOOLEAN
      /\ peer[d].config <= peer[d].last
  BY <1>1, <1>2, PeerFields DEF Numbered
<1>5. Actor(s) \in Sessions \X (0..MaxRotations) /\ Actor(s)[1] = s /\ Actor(s)[2] = rotation[s]
  BY <1>3 DEF Actor
<1>6. /\ Identity(d) \in Profiles \X (1..MaxConfigs) \X BOOLEAN
      /\ Identity(d)[1] = d /\ Identity(d)[2] = peer[d].config
  BY <1>4 DEF Identity
<1>7. /\ new \in Challenge /\ new.nonce = made + 1 /\ new.actor = Actor(s)
      /\ new.identity = Identity(d)
  BY <1>3, <1>5, <1>6 DEF Challenge
<1> HIDE DEF new
<1>8. Roomy \subseteq challenges /\ Cardinality(Roomy) <= MaxChallenges - 1
  BY <1>1, RoomyIsRoomy
<1>9. Table(challenges')
  BY <1>1, <1>2, <1>7, <1>8, TableSmaller, TableAdd
<1>10. ConfirmationTypes'
  <2>1. intact' \subseteq 1..made' /\ made' \in 0..MaxMade
    BY <1>1, <1>2, <1>3 DEF ConfirmationTypes
  <2> QED
    BY <1>1, <1>2, <1>9, <2>1 DEF ConfirmationTypes
<1>11. \A c \in challenges : c.nonce \in Nat /\ c.nonce <= made /\ c.nonce # made + 1
  <2> SUFFICES ASSUME NEW c \in challenges
               PROVE  c.nonce \in Nat /\ c.nonce <= made /\ c.nonce # made + 1
    OBVIOUS
  <2>1. c.nonce \in Nat /\ c.nonce <= made
    BY <1>1, ChallengeFields DEF Table, Numbered
  <2> QED
    BY <1>3, <2>1
<1>12. Numbered'
  <2>1. ASSUME NEW c \in challenges'
        PROVE  /\ c.nonce <= made' /\ c.actor[2] <= rotation'[c.actor[1]]
               /\ c.identity[2] <= peer'[c.identity[1]].last
    <3>1. CASE c = new
      BY <1>2, <1>3, <1>4, <1>5, <1>6, <1>7, <3>1
    <3>2. CASE c \in challenges
      BY <1>1, <1>2, <1>3, <1>11, <3>2 DEF Numbered
    <3> QED
      BY <1>2, <1>8, <3>1, <3>2
  <2>2. ASSUME NEW c \in challenges', NEW x \in challenges', c.nonce = x.nonce PROVE c = x
    <3>1. (c \in challenges \/ c = new) /\ (x \in challenges \/ x = new)
      BY <1>2, <1>8
    <3>2. CASE c \in challenges /\ x \in challenges
      BY <1>1, <2>2, <3>2 DEF Numbered
    <3>3. CASE c = new \/ x = new
      BY <1>7, <1>11, <2>2, <3>1, <3>3
    <3> QED
      BY <3>1, <3>2, <3>3
  <2> QED
    BY <1>1, <1>2, <2>1, <2>2 DEF Numbered
<1>13. Dated'
  BY <1>1, <1>2, <1>7, <1>8 DEF Dated, Rotated, Replaced
<1>14. Spent'
  <2>1. ASSUME NEW i \in DOMAIN accepted
        PROVE  /\ accepted[i].nonce <= made' /\ accepted[i].nonce # made + 1
               /\ \A c \in challenges : c.nonce # accepted[i].nonce
    <3> DEFINE Accepted == [nonce : 1..MaxMade, asShown : BOOLEAN]
    <3>1. accepted \in Seq(Accepted) /\ \A r \in Accepted : r.nonce \in Nat
      BY <1>1, BoundsAssumption DEF ConfirmationTypes
    <3> HIDE DEF Accepted
    <3>2. accepted[i].nonce \in Nat
      BY <3>1
    <3>3. accepted[i].nonce <= made /\ \A c \in challenges : c.nonce # accepted[i].nonce
      BY <1>1 DEF Spent
    <3>4. accepted[i].nonce <= made + 1 /\ accepted[i].nonce # made + 1
      BY <1>3, <3>2, <3>3
    <3> QED
      BY <1>2, <3>3, <3>4
  <2> QED
    BY <1>2, <1>7, <1>8, <2>1 DEF Spent
<1> QED
  BY <1>1, <1>2, <1>10, <1>12, <1>13, <1>14 DEF ConfirmationInv, ConfirmedAsShown

\* The profile goes, and every page rendered for it is out of date.
LEMMA GoneIsReplaced ==
    ASSUME ConfirmationInv, NEW d \in Profiles, peer'[d].config = 0,
           intact' = intact \ IssuedFor(d), NEW c \in challenges, c.nonce \in intact \ intact'
    PROVE  Replaced(c)'
<1>1. Numbered /\ c \in Challenge
  BY DEF ConfirmationInv, ConfirmationTypes, Table
<1>2. PICK x \in challenges : x.identity[1] = d /\ x.nonce = c.nonce
  BY DEF IssuedFor
<1>3. x = c
  BY <1>1, <1>2 DEF Numbered
<1>4. c.identity[2] # 0
  BY <1>1, ChallengeFields
<1> QED
  BY <1>2, <1>3, <1>4 DEF Replaced

\* What is left of the others, and of the pages rendered for them.
LEMMA PeerGoes ==
    ASSUME ConfirmationInv, NEW d \in Profiles, intact' = intact \ IssuedFor(d),
           \/ peer' = [peer EXCEPT ![d].config = 0, ![d].protected = FALSE]
           \/ peer' = [peer EXCEPT ![d].config = 0]
    PROVE  /\ peer' \in [Profiles -> [config : 0..MaxConfigs, protected : BOOLEAN, last : 1..MaxConfigs]]
           /\ \A e \in Profiles : peer'[e].last = peer[e].last /\ peer'[e].config <= peer'[e].last
           /\ \A c \in challenges : Replaced(c) => Replaced(c)'
           /\ \A c \in challenges : c.nonce \in intact \ intact' => Replaced(c)'
<1>1. ConfirmationTypes /\ Numbered /\ Table(challenges)
  BY DEF ConfirmationInv, ConfirmationTypes
<1>2. peer[d] \in [config : 0..MaxConfigs, protected : BOOLEAN, last : 1..MaxConfigs]
  BY <1>1, PeerFields
<1>3. 0 \in 0..MaxConfigs
  BY ChallengesAssumption
<1> DEFINE a == [peer[d] EXCEPT !.config = 0, !.protected = FALSE]
           b == [peer[d] EXCEPT !.config = 0]
<1>4. peer' = [peer EXCEPT ![d] = a] \/ peer' = [peer EXCEPT ![d] = b]
  BY <1>1 DEF ConfirmationTypes
<1>5. /\ a \in [config : 0..MaxConfigs, protected : BOOLEAN, last : 1..MaxConfigs]
      /\ b \in [config : 0..MaxConfigs, protected : BOOLEAN, last : 1..MaxConfigs]
      /\ a.config = 0 /\ b.config = 0 /\ a.last = peer[d].last /\ b.last = peer[d].last
  BY <1>2, <1>3
<1> HIDE DEF a, b
<1>6. /\ peer' \in [Profiles -> [config : 0..MaxConfigs, protected : BOOLEAN, last : 1..MaxConfigs]]
      /\ peer'[d].config = 0 /\ peer'[d].last = peer[d].last
      /\ \A e \in Profiles \ {d} : peer'[e] = peer[e]
  BY <1>1, <1>4, <1>5 DEF ConfirmationTypes
<1>7. ASSUME NEW e \in Profiles
      PROVE  peer'[e].last = peer[e].last /\ peer'[e].config <= peer'[e].last
  <2>1. peer[e].last \in Nat /\ peer[e].config <= peer[e].last
    BY <1>1, PeerFields DEF Numbered
  <2> QED
    BY <1>6, <2>1
<1>8. \A c \in challenges : c.nonce \in intact \ intact' => Replaced(c)'
  BY <1>6, GoneIsReplaced
<1>9. ASSUME NEW c \in challenges, Replaced(c) PROVE Replaced(c)'
  <2>1. c \in Challenge
    BY <1>1 DEF Table
  <2>2. c.identity[1] \in Profiles /\ c.identity[2] # 0
    BY <2>1, ChallengeFields
  <2> QED
    BY <1>6, <1>9, <2>2 DEF Replaced
<1> QED
  BY <1>6, <1>7, <1>8, <1>9

\* A step that leaves sessions and profiles alone.
LEMMA NobodyMoves ==
    ASSUME ConfirmationInv, challenges' \subseteq challenges,
           UNCHANGED <<peer, rotation, made, intact, accepted>>
    PROVE  ConfirmationInv'
<1>1. ConfirmationTypes /\ Numbered /\ Table(challenges)
  BY DEF ConfirmationInv, ConfirmationTypes
<1>2. Table(challenges')
  BY <1>1, TableSmaller
<1>3. ConfirmationTypes'
  BY <1>1, <1>2 DEF ConfirmationTypes
<1>4. \A s \in Sessions : rotation[s] <= rotation'[s]
  BY <1>1, BoundsAssumption DEF ConfirmationTypes
<1>5. \A d \in Profiles : peer[d].last <= peer'[d].last /\ peer'[d].config <= peer'[d].last
  BY <1>1, PeerFields DEF Numbered
<1>6. \A c : Replaced(c)' = Replaced(c)
  BY DEF Replaced
<1> QED
  BY <1>3, <1>4, <1>5, <1>6, FewerKeep

LEMMA SubmitKeeps ==
    ASSUME ConfirmationInv, NEW s \in Sessions, NEW d \in Profiles, NEW c \in challenges,
           NEW consent \in BOOLEAN, Submit(s, d, c, consent)
    PROVE  ConfirmationInv'
<1>1. /\ ConfirmationTypes /\ Numbered /\ Dated /\ Spent /\ ConfirmedAsShown
      /\ c \in Challenge
  BY DEF ConfirmationInv, ConfirmationTypes, Table
<1>2. challenges' = challenges \ {c} /\ UNCHANGED <<rotation, made>>
  BY DEF Submit
<1>3. CASE ~(Valid(c, s, d) /\ consent)
  BY <1>2, <1>3, NobodyMoves DEF Submit
<1>4. CASE Valid(c, s, d) /\ consent
  <2> DEFINE r == [nonce |-> c.nonce, asShown |-> Shown(c, s, d)]
  <2>1. /\ accepted' = Append(accepted, r)
        /\ \/ /\ peer' = [peer EXCEPT ![d].config = 0, ![d].protected = FALSE]
              /\ intact' = intact \ IssuedFor(d)
           \/ UNCHANGED <<peer, intact>>
    BY <1>4 DEF Submit
  <2>2. /\ c.actor[1] = s /\ c.actor[2] = rotation[s] /\ c.identity[1] = d
        /\ c.identity[2] = peer[d].config /\ c.identity[3] = peer[d].protected
    BY <1>4 DEF Valid, Actor, Identity
  <2>3. ~Rotated(c) /\ ~Replaced(c)
    <3>1. rotation[s] \in Nat
      BY <1>1, BoundsAssumption DEF ConfirmationTypes
    <3> QED
      BY <2>2, <3>1 DEF Rotated, Replaced
  <2>4. Shown(c, s, d) = TRUE
    BY <1>1, <2>2, <2>3 DEF Dated, Shown
  <2>5. r = [nonce |-> c.nonce, asShown |-> TRUE]
    BY <2>4
  <2>6. /\ r \in [nonce : 1..MaxMade, asShown : BOOLEAN] /\ r.nonce = c.nonce /\ r.asShown
    BY <1>1, <2>5, ChallengeFields
  <2> HIDE DEF r
  <2>7. /\ accepted' \in Seq([nonce : 1..MaxMade, asShown : BOOLEAN])
        /\ DOMAIN accepted' = DOMAIN accepted \cup {Len(accepted) + 1}
        /\ Len(accepted) + 1 \notin DOMAIN accepted
        /\ accepted'[Len(accepted) + 1] = r
        /\ \A i \in DOMAIN accepted : accepted'[i] = accepted[i]
    <3>1. accepted \in Seq([nonce : 1..MaxMade, asShown : BOOLEAN])
      BY <1>1 DEF ConfirmationTypes
    <3> QED
      BY <2>1, <2>6, <3>1
  \* The rest is as if nothing had been accepted.
  <2>8. /\ ConfirmationTypes' /\ Numbered' /\ Dated'
    <3>1. /\ peer' \in [Profiles -> [config : 0..MaxConfigs, protected : BOOLEAN,
                                     last : 1..MaxConfigs]]
          /\ \A e \in Profiles : peer'[e].last = peer[e].last /\ peer'[e].config <= peer'[e].last
          /\ \A x \in challenges : Replaced(x) => Replaced(x)'
          /\ \A x \in challenges : x.nonce \in intact \ intact' => Replaced(x)'
      <4>1. CASE UNCHANGED <<peer, intact>>
        BY <1>1, <4>1 DEF ConfirmationTypes, Numbered, Replaced
      <4>2. CASE /\ peer' = [peer EXCEPT ![d].config = 0, ![d].protected = FALSE]
                 /\ intact' = intact \ IssuedFor(d)
        BY <1>1, <4>2, PeerGoes
      <4> QED
        BY <2>1, <4>1, <4>2
    <3>2. intact' \subseteq intact /\ Table(challenges')
      BY <1>1, <1>2, <2>1, TableSmaller DEF ConfirmationTypes
    <3>3. ConfirmationTypes'
      BY <1>1, <1>2, <2>7, <3>1, <3>2 DEF ConfirmationTypes
    <3>4. Numbered'
      <4>1. \A x \in challenges : x.identity[1] \in Profiles
        BY <1>1, ChallengeFields DEF ConfirmationTypes, Table
      <4> QED
        BY <1>1, <1>2, <3>1, <4>1 DEF Numbered
    <3>5. Dated'
      BY <1>1, <1>2, <3>1 DEF Dated, Rotated
    <3> QED
      BY <3>3, <3>4, <3>5
  <2>9. \A i \in DOMAIN accepted : accepted[i].nonce # c.nonce
    BY <1>1 DEF Spent
  <2>10. Spent'
    BY <1>1, <1>2, <2>6, <2>7 DEF Spent, Numbered
  <2>11. ConfirmedAsShown'
    BY <1>1, <2>6, <2>7, <2>9 DEF ConfirmedAsShown
  <2> QED
    BY <2>8, <2>10, <2>11 DEF ConfirmationInv
<1> QED
  BY <1>3, <1>4

LEMMA MadeAgainKeeps ==
    ASSUME ConfirmationInv, NEW d \in Profiles, MadeAgain(d) PROVE ConfirmationInv'
<1>1. ConfirmationTypes /\ Numbered /\ Table(challenges)
  BY DEF ConfirmationInv, ConfirmationTypes
<1>2. /\ peer[d] \in [config : 0..MaxConfigs, protected : BOOLEAN, last : 1..MaxConfigs]
      /\ peer[d].last \in Nat /\ peer[d].last < MaxConfigs
  BY <1>1, PeerFields DEF MadeAgain
<1> DEFINE next == peer[d].last + 1
           a == [peer[d] EXCEPT !.config = next, !.last = next]
<1>3. next \in 0..MaxConfigs /\ next \in 1..MaxConfigs /\ next > peer[d].last
  BY <1>2, ChallengesAssumption
<1>4. peer' = [peer EXCEPT ![d] = a] /\ UNCHANGED <<rotation, challenges, made, intact, accepted>>
  BY <1>1 DEF MadeAgain, ConfirmationTypes
<1> HIDE DEF next
<1>5. /\ a \in [config : 0..MaxConfigs, protected : BOOLEAN, last : 1..MaxConfigs]
      /\ a.config = next /\ a.last = next
  BY <1>2, <1>3
<1> HIDE DEF a
<1>6. /\ peer' \in [Profiles -> [config : 0..MaxConfigs, protected : BOOLEAN, last : 1..MaxConfigs]]
      /\ peer'[d].config = next /\ peer'[d].last = next
      /\ \A e \in Profiles \ {d} : peer'[e] = peer[e]
  BY <1>1, <1>4, <1>5 DEF ConfirmationTypes
<1>7. ConfirmationTypes'
  BY <1>1, <1>4, <1>6 DEF ConfirmationTypes
<1>8. ASSUME NEW e \in Profiles
      PROVE  peer[e].last <= peer'[e].last /\ peer'[e].config <= peer'[e].last
  <2>1. peer[e].last \in Nat /\ peer[e].config <= peer[e].last
    BY <1>1, PeerFields DEF Numbered
  <2> QED
    BY <1>3, <1>6, <2>1
<1>9. ASSUME NEW c \in challenges', Replaced(c) PROVE Replaced(c)'
  <2>1. c \in Challenge /\ c \in challenges
    BY <1>1, <1>4 DEF Table
  <2>2. c.identity[1] \in Profiles /\ c.identity[2] \in Nat /\ c.identity[2] <= peer[c.identity[1]].last
    BY <1>1, <2>1, ChallengeFields DEF Numbered
  <2>3. CASE c.identity[1] = d
    BY <1>2, <1>3, <1>6, <2>2, <2>3 DEF Replaced
  <2>4. CASE c.identity[1] # d
    BY <1>6, <1>9, <2>2, <2>4 DEF Replaced
  <2> QED
    BY <2>3, <2>4
<1>10. \A s \in Sessions : rotation[s] <= rotation'[s]
  BY <1>1, <1>4, BoundsAssumption DEF ConfirmationTypes
<1> QED
  BY <1>4, <1>7, <1>8, <1>9, <1>10, FewerKeep

LEMMA ProtectKeeps ==
    ASSUME ConfirmationInv, NEW d \in Profiles, Protect(d) PROVE ConfirmationInv'
<1>1. ConfirmationTypes /\ Numbered /\ Table(challenges)
  BY DEF ConfirmationInv, ConfirmationTypes
<1> DEFINE a == [peer[d] EXCEPT !.protected = ~@]
<1>2. peer' = [peer EXCEPT ![d] = a] /\ UNCHANGED <<rotation, challenges, made, intact, accepted>>
  BY <1>1 DEF Protect, ConfirmationTypes
<1>3. /\ a \in [config : 0..MaxConfigs, protected : BOOLEAN, last : 1..MaxConfigs]
      /\ a.config = peer[d].config /\ a.last = peer[d].last
  BY <1>1, PeerFields
<1> HIDE DEF a
<1>4. /\ peer' \in [Profiles -> [config : 0..MaxConfigs, protected : BOOLEAN, last : 1..MaxConfigs]]
      /\ \A e \in Profiles : peer'[e].config = peer[e].config /\ peer'[e].last = peer[e].last
  BY <1>1, <1>2, <1>3 DEF ConfirmationTypes
<1>5. ConfirmationTypes'
  BY <1>1, <1>2, <1>4 DEF ConfirmationTypes
<1>6. \A e \in Profiles : peer[e].last <= peer'[e].last /\ peer'[e].config <= peer'[e].last
  BY <1>1, <1>4, PeerFields DEF Numbered
<1>7. ASSUME NEW c \in challenges', Replaced(c) PROVE Replaced(c)'
  <2>1. c \in Challenge
    BY <1>1, <1>2 DEF Table
  <2> QED
    BY <1>4, <1>7, <2>1, ChallengeFields DEF Replaced
<1>8. \A s \in Sessions : rotation[s] <= rotation'[s]
  BY <1>1, <1>2, BoundsAssumption DEF ConfirmationTypes
<1> QED
  BY <1>2, <1>5, <1>6, <1>7, <1>8, FewerKeep

LEMMA RemovedElsewhereKeeps ==
    ASSUME ConfirmationInv, NEW d \in Profiles, RemovedElsewhere(d) PROVE ConfirmationInv'
<1>1. ConfirmationTypes /\ Numbered /\ Table(challenges)
  BY DEF ConfirmationInv, ConfirmationTypes
<1>2. /\ peer' = [peer EXCEPT ![d].config = 0] /\ intact' = intact \ IssuedFor(d)
      /\ UNCHANGED <<rotation, challenges, made, accepted>>
  BY DEF RemovedElsewhere
<1>3. /\ peer' \in [Profiles -> [config : 0..MaxConfigs, protected : BOOLEAN, last : 1..MaxConfigs]]
      /\ \A e \in Profiles : peer'[e].last = peer[e].last /\ peer'[e].config <= peer'[e].last
      /\ \A c \in challenges : Replaced(c) => Replaced(c)'
      /\ \A c \in challenges : c.nonce \in intact \ intact' => Replaced(c)'
  BY <1>2, PeerGoes
<1>4. ConfirmationTypes'
  BY <1>1, <1>2, <1>3 DEF ConfirmationTypes
<1>5. \A e \in Profiles : peer[e].last <= peer'[e].last
  BY <1>1, <1>3, PeerFields
<1>6. \A s \in Sessions : rotation[s] <= rotation'[s]
  BY <1>1, <1>2, BoundsAssumption DEF ConfirmationTypes
<1> QED
  BY <1>2, <1>3, <1>4, <1>5, <1>6, FewerKeep

LEMMA RotateKeeps ==
    ASSUME ConfirmationInv, NEW s \in Sessions, Rotate(s) PROVE ConfirmationInv'
<1>1. ConfirmationTypes /\ Numbered /\ Table(challenges) /\ rotation[s] \in 0..MaxRotations
  BY DEF ConfirmationInv, ConfirmationTypes
<1>2. /\ rotation' = [rotation EXCEPT ![s] = @ + 1] /\ intact' = intact \ IssuedTo(s)
      /\ rotation[s] < MaxRotations /\ UNCHANGED <<peer, challenges, made, accepted>>
  BY DEF Rotate
<1>3. rotation[s] + 1 \in 0..MaxRotations /\ rotation[s] \in Nat
  BY <1>1, <1>2, BoundsAssumption
<1>4. /\ rotation' \in [Sessions -> 0..MaxRotations] /\ rotation'[s] = rotation[s] + 1
      /\ \A t \in Sessions \ {s} : rotation'[t] = rotation[t]
  BY <1>1, <1>2, <1>3 DEF ConfirmationTypes
<1>5. ConfirmationTypes'
  BY <1>1, <1>2, <1>4 DEF ConfirmationTypes
<1>6. \A t \in Sessions : rotation[t] <= rotation'[t]
  <2>1. \A t \in Sessions : rotation[t] \in Nat
    BY <1>1 DEF ConfirmationTypes
  <2>2. rotation[s] <= rotation[s] + 1
    BY <1>3
  <2>3. \A t \in Sessions \ {s} : rotation[t] <= rotation[t]
    BY <2>1
  <2> QED
    BY <1>4, <2>2, <2>3
<1>7. ASSUME NEW c \in challenges', c.nonce \in intact \ intact' PROVE Rotated(c)'
  <2>1. PICK x \in challenges : x.actor[1] = s /\ x.nonce = c.nonce
    BY <1>2, <1>7 DEF IssuedTo
  <2>2. x = c /\ c \in Challenge /\ c.actor[2] <= rotation[s]
    BY <1>1, <1>2, <2>1 DEF Numbered, Table
  <2>3. c.actor[2] \in Nat
    BY <2>2, ChallengeFields
  <2> QED
    BY <1>3, <1>4, <2>1, <2>2, <2>3 DEF Rotated
<1>8. \A c : Replaced(c)' = Replaced(c)
  BY <1>2 DEF Replaced
<1>9. \A d \in Profiles : peer[d].last <= peer'[d].last /\ peer'[d].config <= peer'[d].last
  BY <1>1, <1>2, PeerFields DEF Numbered
<1> QED
  BY <1>2, <1>5, <1>6, <1>7, <1>8, <1>9, FewerKeep

LEMMA LapseKeeps ==
    ASSUME ConfirmationInv, NEW c \in challenges, Lapse(c) PROVE ConfirmationInv'
<1>1. ConfirmationTypes /\ Numbered /\ Dated /\ Spent /\ ConfirmedAsShown /\ c \in Challenge
  BY DEF ConfirmationInv, ConfirmationTypes, Table
<1> DEFINE old == [c EXCEPT !.fresh = FALSE]
<1>2. challenges' = (challenges \ {c}) \cup {old} /\ UNCHANGED <<peer, rotation, made, intact, accepted>>
  BY DEF Lapse
<1>3. /\ old \in Challenge /\ old.nonce = c.nonce /\ old.actor = c.actor
      /\ old.identity = c.identity
  BY <1>1 DEF Challenge
<1> HIDE DEF old
<1>4. ConfirmationTypes'
  BY <1>1, <1>2, <1>3, TableReplace DEF ConfirmationTypes
<1>5. Numbered'
  <2>1. ASSUME NEW x \in challenges'
        PROVE  /\ x.nonce <= made' /\ x.actor[2] <= rotation'[x.actor[1]]
               /\ x.identity[2] <= peer'[x.identity[1]].last
    BY <1>1, <1>2, <1>3 DEF Numbered
  <2>2. ASSUME NEW x \in challenges', NEW y \in challenges', x.nonce = y.nonce PROVE x = y
    <3>1. x \in challenges \ {c} \/ x = old
      BY <1>2
    <3>2. y \in challenges \ {c} \/ y = old
      BY <1>2
    <3> QED
      BY <1>1, <1>3, <2>2, <3>1, <3>2 DEF Numbered
  <2> QED
    BY <1>1, <1>2, <2>1, <2>2 DEF Numbered
<1>6. Dated'
  BY <1>1, <1>2, <1>3 DEF Dated, Rotated, Replaced
<1>7. Spent' /\ ConfirmedAsShown'
  BY <1>1, <1>2, <1>3 DEF Spent, ConfirmedAsShown
<1> QED
  BY <1>4, <1>5, <1>6, <1>7 DEF ConfirmationInv

LEMMA ConfirmationInvInit == ChallengesInit => ConfirmationInv
<1> SUFFICES ASSUME ChallengesInit PROVE ConfirmationInv
  OBVIOUS
<1>1. Table({})
  BY FS_EmptySet, ChallengesAssumption DEF Table
<1>2. ConfirmationTypes
  BY <1>1, BoundsAssumption, ChallengesAssumption DEF ChallengesInit, ConfirmationTypes
<1> QED
  BY <1>2 DEF ChallengesInit, ConfirmationInv, Numbered, Dated, Spent, ConfirmedAsShown

LEMMA ConfirmationInvNext == ConfirmationInv /\ [ChallengesNext]_challengeVars => ConfirmationInv'
<1> SUFFICES ASSUME ConfirmationInv, [ChallengesNext]_challengeVars PROVE ConfirmationInv'
  OBVIOUS
<1>1. CASE \E s \in Sessions, d \in Profiles : Confirm(s, d)
  BY <1>1, ConfirmKeeps
<1>2. CASE \E s \in Sessions, d \in Profiles :
              \E c \in challenges, consent \in BOOLEAN : Submit(s, d, c, consent)
  BY <1>2, SubmitKeeps
<1>3. CASE \E d \in Profiles : Protect(d) \/ RemovedElsewhere(d) \/ MadeAgain(d)
  BY <1>3, ProtectKeeps, RemovedElsewhereKeeps, MadeAgainKeeps
<1>4. CASE \E s \in Sessions : Rotate(s)
  BY <1>4, RotateKeeps
<1>5. CASE \E c \in challenges : Lapse(c)
  BY <1>5, LapseKeeps
<1>6. CASE ChallengesLost
  BY <1>6, NobodyMoves DEF ChallengesLost
<1>7. CASE UNCHANGED challengeVars
  BY <1>7, NobodyMoves DEF challengeVars
<1> QED
  BY <1>1, <1>2, <1>3, <1>4, <1>5, <1>6, <1>7 DEF ChallengesNext

LEMMA ConfirmationInvariant == ChallengesSpec => []ConfirmationInv
BY ConfirmationInvInit, ConfirmationInvNext, PTL DEF ChallengesSpec

\* Every variable holds what the process can hold; the table of challenges
\* never has more than its bound, however fast pages are asked for.
THEOREM ChallengeTypes == ChallengesSpec => []ChallengesTypeOK
<1>1. ConfirmationInv => ChallengesTypeOK
  BY DEF ConfirmationInv, ConfirmationTypes, Table, ChallengesTypeOK
<1> QED
  BY <1>1, ConfirmationInvariant, PTL

\* A confirmed deletion acts on the profile its page showed, for the session
\* that saw the page, and every page counts once.
THEOREM DeletionsAreAsShown == ChallengesSpec => []ConfirmedAsShown
<1>1. ConfirmationInv => ConfirmedAsShown
  BY DEF ConfirmationInv
<1> QED
  BY <1>1, ConfirmationInvariant, PTL

-----------------------------------------------------------------------------
(* Logs of times *)

\* n times lead the log: all of them old, and the next one, if any, recent.
Leads(n, log, t) == /\ \A i \in 1..n : log[i] <= t
                    /\ n < Len(log) => log[n + 1] > t

LEMMA LeadingExists ==
    ASSUME NEW log \in Seq(Int), NEW t \in Int PROVE \E n \in 0..Len(log) : Leads(n, log, t)
<1> DEFINE late == {i \in 1..Len(log) : log[i] > t}
<1>1. Len(log) \in Nat /\ \A i \in 1..Len(log) : log[i] \in Int
  OBVIOUS
<1>2. CASE late = {}
  <2>1. Leads(Len(log), log, t)
    BY <1>1, <1>2 DEF Leads
  <2> QED
    BY <1>1, <2>1
<1>3. CASE late # {}
  <2>1. late \in SUBSET Nat
    BY <1>1
  <2>2. PICK m \in late : \A i \in late : m <= i
    BY <1>3, <2>1, LeastNatural
  <2>3. m \in 1..Len(log) /\ log[m] > t
    OBVIOUS
  <2>4. m - 1 \in 0..Len(log) /\ (m - 1) + 1 = m
    BY <1>1, <2>3
  <2>5. ASSUME NEW i \in 1..(m - 1) PROVE log[i] <= t
    <3>1. i \in 1..Len(log) /\ ~(m <= i)
      BY <1>1, <2>3
    <3>2. i \notin late
      BY <2>2, <3>1
    <3> QED
      BY <1>1, <3>1, <3>2
  <2>6. Leads(m - 1, log, t)
    BY <2>3, <2>4, <2>5 DEF Leads
  <2> QED
    BY <2>4, <2>6
<1> QED
  BY <1>2, <1>3

LEMMA LeadingIs ==
    ASSUME NEW log \in Seq(Int), NEW t \in Int
    PROVE  Leading(log, t) \in 0..Len(log) /\ Leads(Leading(log, t), log, t)
BY LeadingExists DEF Leading, Leads

\* What is left of a log, by its length and its members.
LEMMA PopLeftIs ==
    ASSUME NEW log \in Seq(Int), NEW t \in Int
    PROVE  LET n == Leading(log, t)
               rest == PopLeft(log, t)
           IN  /\ n \in 0..Len(log) /\ Leads(n, log, t)
               /\ Len(rest) = Len(log) - n
               /\ \A i \in 1..Len(rest) : i + n \in 1..Len(log) /\ rest[i] = log[i + n]
<1> DEFINE n == Leading(log, t)
<1>1. n \in 0..Len(log) /\ Leads(n, log, t)
  BY LeadingIs
<1>2. Len(log) \in Nat
  OBVIOUS
<1> HIDE DEF n
<1>3. PopLeft(log, t) = SubSeq(log, n + 1, Len(log))
  BY DEF PopLeft, n
<1>4. Len(SubSeq(log, n + 1, Len(log))) = Len(log) - n
  BY <1>1, <1>2
<1>5. ASSUME NEW i \in 1..(Len(log) - n)
      PROVE  i + n \in 1..Len(log) /\ SubSeq(log, n + 1, Len(log))[i] = log[i + n]
  BY <1>1, <1>2
<1> QED
  BY <1>1, <1>3, <1>4, <1>5 DEF n

\* Nothing but times of the log is left.
LEMMA PopLeftTyped ==
    ASSUME NEW S \in SUBSET Int, NEW log \in Seq(S), NEW t \in Int
    PROVE  PopLeft(log, t) \in Seq(S)
<1>1. log \in Seq(Int) /\ Len(log) \in Nat
  <2>1. Len(log) \in Nat /\ log \in [1..Len(log) -> S]
    OBVIOUS
  <2>2. log \in [1..Len(log) -> Int]
    BY <2>1
  <2> QED
    BY <2>1, <2>2, SeqDef
<1>2. Leading(log, t) \in 0..Len(log)
  BY <1>1, LeadingIs
<1> DEFINE n == Leading(log, t)
<1> HIDE DEF n
<1>3. SubSeq(log, n + 1, Len(log)) \in Seq(S)
  BY <1>2 DEF n
<1> QED
  BY <1>3 DEF PopLeft, n

\* The times of a log against a time, and against each other.
UpTo(log, t) == \A i \in 1..Len(log) : log[i] <= t
After(log, t) == \A i \in 1..Len(log) : log[i] > t
Sorted(log) == \A i, j \in 1..Len(log) : i <= j => log[i] <= log[j]

\* The first Len(f) of the times g are each within MaxLate after one of f, in
\* order: v more of them may follow, and f may hold older times before.
Surplus(f, g, v) == Len(f) + v - Len(g)
Matches(f, g, v) ==
    /\ Surplus(f, g, v) >= 0
    /\ \A i \in 1..Len(g) :
          i + Surplus(f, g, v) <= Len(f) => g[i] <= f[i + Surplus(f, g, v)] + MaxLate

LEMMA LogIs ==
    ASSUME NEW log \in Seq(Int)
    PROVE  Len(log) \in Nat /\ \A i \in 1..Len(log) : log[i] \in Int
OBVIOUS

LEMMA EmptyLog ==
    ASSUME NEW log \in Seq(Int), Len(log) = 0 PROVE log = <<>>
OBVIOUS

LEMMA AppendIs ==
    ASSUME NEW log \in Seq(Int), NEW x \in Int
    PROVE  /\ Append(log, x) \in Seq(Int) /\ Len(Append(log, x)) = Len(log) + 1
           /\ Append(log, x)[Len(log) + 1] = x
           /\ \A i \in 1..Len(log) : Append(log, x)[i] = log[i]
           /\ \A i \in 1..Len(log) + 1 : i \in 1..Len(log) \/ i = Len(log) + 1
<1>1. Append(log, x) \in Seq(Int) /\ Len(Append(log, x)) = Len(log) + 1
  OBVIOUS
<1>2. Append(log, x)[Len(log) + 1] = x
  OBVIOUS
<1>3. \A i \in 1..Len(log) : Append(log, x)[i] = log[i]
  OBVIOUS
<1>4. Len(log) \in Nat
  OBVIOUS
<1>5. \A i \in 1..Len(log) + 1 : i \in 1..Len(log) \/ i = Len(log) + 1
  BY <1>4
<1> QED
  BY <1>1, <1>2, <1>3, <1>5

LEMMA EmptyIs ==
    /\ <<>> \in Seq(Int) /\ Len(<<>>) = 0 /\ \A i \in 1..Len(<<>>) : FALSE
    /\ \A t : UpTo(<<>>, t) /\ After(<<>>, t)
    /\ Sorted(<<>>)
BY DEF UpTo, After, Sorted

LEMMA UpToLater ==
    ASSUME NEW log \in Seq(Int), NEW t \in Int, UpTo(log, t), NEW u \in Int, t <= u
    PROVE  UpTo(log, u)
BY LogIs DEF UpTo

LEMMA AfterEarlier ==
    ASSUME NEW log \in Seq(Int), NEW t \in Int, After(log, t), NEW u \in Int, u <= t
    PROVE  After(log, u)
BY LogIs DEF After

\* A log with nothing before a time and nothing after it is empty.
LEMMA NothingBetween ==
    ASSUME NEW log \in Seq(Int), NEW t \in Int, After(log, t), UpTo(log, t)
    PROVE  log = <<>>
<1>1. ~(Len(log) > 0)
  <2> SUFFICES ASSUME Len(log) > 0 PROVE FALSE
    OBVIOUS
  <2>1. 1 \in 1..Len(log) /\ log[1] \in Int
    BY LogIs
  <2>2. log[1] > t /\ log[1] <= t
    BY <2>1 DEF After, UpTo
  <2> QED
    BY <2>1, <2>2
<1>2. Len(log) = 0
  BY <1>1, LogIs
<1> QED
  BY <1>2, EmptyLog

LEMMA AppendUpTo ==
    ASSUME NEW log \in Seq(Int), NEW x \in Int, NEW t \in Int, UpTo(log, t), x <= t
    PROVE  UpTo(Append(log, x), t)
BY AppendIs DEF UpTo

LEMMA AppendAfter ==
    ASSUME NEW log \in Seq(Int), NEW x \in Int, NEW t \in Int, After(log, t), x > t
    PROVE  After(Append(log, x), t)
BY AppendIs DEF After

LEMMA AppendSorted ==
    ASSUME NEW log \in Seq(Int), NEW x \in Int, Sorted(log), UpTo(log, x)
    PROVE  Sorted(Append(log, x))
<1> DEFINE long == Append(log, x)
<1>1. /\ Len(long) = Len(log) + 1 /\ long[Len(log) + 1] = x
      /\ \A i \in 1..Len(log) : long[i] = log[i]
      /\ \A i \in 1..Len(log) + 1 : i \in 1..Len(log) \/ i = Len(log) + 1
  BY AppendIs
<1>2. Len(log) \in Nat
  BY LogIs
<1> SUFFICES ASSUME NEW i \in 1..Len(long), NEW j \in 1..Len(long), i <= j
             PROVE  long[i] <= long[j]
  BY DEF Sorted
<1> HIDE DEF long
<1>3. (i \in 1..Len(log) \/ i = Len(log) + 1) /\ (j \in 1..Len(log) \/ j = Len(log) + 1)
  BY <1>1
<1>4. CASE j \in 1..Len(log)
  <2>1. i \in 1..Len(log)
    BY <1>2, <1>3, <1>4
  <2> QED
    BY <1>1, <1>4, <2>1 DEF Sorted
<1>5. CASE j = Len(log) + 1 /\ i \in 1..Len(log)
  BY <1>1, <1>5 DEF UpTo
<1>6. CASE j = Len(log) + 1 /\ i = Len(log) + 1
  BY <1>1, <1>6
<1> QED
  BY <1>3, <1>4, <1>5, <1>6

\* What is left of a log was in it, and less is left.
LEMMA PopLeftOf ==
    ASSUME NEW log \in Seq(Int), NEW t \in Int
    PROVE  /\ PopLeft(log, t) \in Seq(Int) /\ Len(PopLeft(log, t)) <= Len(log)
           /\ \A u : UpTo(log, u) => UpTo(PopLeft(log, t), u)
           /\ \A u : After(log, u) => After(PopLeft(log, t), u)
<1> DEFINE n == Leading(log, t)
           p == PopLeft(log, t)
<1>1. /\ n \in 0..Len(log) /\ Len(p) = Len(log) - n /\ p \in Seq(Int)
      /\ \A i \in 1..Len(p) : i + n \in 1..Len(log) /\ p[i] = log[i + n]
  BY PopLeftIs, PopLeftTyped
<1>2. Len(log) \in Nat
  BY LogIs
<1> HIDE DEF n, p
<1>3. Len(p) <= Len(log)
  BY <1>1, <1>2
<1>4. ASSUME NEW u, UpTo(log, u) PROVE UpTo(p, u)
  BY <1>1, <1>4 DEF UpTo
<1>5. ASSUME NEW u, After(log, u) PROVE After(p, u)
  BY <1>1, <1>5 DEF After
<1> QED
  BY <1>1, <1>3, <1>4, <1>5 DEF p

\* A sorted log is left with the times after t.
LEMMA PopLeftSorted ==
    ASSUME NEW log \in Seq(Int), NEW t \in Int, Sorted(log)
    PROVE  Sorted(PopLeft(log, t)) /\ After(PopLeft(log, t), t)
<1> DEFINE n == Leading(log, t)
           p == PopLeft(log, t)
<1>1. /\ n \in 0..Len(log) /\ Len(p) = Len(log) - n /\ Leads(n, log, t)
      /\ \A i \in 1..Len(p) : i + n \in 1..Len(log) /\ p[i] = log[i + n]
  BY PopLeftIs
<1>2. Len(log) \in Nat /\ \A i \in 1..Len(log) : log[i] \in Int
  BY LogIs
<1> HIDE DEF n, p
<1>3. Sorted(p)
  <2> SUFFICES ASSUME NEW i \in 1..Len(p), NEW j \in 1..Len(p), i <= j PROVE p[i] <= p[j]
    BY DEF Sorted
  <2>1. i + n <= j + n
    BY <1>1, <1>2
  <2> QED
    BY <1>1, <2>1 DEF Sorted
<1>4. After(p, t)
  <2> SUFFICES ASSUME NEW i \in 1..Len(p) PROVE p[i] > t
    BY DEF After
  <2>1. n < Len(log) /\ n + 1 \in 1..Len(log) /\ n + 1 <= i + n
    BY <1>1, <1>2
  <2>2. log[n + 1] > t
    BY <1>1, <2>1 DEF Leads
  <2>3. i + n \in 1..Len(log) /\ p[i] = log[i + n]
    BY <1>1
  <2>4. log[n + 1] <= log[i + n]
    BY <2>1, <2>3 DEF Sorted
  <2> QED
    BY <1>2, <2>1, <2>2, <2>3, <2>4
<1> QED
  BY <1>3, <1>4 DEF p

\* Nothing after t, and all of the log goes.
LEMMA PopLeftAll ==
    ASSUME NEW log \in Seq(Int), NEW t \in Int, UpTo(log, t) PROVE PopLeft(log, t) = <<>>
<1> DEFINE n == Leading(log, t)
<1>1. /\ n \in 0..Len(log) /\ Leads(n, log, t) /\ Len(PopLeft(log, t)) = Len(log) - n
  BY PopLeftIs
<1>2. Len(log) \in Nat /\ \A i \in 1..Len(log) : log[i] \in Int
  BY LogIs
<1> HIDE DEF n
<1>3. ~(n < Len(log))
  <2> SUFFICES ASSUME n < Len(log) PROVE FALSE
    OBVIOUS
  <2>1. n + 1 \in 1..Len(log)
    BY <1>1, <1>2
  <2>2. log[n + 1] > t /\ log[n + 1] <= t /\ log[n + 1] \in Int
    BY <1>1, <1>2, <2>1 DEF Leads, UpTo
  <2> QED
    BY <2>2
<1>4. Len(PopLeft(log, t)) = 0
  BY <1>1, <1>2, <1>3
<1> QED
  BY <1>4, EmptyLog, PopLeftOf

-----------------------------------------------------------------------------
(* Times that are matched *)

LEMMA MatchedCount ==
    ASSUME NEW f \in Seq(Int), NEW g \in Seq(Int), NEW v \in Nat, Matches(f, g, v)
    PROVE  Len(g) <= Len(f) + v
BY LogIs DEF Matches, Surplus

LEMMA MatchesNone ==
    ASSUME NEW g \in Seq(Int), NEW v \in Nat, Len(g) <= v PROVE Matches(<<>>, g, v)
<1>1. Len(g) \in Nat /\ Len(<<>>) = 0
  BY LogIs, EmptyIs
<1>2. Surplus(<<>>, g, v) >= 0 /\ Surplus(<<>>, g, v) \in Int
  BY <1>1 DEF Surplus
<1>3. \A i \in 1..Len(g) : ~(i + Surplus(<<>>, g, v) <= Len(<<>>))
  BY <1>1, <1>2
<1> QED
  BY <1>2, <1>3 DEF Matches

LEMMA MatchesEmpty ==
    ASSUME NEW v \in Nat PROVE Matches(<<>>, <<>>, v)
<1>1. Surplus(<<>>, <<>>, v) >= 0
  BY EmptyIs DEF Surplus
<1> QED
  BY <1>1, EmptyIs DEF Matches

\* Times of f go that are too old for any of g.
LEMMA MatchesPopped ==
    ASSUME NEW f \in Seq(Int), NEW g \in Seq(Int), NEW v \in Nat, Matches(f, g, v),
           NEW t \in Int, After(g, t + MaxLate)
    PROVE  Matches(PopLeft(f, t), g, v)
<1> DEFINE n == Leading(f, t)
           p == PopLeft(f, t)
           s == Surplus(f, g, v)
<1>1. /\ n \in 0..Len(f) /\ Len(p) = Len(f) - n /\ Leads(n, f, t)
      /\ \A i \in 1..Len(p) : i + n \in 1..Len(f) /\ p[i] = f[i + n]
  BY PopLeftIs
<1>2. /\ Len(f) \in Nat /\ Len(g) \in Nat /\ MaxLate \in Nat
      /\ \A i \in 1..Len(f) : f[i] \in Int
      /\ \A i \in 1..Len(g) : g[i] \in Int
  BY LogIs, LateAssumption
<1>3. /\ s = Len(f) + v - Len(g) /\ s >= 0
      /\ \A i \in 1..Len(g) : i + s <= Len(f) => g[i] <= f[i + s] + MaxLate
  BY DEF Matches, Surplus
<1>4. Surplus(p, g, v) = Len(p) + v - Len(g)
  BY DEF Surplus
<1> HIDE DEF n, p, s
<1>5. n <= s
  <2> SUFFICES ASSUME ~(n <= s) PROVE FALSE
    OBVIOUS
  <2>1. n - s \in 1..Len(g) /\ (n - s) + s = n /\ n \in 1..n /\ n \in 1..Len(f) /\ n <= Len(f)
    BY <1>1, <1>2, <1>3
  <2>2. g[n - s] <= f[n] + MaxLate
    BY <1>3, <2>1
  <2>3. f[n] <= t
    BY <1>1, <2>1 DEF Leads
  <2>4. g[n - s] > t + MaxLate
    BY <2>1 DEF After
  <2>5. f[n] \in Int /\ g[n - s] \in Int
    BY <1>2, <2>1
  <2> QED
    BY <1>2, <2>2, <2>3, <2>4, <2>5
<1>6. Surplus(p, g, v) = s - n /\ s - n >= 0
  BY <1>1, <1>2, <1>3, <1>4, <1>5
<1>7. ASSUME NEW i \in 1..Len(g), i + (s - n) <= Len(p)
      PROVE  g[i] <= p[i + (s - n)] + MaxLate
  <2>1. /\ i + (s - n) \in 1..Len(p) /\ (i + (s - n)) + n = i + s /\ i + s <= Len(f)
    BY <1>1, <1>2, <1>3, <1>5, <1>7
  <2>2. p[i + (s - n)] = f[i + s]
    BY <1>1, <2>1
  <2> QED
    BY <1>3, <2>1, <2>2
<1> QED
  BY <1>6, <1>7 DEF Matches, p

\* The oldest times of g go.
LEMMA MatchesAged ==
    ASSUME NEW f \in Seq(Int), NEW g \in Seq(Int), NEW v \in Nat, Matches(f, g, v), NEW t \in Int
    PROVE  Matches(f, PopLeft(g, t), v)
<1> DEFINE n == Leading(g, t)
           p == PopLeft(g, t)
           s == Surplus(f, g, v)
<1>1. /\ n \in 0..Len(g) /\ Len(p) = Len(g) - n
      /\ \A i \in 1..Len(p) : i + n \in 1..Len(g) /\ p[i] = g[i + n]
  BY PopLeftIs
<1>2. /\ Len(f) \in Nat /\ Len(g) \in Nat
  BY LogIs
<1>3. /\ s = Len(f) + v - Len(g) /\ s >= 0
      /\ \A i \in 1..Len(g) : i + s <= Len(f) => g[i] <= f[i + s] + MaxLate
  BY DEF Matches, Surplus
<1>4. Surplus(f, p, v) = Len(f) + v - Len(p)
  BY DEF Surplus
<1> HIDE DEF n, p, s
<1>5. Surplus(f, p, v) = s + n /\ s + n >= 0
  BY <1>1, <1>2, <1>3, <1>4
<1>6. ASSUME NEW i \in 1..Len(p), i + (s + n) <= Len(f)
      PROVE  p[i] <= f[i + (s + n)] + MaxLate
  <2>1. (i + n) + s = i + (s + n)
    BY <1>1, <1>2, <1>3
  <2> QED
    BY <1>1, <1>3, <1>6, <2>1
<1> QED
  BY <1>5, <1>6 DEF Matches, p

\* One more time of g, which nothing matches yet.
LEMMA MatchesAsked ==
    ASSUME NEW f \in Seq(Int), NEW g \in Seq(Int), NEW v \in Nat, Matches(f, g, v), NEW x \in Int
    PROVE  Matches(f, Append(g, x), v + 1)
<1> DEFINE h == Append(g, x)
           s == Surplus(f, g, v)
<1>1. /\ Len(h) = Len(g) + 1
      /\ \A i \in 1..Len(g) : h[i] = g[i]
      /\ \A i \in 1..Len(g) + 1 : i \in 1..Len(g) \/ i = Len(g) + 1
  BY AppendIs
<1>2. /\ Len(f) \in Nat /\ Len(g) \in Nat
  BY LogIs
<1>3. /\ s = Len(f) + v - Len(g) /\ s >= 0
      /\ \A i \in 1..Len(g) : i + s <= Len(f) => g[i] <= f[i + s] + MaxLate
  BY DEF Matches, Surplus
<1>4. Surplus(f, h, v + 1) = Len(f) + (v + 1) - Len(h)
  BY DEF Surplus
<1> HIDE DEF h, s
<1>5. Surplus(f, h, v + 1) = s
  BY <1>1, <1>2, <1>3, <1>4
<1>6. ASSUME NEW i \in 1..Len(h), i + s <= Len(f) PROVE h[i] <= f[i + s] + MaxLate
  <2>1. i \in 1..Len(g)
    <3>1. ~(i = Len(g) + 1)
      BY <1>2, <1>3, <1>6
    <3> QED
      BY <1>1, <3>1
  <2> QED
    BY <1>1, <1>3, <1>6, <2>1
<1> QED
  BY <1>3, <1>5, <1>6 DEF Matches, h

\* One more time of f, no more than MaxLate before any of g.
LEMMA MatchesRecorded ==
    ASSUME NEW f \in Seq(Int), NEW g \in Seq(Int), NEW v \in Nat, Matches(f, g, v + 1),
           NEW x \in Int, UpTo(g, x + MaxLate)
    PROVE  Matches(Append(f, x), g, v)
<1> DEFINE h == Append(f, x)
           s == Surplus(f, g, v + 1)
<1>1. /\ Len(h) = Len(f) + 1 /\ h[Len(f) + 1] = x
      /\ \A i \in 1..Len(f) : h[i] = f[i]
      /\ \A i \in 1..Len(f) + 1 : i \in 1..Len(f) \/ i = Len(f) + 1
  BY AppendIs
<1>2. /\ Len(f) \in Nat /\ Len(g) \in Nat
  BY LogIs
<1>3. /\ s = Len(f) + (v + 1) - Len(g) /\ s >= 0
      /\ \A i \in 1..Len(g) : i + s <= Len(f) => g[i] <= f[i + s] + MaxLate
  BY DEF Matches, Surplus
<1>4. Surplus(h, g, v) = Len(h) + v - Len(g)
  BY DEF Surplus
<1> HIDE DEF h, s
<1>5. Surplus(h, g, v) = s
  BY <1>1, <1>2, <1>3, <1>4
<1>6. ASSUME NEW i \in 1..Len(g), i + s <= Len(h) PROVE g[i] <= h[i + s] + MaxLate
  <2>1. i + s \in 1..Len(f) + 1 /\ i + s \in Int
    BY <1>1, <1>2, <1>3, <1>6
  <2>2. CASE i + s \in 1..Len(f)
    <3>1. i + s <= Len(f)
      BY <1>2, <2>2
    <3> QED
      BY <1>1, <1>3, <2>2, <3>1
  <2>3. CASE i + s = Len(f) + 1
    BY <1>1, <2>3 DEF UpTo
  <2> QED
    BY <1>1, <2>1, <2>2, <2>3
<1> QED
  BY <1>3, <1>5, <1>6 DEF Matches, h

-----------------------------------------------------------------------------
(* The sliding windows *)

Times == 1..MaxClock
Sure == Span - MaxLate

\* A bucket with log e and expiry x at time c, and the admissions a of the last
\* Sure: the log still matches them all, and the bucket outlasts them.
Remembers(e, x, a, c) ==
    /\ Sorted(a) /\ UpTo(a, c) /\ After(a, c - Sure)
    /\ Matches(e, a, 0) /\ Len(a) <= Rate
    /\ IF x = 0 THEN e = <<>> ELSE UpTo(a, x - Sure)

WindowInv ==
    /\ WindowTypeOK
    /\ \A b \in Buckets : Remembers(events[b], expires[b], admitted[b], clock)
    /\ IsFiniteSet(Held(expires)) /\ Cardinality(Held(expires)) <= MaxBuckets

LEMMA SpanFacts ==
    /\ Span \in Nat /\ MaxLate \in Nat /\ Rate \in Nat /\ MaxClock \in Nat /\ MaxBuckets \in Nat
    /\ Sure \in Nat /\ Sure + MaxLate = Span
BY RateAssumption, TableAssumption, LateAssumption DEF Sure

LEMMA TimesLog ==
    ASSUME NEW log \in Seq(Times) PROVE log \in Seq(Int)
<1>1. Times \subseteq Int
  BY DEF Times
<1> QED
  BY <1>1, SeqMonotonic

\* The bucket's log is pruned by a reading of the clock.
LEMMA RemembersPruned ==
    ASSUME NEW e \in Seq(Int), NEW a \in Seq(Int), NEW x \in Int, NEW c \in Int,
           Remembers(e, x, a, c), NEW r \in Int, r <= c
    PROVE  Remembers(PopLeft(e, r - Span), x, a, c)
<1>1. r - Span \in Int /\ (r - Span) + MaxLate \in Int /\ c - Sure \in Int
      /\ (r - Span) + MaxLate <= c - Sure
  BY SpanFacts
<1>2. After(a, (r - Span) + MaxLate)
  BY <1>1, AfterEarlier DEF Remembers
<1>3. Matches(PopLeft(e, r - Span), a, 0)
  BY <1>1, <1>2, MatchesPopped DEF Remembers
<1>4. e = <<>> => PopLeft(e, r - Span) = <<>>
  BY <1>1, EmptyIs, PopLeftAll
<1> QED
  BY <1>3, <1>4 DEF Remembers

\* An expired bucket is dropped: none of the admissions is in its log.
LEMMA RemembersDropped ==
    ASSUME NEW e \in Seq(Int), NEW a \in Seq(Int), NEW x \in Int, NEW c \in Int,
           Remembers(e, x, a, c), x <= c
    PROVE  Remembers(<<>>, 0, a, c)
<1>1. CASE x = 0
  BY <1>1 DEF Remembers
<1>2. CASE x # 0
  <2>1. c - Sure \in Int /\ x - Sure \in Int /\ x - Sure <= c - Sure
    BY SpanFacts
  <2>2. UpTo(a, c - Sure)
    BY <1>2, <2>1, UpToLater DEF Remembers
  <2>3. a = <<>>
    BY <2>1, <2>2, NothingBetween DEF Remembers
  <2>4. Matches(<<>>, a, 0)
    BY <2>3, MatchesEmpty
  <2> QED
    BY <2>4 DEF Remembers
<1> QED
  BY <1>1, <1>2

\* One more admission, by a reading no more than MaxLate old.
LEMMA RemembersAdmitted ==
    ASSUME NEW e \in Seq(Int), NEW a \in Seq(Int), NEW x \in Int, NEW c \in Nat \ {0},
           Remembers(e, x, a, c), Len(e) < Rate, NEW r \in Nat, r <= c, c <= r + MaxLate
    PROVE  Remembers(Append(e, r), r + Span, Append(a, c), c)
<1>1. /\ c \in Int /\ r \in Int /\ c - Sure \in Int /\ c - Sure < c /\ r + MaxLate \in Int
      /\ (r + Span) - Sure = r + MaxLate /\ r + Span # 0
  <2>1. Sure > 0 /\ Span > 0
    BY RateAssumption, LateAssumption DEF Sure
  <2> QED
    BY <2>1, SpanFacts
<1>2. Append(a, c) \in Seq(Int) /\ Len(Append(a, c)) = Len(a) + 1
  BY AppendIs
<1>3. Sorted(Append(a, c))
  BY AppendSorted DEF Remembers
<1>4. UpTo(Append(a, c), c)
  BY AppendUpTo DEF Remembers
<1>5. After(Append(a, c), c - Sure)
  BY <1>1, AppendAfter DEF Remembers
<1>6. UpTo(Append(a, c), r + MaxLate)
  BY <1>1, <1>2, <1>4, UpToLater
<1>7. Matches(Append(e, r), Append(a, c), 0)
  <2>1. ASSUME NEW v \in Nat, Matches(e, a, v) PROVE Matches(Append(e, r), Append(a, c), v)
    <3>1. Matches(e, Append(a, c), v + 1)
      BY <2>1, MatchesAsked
    <3> QED
      BY <1>1, <1>2, <1>6, <3>1, MatchesRecorded
  <2> QED
    BY <2>1 DEF Remembers
<1>8. Len(Append(a, c)) <= Rate
  <2>1. Len(a) <= Len(e) + 0 /\ Len(a) \in Nat /\ Len(e) \in Nat
    BY MatchedCount, LogIs DEF Remembers
  <2> QED
    BY <1>2, <2>1, SpanFacts
<1> QED
  BY <1>1, <1>3, <1>4, <1>5, <1>6, <1>7, <1>8 DEF Remembers

\* The clock moves.
LEMMA RemembersLater ==
    ASSUME NEW e \in Seq(Int), NEW a \in Seq(Int), NEW x \in Int, NEW c \in Int,
           Remembers(e, x, a, c)
    PROVE  Remembers(e, x, PopLeft(a, (c + 1) - Sure), c + 1)
<1> DEFINE t == (c + 1) - Sure
           p == PopLeft(a, t)
<1>1. t \in Int /\ x - Sure \in Int /\ c + 1 \in Int /\ c <= c + 1
  BY SpanFacts
<1>2. /\ Sorted(p) /\ After(p, t) /\ p \in Seq(Int) /\ Len(p) <= Len(a)
      /\ \A u : UpTo(a, u) => UpTo(p, u)
  BY <1>1, PopLeftSorted, PopLeftOf DEF Remembers
<1>3. Matches(e, p, 0)
  BY <1>1, MatchesAged DEF Remembers
<1>4. UpTo(p, c + 1)
  BY <1>1, <1>2, UpToLater DEF Remembers
<1>5. Len(p) <= Rate
  <2>1. Len(p) \in Nat /\ Len(a) \in Nat /\ Len(a) <= Rate
    BY <1>2, LogIs DEF Remembers
  <2> QED
    BY <1>2, <2>1, SpanFacts
<1> QED
  BY <1>2, <1>3, <1>4, <1>5 DEF Remembers

LEMMA WindowFields ==
    ASSUME WindowTypeOK, NEW b \in Buckets
    PROVE  /\ clock \in Nat \ {0} /\ clock \in Times /\ expires[b] \in Nat
           /\ events[b] \in Seq(Times) /\ admitted[b] \in Seq(Times)
           /\ events[b] \in Seq(Int) /\ admitted[b] \in Seq(Int)
<1>1. clock \in Times /\ events[b] \in Seq(Times) /\ admitted[b] \in Seq(Times)
  BY DEF WindowTypeOK, Times
<1>2. expires[b] \in 0..MaxClock + Span
  BY DEF WindowTypeOK
<1> QED
  BY <1>1, <1>2, SpanFacts, TimesLog DEF Times

\* What eviction leaves of the table.
LEMMA EvictedIs ==
    ASSUME WindowTypeOK, NEW b \in Buckets, NEW r
    PROVE  /\ Evicted(b, r) \in [Buckets -> 0..MaxClock + Span] /\ Evicted(b, r)[b] = expires[b]
           /\ \A x \in Buckets : \/ Evicted(b, r)[x] = expires[x]
                                 \/ Evicted(b, r)[x] = 0 /\ expires[x] <= r
           /\ Held(Evicted(b, r)) \subseteq Held(expires)
<1>1. expires \in [Buckets -> 0..MaxClock + Span] /\ 0 \in 0..MaxClock + Span
  BY SpanFacts DEF WindowTypeOK
<1>2. \A x \in Buckets : Evicted(b, r)[x] = IF expires[b] = 0 /\ expires[x] <= r THEN 0 ELSE expires[x]
  BY DEF Evicted
<1>3. Evicted(b, r) \in [Buckets -> 0..MaxClock + Span]
  BY <1>1 DEF Evicted
<1>4. Evicted(b, r)[b] = expires[b]
  BY <1>2
<1>5. Held(Evicted(b, r)) \subseteq Held(expires)
  BY <1>2 DEF Held
<1> QED
  BY <1>2, <1>3, <1>4, <1>5

LEMMA ReadingIs ==
    ASSUME NEW c \in Nat, NEW r \in Readings(c)
    PROVE  r \in Nat \ {0} /\ r \in 1..c /\ r <= c /\ c <= r + MaxLate
BY LateAssumption DEF Readings

LEMMA ConsumeKeeps ==
    ASSUME WindowInv, NEW b \in Buckets, NEW r \in Readings(clock), Consume(b, r)
    PROVE  WindowInv'
<1> DEFINE table == Evicted(b, r)
           kept == [x \in Buckets |-> IF table[x] = 0 THEN <<>> ELSE events[x]]
           left == [kept EXCEPT ![b] = Inside(@, r)]
           full == expires[b] = 0 /\ Cardinality(Held(table)) >= MaxBuckets
           pruned == PopLeft(events[b], r - Span)
<1>1. /\ WindowTypeOK /\ IsFiniteSet(Held(expires)) /\ Cardinality(Held(expires)) <= MaxBuckets
      /\ \A x \in Buckets : Remembers(events[x], expires[x], admitted[x], clock)
  BY DEF WindowInv
<1>2. /\ clock \in Nat \ {0} /\ r \in Nat \ {0} /\ r <= clock /\ clock <= r + MaxLate /\ r \in Times
  <2>1. clock \in Nat \ {0} /\ clock \in Times
    BY <1>1, WindowFields
  <2>2. r \in 1..clock /\ r \in Nat \ {0} /\ r <= clock /\ clock <= r + MaxLate
    BY <2>1, ReadingIs
  <2> QED
    BY <2>1, <2>2, SpanFacts DEF Times
<1>3. /\ table \in [Buckets -> 0..MaxClock + Span] /\ table[b] = expires[b]
      /\ \A x \in Buckets : table[x] = expires[x] \/ (table[x] = 0 /\ expires[x] <= r)
      /\ Held(table) \subseteq Held(expires)
  BY <1>1, EvictedIs
<1>4. /\ events \in [Buckets -> Seq(Times)] /\ admitted \in [Buckets -> Seq(Times)]
      /\ clock \in Times
  BY <1>1 DEF WindowTypeOK, Times
<1>5. \A x \in Buckets : /\ events[x] \in Seq(Int) /\ admitted[x] \in Seq(Int) /\ expires[x] \in Nat
  BY <1>1, WindowFields
<1>6. /\ kept \in [Buckets -> Seq(Times)] /\ kept[b] = events[b]
      /\ \A x \in Buckets : kept[x] = IF table[x] = 0 THEN <<>> ELSE events[x]
  <2>1. expires[b] = 0 => events[b] = <<>>
    BY <1>1 DEF Remembers
  <2>2. <<>> \in Seq(Times)
    OBVIOUS
  <2> HIDE DEF table
  <2>3. kept \in [Buckets -> Seq(Times)]
    BY <1>4, <2>2
  <2> QED
    BY <1>3, <2>1, <2>3
<1>7. /\ left \in [Buckets -> Seq(Times)] /\ left[b] = pruned
      /\ pruned \in Seq(Times) /\ pruned \in Seq(Int)
      /\ \A x \in Buckets \ {b} : left[x] = kept[x]
  <2>1. r - Span \in Int /\ Times \subseteq Int
    BY <1>2, SpanFacts DEF Times
  <2>2. pruned \in Seq(Times)
    BY <1>4, <2>1, PopLeftTyped
  <2> HIDE DEF kept
  <2>3. Inside(kept[b], r) = pruned
    BY <1>6 DEF Inside
  <2> QED
    BY <1>6, <2>2, <2>3, TimesLog
<1>8. \/ /\ events' = left /\ expires' = table /\ UNCHANGED <<clock, admitted>>
      \/ /\ ~full /\ Len(left[b]) < Rate
         /\ events' = [left EXCEPT ![b] = Append(@, r)]
         /\ expires' = [table EXCEPT ![b] = r + Span]
         /\ admitted' = [admitted EXCEPT ![b] = Append(@, clock)]
         /\ UNCHANGED clock
  BY DEF Consume, ExpiryOf
<1> HIDE DEF table, kept, left, full, pruned
\* The others keep their entries or lose them.
<1>9. ASSUME NEW x \in Buckets \ {b}
      PROVE  Remembers(events'[x], expires'[x], admitted'[x], clock')
  <2>1. /\ events'[x] = kept[x] /\ expires'[x] = table[x]
        /\ admitted'[x] = admitted[x] /\ clock' = clock
    BY <1>3, <1>4, <1>7, <1>8
  <2>2. Remembers(events[x], expires[x], admitted[x], clock)
    BY <1>1
  <2>3. CASE table[x] = expires[x] /\ table[x] # 0
    BY <1>6, <2>1, <2>2, <2>3
  <2>4. CASE table[x] = 0
    <3>1. expires[x] <= clock
      BY <1>2, <1>3, <1>5, <2>4
    <3>2. Remembers(<<>>, 0, admitted[x], clock)
      BY <1>2, <1>5, <2>2, <3>1, RemembersDropped
    <3> QED
      BY <1>6, <2>1, <2>4, <3>2
  <2> QED
    BY <1>3, <2>3, <2>4
<1>10. Remembers(pruned, expires[b], admitted[b], clock)
  BY <1>1, <1>2, <1>5, RemembersPruned DEF pruned
<1>11. /\ IsFiniteSet(Held(table)) /\ Cardinality(Held(table)) \in Nat
       /\ Cardinality(Held(table)) <= MaxBuckets
  <2>1. IsFiniteSet(Held(table)) /\ Cardinality(Held(table)) <= Cardinality(Held(expires))
    BY <1>1, <1>3, FS_Subset
  <2>2. Cardinality(Held(table)) \in Nat /\ Cardinality(Held(expires)) \in Nat
    BY <1>1, <2>1, FS_CardinalityType
  <2> QED
    BY <1>1, <2>1, <2>2, SpanFacts
<1>12. CASE events' = left /\ expires' = table /\ UNCHANGED <<clock, admitted>>
  <2>1. Remembers(events'[b], expires'[b], admitted'[b], clock')
    BY <1>3, <1>7, <1>10, <1>12
  <2>2. WindowTypeOK'
    BY <1>1, <1>3, <1>4, <1>7, <1>12 DEF WindowTypeOK, Times
  <2> QED
    BY <1>9, <1>11, <1>12, <2>1, <2>2 DEF WindowInv
<1>13. CASE /\ ~full /\ Len(left[b]) < Rate
            /\ events' = [left EXCEPT ![b] = Append(@, r)]
            /\ expires' = [table EXCEPT ![b] = r + Span]
            /\ admitted' = [admitted EXCEPT ![b] = Append(@, clock)]
            /\ UNCHANGED clock
  <2>1. /\ events'[b] = Append(pruned, r) /\ expires'[b] = r + Span
        /\ admitted'[b] = Append(admitted[b], clock) /\ clock' = clock
    BY <1>3, <1>4, <1>7, <1>13
  <2>2. Remembers(Append(pruned, r), r + Span, Append(admitted[b], clock), clock)
    BY <1>2, <1>5, <1>7, <1>10, <1>13, RemembersAdmitted
  <2>3. r + Span \in 0..MaxClock + Span
    BY <1>2, SpanFacts DEF Times
  <2>4. Append(pruned, r) \in Seq(Times) /\ Append(admitted[b], clock) \in Seq(Times)
    <3>1. admitted[b] \in Seq(Times)
      BY <1>4
    <3> HIDE DEF Times
    <3> QED
      BY <1>2, <1>4, <1>7, <3>1
  <2>5. /\ events' \in [Buckets -> Seq(Times)] /\ admitted' \in [Buckets -> Seq(Times)]
        /\ expires' \in [Buckets -> 0..MaxClock + Span]
    BY <1>3, <1>4, <1>7, <1>13, <2>3, <2>4
  <2>6. WindowTypeOK'
    BY <1>4, <2>1, <2>5 DEF WindowTypeOK, Times
  <2>7. Held(expires') = Held(table) \cup {b}
    <3>1. r + Span # 0
      BY <1>2, SpanFacts
    <3> QED
      BY <1>3, <1>13, <3>1 DEF Held
  <2>8. /\ IsFiniteSet(Held(table) \cup {b})
        /\ Cardinality(Held(table) \cup {b}) =
               IF b \in Held(table) THEN Cardinality(Held(table)) ELSE Cardinality(Held(table)) + 1
    BY <1>11, FS_AddElement
  <2>9. b \notin Held(table) => ~(Cardinality(Held(table)) >= MaxBuckets)
    BY <1>3, <1>13 DEF Held, full
  <2>10. Cardinality(Held(table) \cup {b}) <= MaxBuckets
    BY <1>11, <2>8, <2>9, SpanFacts
  <2>11. Remembers(events'[b], expires'[b], admitted'[b], clock')
    BY <2>1, <2>2
  <2> QED
    BY <1>9, <2>6, <2>7, <2>8, <2>10, <2>11 DEF WindowInv
<1> QED
  BY <1>8, <1>12, <1>13

LEMMA WindowTickKeeps ==
    ASSUME WindowInv, WindowTick PROVE WindowInv'
<1>1. /\ WindowTypeOK /\ clock' = clock + 1 /\ clock < MaxClock /\ UNCHANGED <<events, expires>>
      /\ admitted' = [b \in Buckets |-> PopLeft(admitted[b], clock' - (Span - MaxLate))]
  BY DEF WindowInv, WindowTick
<1>2. clock \in Nat /\ clock' \in Times /\ clock' - (Span - MaxLate) \in Int /\ Times \subseteq Int
      /\ clock' - (Span - MaxLate) = (clock + 1) - Sure
  <2>1. clock \in 1..MaxClock
    BY <1>1 DEF WindowTypeOK
  <2> QED
    BY <1>1, <2>1, SpanFacts DEF Times, Sure
<1>3. ASSUME NEW b \in Buckets
      PROVE  /\ admitted'[b] = PopLeft(admitted[b], (clock + 1) - Sure)
             /\ PopLeft(admitted[b], clock' - (Span - MaxLate)) \in Seq(Times)
  <2>1. admitted[b] \in Seq(Times)
    BY <1>1, WindowFields
  <2>2. PopLeft(admitted[b], clock' - (Span - MaxLate)) \in Seq(Times)
    BY <1>2, <2>1, PopLeftTyped
  <2> QED
    BY <1>1, <1>2, <2>2
<1>4. WindowTypeOK'
  <2>1. admitted' \in [Buckets -> Seq(Times)]
    BY <1>1, <1>3
  <2> QED
    BY <1>1, <1>2, <2>1 DEF WindowTypeOK, Times
<1>5. ASSUME NEW b \in Buckets PROVE Remembers(events[b], expires[b], admitted'[b], clock + 1)
  <2>1. /\ Remembers(events[b], expires[b], admitted[b], clock)
        /\ events[b] \in Seq(Int) /\ admitted[b] \in Seq(Int)
        /\ expires[b] \in Nat /\ clock \in Nat
    BY <1>1, <1>2, WindowFields DEF WindowInv
  <2>2. Remembers(events[b], expires[b], PopLeft(admitted[b], (clock + 1) - Sure), clock + 1)
    BY <2>1, RemembersLater
  <2> QED
    BY <1>3, <2>2
<1> QED
  BY <1>1, <1>4, <1>5 DEF WindowInv

LEMMA WindowInvInit == WindowInit => WindowInv
<1> SUFFICES ASSUME WindowInit PROVE WindowInv
  OBVIOUS
<1>1. <<>> \in Seq(1..MaxClock) /\ 1 \in 1..MaxClock /\ 0 \in 0..MaxClock + Span
  BY RateAssumption, TableAssumption
<1>2. WindowTypeOK
  BY <1>1 DEF WindowInit, WindowTypeOK
<1>3. Remembers(<<>>, 0, <<>>, 1)
  <2>1. Matches(<<>>, <<>>, 0)
    BY MatchesEmpty
  <2> QED
    BY <2>1, EmptyIs, SpanFacts DEF Remembers
<1>4. \A b \in Buckets : Remembers(events[b], expires[b], admitted[b], clock)
  BY <1>3 DEF WindowInit
<1>5. Held(expires) = {}
  BY DEF WindowInit, Held
<1> QED
  BY <1>2, <1>4, <1>5, FS_EmptySet, SpanFacts DEF WindowInv

LEMMA WindowInvNext == WindowInv /\ [WindowNext]_windowVars => WindowInv'
<1> SUFFICES ASSUME WindowInv, [WindowNext]_windowVars PROVE WindowInv'
  OBVIOUS
<1>1. CASE WindowTick
  BY <1>1, WindowTickKeeps
<1>2. CASE \E b \in Buckets, r \in Readings(clock) : Consume(b, r)
  BY <1>2, ConsumeKeeps
<1>3. CASE UNCHANGED windowVars
  BY <1>3 DEF windowVars, WindowInv, WindowTypeOK
<1> QED
  BY <1>1, <1>2, <1>3 DEF WindowNext

LEMMA WindowInvariant == WindowSpec => []WindowInv
BY WindowInvInit, WindowInvNext, PTL DEF WindowSpec

LEMMA WindowInvEnough == WindowInv => WindowTypeOK /\ AdmissionsBounded
BY DEF WindowInv, Remembers, AdmissionsBounded

\* Within Span - MaxLate no bucket admits more than its rate, and the table never
\* grows past its bound, for every rate, span and size of the table, whatever
\* reading of the last MaxLate each call works with and whichever bucket is
\* dropped for room.
THEOREM AdmissionsStayBounded == WindowSpec => []AdmissionsBounded
BY WindowInvariant, WindowInvEnough, PTL

-----------------------------------------------------------------------------
(* Login failures: the slots *)

\* The requests in a slot, each as its key and its number among the key's.
Taken(v) == {x \in Keys \X (Nat \ {0}) : x[2] <= v[x[1]]}
Busy == Taken(verifying)

SlotsKept == /\ free \in Nat /\ verifying \in [Keys -> Nat]
             /\ IsFiniteSet(Busy) /\ Cardinality(Busy) + free = Slots

LEMMA SlotTaken ==
    ASSUME SlotsKept, NEW k \in Keys, free > 0, free' = free - 1,
           verifying' = [verifying EXCEPT ![k] = @ + 1]
    PROVE  SlotsKept'
<1>1. /\ verifying' \in [Keys -> Nat] /\ verifying'[k] = verifying[k] + 1
      /\ \A x \in Keys \ {k} : verifying'[x] = verifying[x]
  BY DEF SlotsKept
<1> DEFINE new == <<k, verifying[k] + 1>>
<1>2. verifying[k] \in Nat /\ \A x \in Keys : verifying[x] \in Nat
  BY DEF SlotsKept
<1>3. new \in Busy' /\ new \notin Busy
  BY <1>1, <1>2 DEF Busy, Taken
<1>4. ASSUME NEW x \in Keys \X (Nat \ {0}), x # new
      PROVE  x[2] <= verifying'[x[1]] <=> x[2] <= verifying[x[1]]
  <2>1. x[1] \in Keys /\ x[2] \in Nat \ {0} /\ x = <<x[1], x[2]>>
    OBVIOUS
  <2>2. CASE x[1] = k
    <3>1. x[2] # verifying[k] + 1
      BY <1>4, <2>1, <2>2
    <3> QED
      BY <1>1, <1>2, <2>1, <2>2, <3>1
  <2>3. CASE x[1] # k
    BY <1>1, <2>1, <2>3
  <2> QED
    BY <2>2, <2>3
<1>5. Busy' = Busy \cup {new}
  <2>1. \A x \in Busy' : x \in Busy \cup {new}
    BY <1>4 DEF Busy, Taken
  <2>2. \A x \in Busy : x \in Busy'
    BY <1>3, <1>4 DEF Busy, Taken
  <2> QED
    BY <1>3, <2>1, <2>2
<1> HIDE DEF new
<1>6. IsFiniteSet(Busy \cup {new}) /\ Cardinality(Busy \cup {new}) = Cardinality(Busy) + 1
  BY <1>3, FS_AddElement DEF SlotsKept
<1>7. Cardinality(Busy) \in Nat
  BY FS_CardinalityType DEF SlotsKept
<1>8. free' \in Nat /\ Cardinality(Busy') + free' = Slots
  BY <1>5, <1>6, <1>7, SlotsAssumption DEF SlotsKept
<1> QED
  BY <1>1, <1>5, <1>6, <1>8 DEF SlotsKept

LEMMA SlotReturned ==
    ASSUME SlotsKept, NEW k \in Keys, Answered(k) PROVE SlotsKept'
<1>1. /\ verifying[k] > 0 /\ free' = free + 1
      /\ verifying' = [verifying EXCEPT ![k] = @ - 1]
  BY DEF Answered
<1>2. verifying[k] \in Nat /\ \A x \in Keys : verifying[x] \in Nat
  BY DEF SlotsKept
<1>3. /\ verifying' \in [Keys -> Nat] /\ verifying'[k] = verifying[k] - 1
      /\ \A x \in Keys \ {k} : verifying'[x] = verifying[x]
  BY <1>1, <1>2 DEF SlotsKept
<1> DEFINE old == <<k, verifying[k]>>
<1>4. old \in Busy /\ old \notin Busy'
  BY <1>1, <1>2, <1>3 DEF Busy, Taken
<1>5. ASSUME NEW x \in Keys \X (Nat \ {0}), x # old
      PROVE  x[2] <= verifying'[x[1]] <=> x[2] <= verifying[x[1]]
  <2>1. x[1] \in Keys /\ x[2] \in Nat \ {0} /\ x = <<x[1], x[2]>>
    OBVIOUS
  <2>2. CASE x[1] = k
    <3>1. x[2] # verifying[k]
      BY <1>5, <2>1, <2>2
    <3> QED
      BY <1>2, <1>3, <2>1, <2>2, <3>1
  <2>3. CASE x[1] # k
    BY <1>3, <2>1, <2>3
  <2> QED
    BY <2>2, <2>3
<1>6. Busy' = Busy \ {old}
  <2>1. \A x \in Busy' : x \in Busy \ {old}
    BY <1>4, <1>5 DEF Busy, Taken
  <2>2. \A x \in Busy \ {old} : x \in Busy'
    BY <1>5 DEF Busy, Taken
  <2> QED
    BY <2>1, <2>2
<1> HIDE DEF old
<1>7. IsFiniteSet(Busy \ {old}) /\ Cardinality(Busy \ {old}) = Cardinality(Busy) - 1
  BY <1>4, FS_RemoveElement DEF SlotsKept
<1>8. Cardinality(Busy) \in Nat
  BY FS_CardinalityType DEF SlotsKept
<1>9. free' \in Nat /\ Cardinality(Busy') + free' = Slots
  BY <1>1, <1>6, <1>7, <1>8, SlotsAssumption DEF SlotsKept
<1> QED
  BY <1>3, <1>6, <1>7, <1>9 DEF SlotsKept

\* No key has more requests in slots than there are slots.
LEMMA TakenBound ==
    ASSUME NEW f \in Nat, NEW v \in [Keys -> Nat], NEW k \in Keys,
           IsFiniteSet(Taken(v)), Cardinality(Taken(v)) + f = Slots
    PROVE  v[k] \in 0..Slots
<1> DEFINE n == v[k]
           own == {k} \X (1..n)
<1>1. n \in Nat
  OBVIOUS
<1>2. own \subseteq Taken(v)
  BY <1>1 DEF Taken
<1>3. IsFiniteSet(1..n) /\ Cardinality(1..n) = n
  BY <1>1, FS_Interval
<1>4. IsFiniteSet({k}) /\ Cardinality({k}) = 1
  BY FS_Singleton
<1>5. Cardinality(own) = 1 * n
  <2>1. Cardinality({k} \X (1..n)) = Cardinality({k}) * Cardinality(1..n)
    BY <1>3, <1>4, FS_Product
  <2> QED
    BY <1>3, <1>4, <2>1
<1>6. Cardinality(own) <= Cardinality(Taken(v))
  BY <1>2, FS_Subset
<1>7. Cardinality(Taken(v)) \in Nat
  BY FS_CardinalityType
<1> QED
  BY <1>1, <1>5, <1>6, <1>7, SlotsAssumption

LEMMA SlotsFree == SlotsKept => free \in 0..Slots
<1> SUFFICES ASSUME SlotsKept PROVE free \in 0..Slots
  OBVIOUS
<1>1. Cardinality(Busy) \in Nat
  BY FS_CardinalityType DEF SlotsKept
<1> QED
  BY <1>1, SlotsAssumption DEF SlotsKept

-----------------------------------------------------------------------------
(* Login failures: what is remembered of a key *)

Moments == 1..MaxNow
Certain == Window - MaxLate

LoginTypes ==
    /\ now \in Moments
    /\ failures \in [Keys -> Seq(Moments)] /\ guesses \in [Keys -> Seq(Moments)]
    /\ blockedUntil \in [Keys -> 0..MaxNow + Cooldown]
    /\ SlotsKept /\ dropped \subseteq Keys

\* A key with failures f, cooldown u and v logins being verified at time n, and
\* its guesses g of the last Certain.  Outside a cooldown every guess is a
\* failure on record, read no more than MaxLate before it or later, or is being
\* verified, the youngest ones; a cooldown outlasts all of them.
Consistent(f, g, u, v, n) ==
    /\ Sorted(g) /\ UpTo(g, n) /\ After(g, n - Certain) /\ UpTo(f, n)
    /\ Len(g) <= Threshold - 1 + Slots
    /\ IF u = 0 THEN Len(f) < Threshold /\ Matches(f, g, v)
                ELSE UpTo(g, u - Window) /\ UpTo(f, u - Window)

KeyInv(k) ==
    k \notin dropped => Consistent(failures[k], guesses[k], blockedUntil[k], verifying[k], now)

LoginInv == LoginTypes /\ \A k \in Keys : KeyInv(k)

LEMMA WindowFacts ==
    /\ Window \in Nat /\ MaxLate \in Nat /\ Cooldown \in Nat /\ MaxNow \in Nat \ {0}
    /\ Threshold \in Nat \ {0} /\ Slots \in Nat \ {0}
    /\ Certain \in Nat \ {0} /\ Certain + MaxLate = Window /\ Window + MaxLate <= Cooldown
BY SlotsAssumption, WindowAssumption, LateAssumption DEF Certain

LEMMA MomentsLog ==
    ASSUME NEW log \in Seq(Moments) PROVE log \in Seq(Int)
<1>1. Moments \subseteq Int
  BY DEF Moments
<1> QED
  BY <1>1, SeqMonotonic

LEMMA LoginFields ==
    ASSUME LoginTypes, NEW k \in Keys
    PROVE  /\ now \in Nat \ {0} /\ now \in Moments /\ blockedUntil[k] \in Nat
           /\ failures[k] \in Seq(Moments) /\ guesses[k] \in Seq(Moments)
           /\ failures[k] \in Seq(Int) /\ guesses[k] \in Seq(Int)
           /\ verifying[k] \in Nat /\ verifying[k] \in 0..Slots
<1>1. /\ now \in Moments /\ failures[k] \in Seq(Moments) /\ guesses[k] \in Seq(Moments)
      /\ blockedUntil[k] \in 0..MaxNow + Cooldown /\ SlotsKept
  BY DEF LoginTypes
<1>2. blockedUntil[k] \in Nat /\ now \in Nat \ {0}
  BY <1>1, WindowFacts DEF Moments
<1>3. failures[k] \in Seq(Int) /\ guesses[k] \in Seq(Int)
  BY <1>1, MomentsLog
<1>4. verifying[k] \in Nat /\ verifying[k] \in 0..Slots
  BY <1>1, TakenBound DEF SlotsKept, Busy
<1> QED
  BY <1>1, <1>2, <1>3, <1>4

\* The table is pruned by a reading of the clock.
LEMMA ConsistentPruned ==
    ASSUME NEW f \in Seq(Int), NEW g \in Seq(Int), NEW u \in Nat, NEW v \in Nat, NEW n \in Nat,
           Consistent(f, g, u, v, n), NEW t \in Nat, t <= n
    PROVE  Consistent(PopLeft(f, t - Window), g, IF u <= t THEN 0 ELSE u, v, n)
<1> DEFINE p == PopLeft(f, t - Window)
<1>1. /\ t - Window \in Int /\ (t - Window) + MaxLate \in Int /\ n - Certain \in Int
      /\ (t - Window) + MaxLate <= n - Certain /\ t - Window <= n - Certain /\ 0 <= t
      /\ u - Window \in Int /\ (u <= t => u - Window <= t - Window /\ u - Window <= n - Certain)
  BY WindowFacts
<1>2. p \in Seq(Int) /\ Len(p) <= Len(f) /\ (\A w : UpTo(f, w) => UpTo(p, w))
  BY <1>1, PopLeftOf
<1>3. Sorted(g) /\ UpTo(g, n) /\ After(g, n - Certain) /\ UpTo(f, n) /\ UpTo(p, n)
      /\ Len(g) <= Threshold - 1 + Slots
  BY <1>2 DEF Consistent
<1>4. CASE u = 0
  <2>1. Len(f) < Threshold /\ Matches(f, g, v)
    BY <1>4 DEF Consistent
  <2>2. Matches(p, g, v)
    <3>1. After(g, (t - Window) + MaxLate)
      BY <1>1, <1>3, AfterEarlier
    <3> QED
      BY <1>1, <2>1, <3>1, MatchesPopped
  <2>3. Len(p) < Threshold
    <3>1. Len(p) \in Nat /\ Len(f) \in Nat
      BY <1>2, LogIs
    <3> QED
      BY <1>2, <2>1, <3>1, WindowFacts
  <2> QED
    BY <1>1, <1>3, <1>4, <2>2, <2>3 DEF Consistent
<1>5. CASE u # 0 /\ u <= t
  <2>1. UpTo(g, u - Window) /\ UpTo(f, u - Window)
    BY <1>5 DEF Consistent
  <2>2. g = <<>>
    <3>1. UpTo(g, n - Certain)
      BY <1>1, <1>5, <2>1, UpToLater
    <3> QED
      BY <1>1, <1>3, <3>1, NothingBetween
  <2>3. p = <<>>
    <3>1. UpTo(f, t - Window)
      BY <1>1, <1>5, <2>1, UpToLater
    <3> QED
      BY <1>1, <3>1, PopLeftAll
  <2>4. Matches(<<>>, <<>>, v)
    BY MatchesEmpty
  <2>5. Len(p) < Threshold
    BY <2>3, EmptyIs, WindowFacts
  <2> QED
    BY <1>3, <1>5, <2>2, <2>3, <2>4, <2>5 DEF Consistent
<1>6. CASE u # 0 /\ ~(u <= t)
  <2>1. UpTo(g, u - Window) /\ UpTo(f, u - Window)
    BY <1>6 DEF Consistent
  <2>2. UpTo(p, u - Window)
    BY <1>2, <2>1
  <2> QED
    BY <1>3, <1>6, <2>1, <2>2 DEF Consistent
<1> QED
  BY <1>4, <1>5, <1>6

\* One more attempt is admitted.
LEMMA ConsistentAsked ==
    ASSUME NEW f \in Seq(Int), NEW g \in Seq(Int), NEW v \in Nat, NEW n \in Nat,
           Consistent(f, g, 0, v, n), v + 1 <= Slots
    PROVE  Consistent(f, Append(g, n), 0, v + 1, n)
<1>1. n \in Int /\ n - Certain \in Int /\ n > n - Certain /\ n <= n
  BY WindowFacts
<1>2. Append(g, n) \in Seq(Int)
  BY <1>1, AppendIs
<1>3. Sorted(Append(g, n)) /\ UpTo(Append(g, n), n) /\ After(Append(g, n), n - Certain)
  BY <1>1, AppendSorted, AppendUpTo, AppendAfter DEF Consistent
<1>4. Len(f) < Threshold /\ Matches(f, g, v) /\ UpTo(f, n)
  BY DEF Consistent
<1>5. Matches(f, Append(g, n), v + 1)
  BY <1>1, <1>4, MatchesAsked
<1>6. Len(Append(g, n)) <= Threshold - 1 + Slots
  <2>1. Len(Append(g, n)) \in Nat /\ Len(f) \in Nat /\ v + 1 \in Nat
    BY <1>2, LogIs
  <2>2. Len(Append(g, n)) <= Len(f) + (v + 1)
    BY <1>2, <1>5, <2>1, MatchedCount
  <2> QED
    BY <1>4, <2>1, <2>2, WindowFacts
<1> QED
  BY <1>3, <1>4, <1>5, <1>6 DEF Consistent

\* A failure is recorded, by a reading no more than MaxLate old.
LEMMA ConsistentRecorded ==
    ASSUME NEW f \in Seq(Int), NEW g \in Seq(Int), NEW v \in Nat, NEW n \in Nat,
           Consistent(f, g, 0, v + 1, n), NEW t \in Nat \ {0}, t <= n, n <= t + MaxLate
    PROVE  Consistent(Append(f, t), g,
                      IF Len(Append(f, t)) >= Threshold THEN t + Cooldown ELSE 0, v, n)
<1> DEFINE h == Append(f, t)
<1>1. /\ t \in Int /\ n \in Int /\ t + MaxLate \in Int /\ t + Cooldown # 0
      /\ (t + Cooldown) - Window \in Int /\ n <= (t + Cooldown) - Window
  BY WindowFacts
<1>2. h \in Seq(Int)
  BY <1>1, AppendIs
<1>3. Sorted(g) /\ UpTo(g, n) /\ After(g, n - Certain) /\ UpTo(f, n)
      /\ Len(g) <= Threshold - 1 + Slots /\ Matches(f, g, v + 1)
  BY DEF Consistent
<1>4. UpTo(h, n)
  BY <1>1, <1>3, AppendUpTo
<1>5. UpTo(g, t + MaxLate) /\ UpTo(g, (t + Cooldown) - Window) /\ UpTo(h, (t + Cooldown) - Window)
  BY <1>1, <1>2, <1>3, <1>4, UpToLater
<1>6. Matches(h, g, v)
  BY <1>1, <1>3, <1>5, MatchesRecorded
<1>7. CASE Len(h) >= Threshold
  BY <1>1, <1>3, <1>4, <1>5, <1>7 DEF Consistent
<1>8. CASE ~(Len(h) >= Threshold)
  <2>1. Len(h) < Threshold
    BY <1>2, <1>8, LogIs, WindowFacts
  <2> QED
    BY <1>3, <1>4, <1>6, <1>8, <2>1 DEF Consistent
<1> QED
  BY <1>7, <1>8

\* The right password: the attempts still being verified are all that counts.
LEMMA ConsistentCleared ==
    ASSUME NEW g \in Seq(Int), NEW v \in 0..Slots, Len(g) = v, NEW n \in Nat,
           \A i \in 1..Len(g) : g[i] = n
    PROVE  Consistent(<<>>, g, 0, v, n)
<1>1. n - Certain \in Int /\ n > n - Certain /\ v \in Nat
  BY WindowFacts
<1>2. Sorted(g) /\ UpTo(g, n) /\ After(g, n - Certain)
  BY <1>1 DEF Sorted, UpTo, After
<1>3. Matches(<<>>, g, v)
  BY <1>1, MatchesNone
<1>4. Len(<<>>) < Threshold /\ Len(g) <= Threshold - 1 + Slots
  BY EmptyIs, WindowFacts
<1> QED
  BY <1>2, <1>3, <1>4, EmptyIs DEF Consistent

\* The clock moves.
LEMMA ConsistentLater ==
    ASSUME NEW f \in Seq(Int), NEW g \in Seq(Int), NEW u \in Nat, NEW v \in Nat, NEW n \in Nat,
           Consistent(f, g, u, v, n)
    PROVE  Consistent(f, PopLeft(g, (n + 1) - Certain), u, v, n + 1)
<1> DEFINE t == (n + 1) - Certain
           p == PopLeft(g, t)
<1>1. t \in Int /\ n \in Int /\ n + 1 \in Int /\ n <= n + 1
  BY WindowFacts
<1>2. /\ Sorted(p) /\ After(p, t) /\ p \in Seq(Int) /\ Len(p) <= Len(g)
      /\ \A w : UpTo(g, w) => UpTo(p, w)
  BY <1>1, PopLeftSorted, PopLeftOf DEF Consistent
<1>3. UpTo(p, n + 1) /\ UpTo(f, n + 1)
  BY <1>1, <1>2, UpToLater DEF Consistent
<1>4. Len(p) <= Threshold - 1 + Slots
  <2>1. Len(p) \in Nat /\ Len(g) \in Nat /\ Len(g) <= Threshold - 1 + Slots
    BY <1>2, LogIs DEF Consistent
  <2> QED
    BY <1>2, <2>1, WindowFacts
<1>5. CASE u = 0
  <2>1. Len(f) < Threshold /\ Matches(f, g, v)
    BY <1>5 DEF Consistent
  <2>2. Matches(f, p, v)
    BY <1>1, <2>1, MatchesAged
  <2> QED
    BY <1>2, <1>3, <1>4, <1>5, <2>1, <2>2 DEF Consistent
<1>6. CASE u # 0
  <2>1. UpTo(g, u - Window) /\ UpTo(f, u - Window)
    BY <1>6 DEF Consistent
  <2> QED
    BY <1>2, <1>3, <1>4, <1>6, <2>1 DEF Consistent
<1> QED
  BY <1>5, <1>6

-----------------------------------------------------------------------------
(* Login failures: the steps *)

\* What pruning by a reading leaves of the table.
LEMMA TablePruned ==
    ASSUME LoginInv, NEW t \in Readings(now)
    PROVE  /\ t \in Nat \ {0} /\ t \in Moments /\ t <= now /\ now <= t + MaxLate
           /\ Kept(t) \in [Keys -> Seq(Moments)]
           /\ Standing(t) \in [Keys -> 0..MaxNow + Cooldown]
           /\ \A x \in Keys : /\ Kept(t)[x] \in Seq(Moments) /\ Kept(t)[x] \in Seq(Int)
                              /\ Standing(t)[x] \in Nat
           /\ \A x \in Keys \ dropped :
                 Consistent(Kept(t)[x], guesses[x], Standing(t)[x], verifying[x], now)
<1>1. LoginTypes /\ now \in Moments /\ now \in Nat
  BY DEF LoginInv, LoginTypes, Moments
<1>2. t \in Nat \ {0} /\ t \in Moments /\ t <= now /\ now <= t + MaxLate /\ t - Window \in Int
  <2>1. t \in Nat \ {0} /\ t \in 1..now /\ t <= now /\ now <= t + MaxLate
    BY <1>1, ReadingIs
  <2> QED
    BY <1>1, <2>1, WindowFacts DEF Moments
<1>3. ASSUME NEW x \in Keys
      PROVE  /\ Kept(t)[x] = PopLeft(failures[x], t - Window)
             /\ Kept(t)[x] \in Seq(Moments) /\ Kept(t)[x] \in Seq(Int)
             /\ Standing(t)[x] = IF blockedUntil[x] <= t THEN 0 ELSE blockedUntil[x]
             /\ Standing(t)[x] \in Nat /\ Standing(t)[x] \in 0..MaxNow + Cooldown
  <2>1. failures[x] \in Seq(Moments) /\ blockedUntil[x] \in 0..MaxNow + Cooldown
    BY <1>1 DEF LoginTypes
  <2>2. Moments \subseteq Int
    BY DEF Moments
  <2>3. PopLeft(failures[x], t - Window) \in Seq(Moments)
    BY <1>2, <2>1, <2>2, PopLeftTyped
  <2>4. Kept(t)[x] = PopLeft(failures[x], t - Window)
    BY DEF Kept
  <2>5. Kept(t)[x] \in Seq(Moments) /\ Kept(t)[x] \in Seq(Int)
    BY <2>3, <2>4, MomentsLog
  <2>6. Standing(t)[x] = IF blockedUntil[x] <= t THEN 0 ELSE blockedUntil[x]
    BY DEF Standing
  <2>7. Standing(t)[x] \in Nat /\ Standing(t)[x] \in 0..MaxNow + Cooldown
    BY <2>1, <2>6, WindowFacts
  <2> QED
    BY <2>4, <2>5, <2>6, <2>7
<1>4. Kept(t) \in [Keys -> Seq(Moments)]
  <2>1. Kept(t) = [x \in Keys |-> Kept(t)[x]]
    BY DEF Kept
  <2> QED
    BY <1>3, <2>1, ZenonT(40)
<1>5. Standing(t) \in [Keys -> 0..MaxNow + Cooldown]
  <2>1. Standing(t) = [x \in Keys |-> Standing(t)[x]]
    BY DEF Standing
  <2> QED
    BY <1>3, <2>1, ZenonT(40)
<1>6. ASSUME NEW x \in Keys \ dropped
      PROVE  Consistent(Kept(t)[x], guesses[x], Standing(t)[x], verifying[x], now)
  <2>1. /\ failures[x] \in Seq(Int) /\ guesses[x] \in Seq(Int)
        /\ blockedUntil[x] \in Nat /\ verifying[x] \in Nat
    BY <1>1, LoginFields
  <2>2. Consistent(failures[x], guesses[x], blockedUntil[x], verifying[x], now)
    BY DEF LoginInv, KeyInv
  <2>3. Consistent(PopLeft(failures[x], t - Window), guesses[x],
                   IF blockedUntil[x] <= t THEN 0 ELSE blockedUntil[x], verifying[x], now)
    BY <1>1, <1>2, <2>1, <2>2, ConsistentPruned
  <2> QED
    BY <1>3, <2>3
<1> QED
  BY <1>2, <1>3, <1>4, <1>5, <1>6

\* The keys nothing but pruning happens to.
LEMMA OthersPruned ==
    ASSUME LoginInv, NEW t \in Readings(now), NEW others \in SUBSET Keys, now' = now,
           dropped \subseteq dropped',
           \A x \in others : /\ failures'[x] = Kept(t)[x] /\ blockedUntil'[x] = Standing(t)[x]
                             /\ guesses'[x] = guesses[x] /\ verifying'[x] = verifying[x]
    PROVE  \A x \in others : KeyInv(x)'
<1> SUFFICES ASSUME NEW x \in others, x \notin dropped'
             PROVE  Consistent(failures[x], guesses[x], blockedUntil[x], verifying[x], now)'
  BY DEF KeyInv
<1>1. Consistent(Kept(t)[x], guesses[x], Standing(t)[x], verifying[x], now)
  <2>1. x \in Keys \ dropped
    OBVIOUS
  <2> QED
    BY <2>1, TablePruned
<1> QED
  BY <1>1

LEMMA AskKeeps ==
    ASSUME LoginInv, NEW k \in Keys, NEW t \in Readings(now), Ask(k, t) PROVE LoginInv'
<1>1. /\ LoginTypes /\ SlotsKept /\ free > 0
      /\ failures' = Kept(t) /\ blockedUntil' = Standing(t) /\ UNCHANGED <<now, dropped>>
  BY DEF LoginInv, LoginTypes, Ask
<1>2. /\ Kept(t) \in [Keys -> Seq(Moments)] /\ Standing(t) \in [Keys -> 0..MaxNow + Cooldown]
      /\ Kept(t)[k] \in Seq(Int)
      /\ k \notin dropped => Consistent(Kept(t)[k], guesses[k], Standing(t)[k], verifying[k], now)
  BY TablePruned
<1>3. CASE UNCHANGED <<free, verifying, guesses>>
  <2>1. LoginTypes'
    BY <1>1, <1>2, <1>3 DEF LoginTypes, SlotsKept, Busy
  <2>2. \A x \in Keys : KeyInv(x)'
    BY <1>1, <1>3, OthersPruned
  <2> QED
    BY <2>1, <2>2 DEF LoginInv
<1>4. CASE /\ Standing(t)[k] = 0
           /\ free' = free - 1
           /\ verifying' = [verifying EXCEPT ![k] = @ + 1]
           /\ guesses' = IF k \in dropped THEN guesses ELSE [guesses EXCEPT ![k] = Append(@, now)]
  <2>1. SlotsKept'
    BY <1>1, <1>4, SlotTaken
  <2>2. /\ verifying[k] \in Nat /\ guesses[k] \in Seq(Moments) /\ guesses[k] \in Seq(Int)
        /\ now \in Moments /\ now \in Nat
    BY <1>1, LoginFields
  <2>3. /\ verifying'[k] = verifying[k] + 1
        /\ \A x \in Keys \ {k} : verifying'[x] = verifying[x]
    BY <1>1, <1>4 DEF SlotsKept
  <2>4. verifying[k] + 1 <= Slots
    <3>1. verifying'[k] \in 0..Slots
      BY <2>1, TakenBound DEF SlotsKept, Busy
    <3> QED
      BY <2>2, <2>3, <3>1, WindowFacts
  <2>5. Append(guesses[k], now) \in Seq(Moments)
    BY <2>2
  <2>6. guesses \in [Keys -> Seq(Moments)]
    BY <1>1 DEF LoginTypes
  <2>7. guesses' \in [Keys -> Seq(Moments)]
    BY <1>4, <2>5, <2>6
  <2>8. LoginTypes'
    BY <1>1, <1>2, <2>1, <2>7 DEF LoginTypes
  <2>9. \A x \in Keys \ {k} : guesses'[x] = guesses[x]
    BY <1>4, <2>6
  <2>10. \A x \in Keys \ {k} : KeyInv(x)'
    BY <1>1, <2>3, <2>9, OthersPruned
  <2>11. KeyInv(k)'
    <3> SUFFICES ASSUME k \notin dropped
                 PROVE  Consistent(failures'[k], guesses'[k], blockedUntil'[k], verifying'[k], now')
      BY <1>1 DEF KeyInv
    <3>1. guesses'[k] = Append(guesses[k], now)
      BY <1>4, <2>6
    <3>2. Consistent(Kept(t)[k], guesses[k], 0, verifying[k], now)
      BY <1>2, <1>4
    <3>3. Consistent(Kept(t)[k], Append(guesses[k], now), 0, verifying[k] + 1, now)
      BY <1>2, <2>2, <2>4, <3>2, ConsistentAsked
    <3> QED
      BY <1>1, <1>4, <2>3, <3>1, <3>3
  <2> QED
    BY <2>8, <2>10, <2>11 DEF LoginInv
<1> QED
  BY <1>3, <1>4 DEF Ask

\* A cooldown outlasts whatever is known of the key, and counts no answers.
LEMMA ConsistentBlocked ==
    ASSUME NEW f, NEW g, NEW u, NEW v, NEW n, u # 0, Consistent(f, g, u, v, n), NEW w
    PROVE  Consistent(f, g, u, w, n)
BY DEF Consistent

LEMMA FailKeeps ==
    ASSUME LoginInv, NEW k \in Keys, NEW t \in Readings(now), Fail(k, t) PROVE LoginInv'
<1>1. /\ LoginTypes /\ SlotsKept /\ Answered(k) /\ now' = now
  BY DEF LoginInv, LoginTypes, Fail
<1>2. SlotsKept'
  BY <1>1, SlotReturned
<1>3. /\ Kept(t) \in [Keys -> Seq(Moments)] /\ Standing(t) \in [Keys -> 0..MaxNow + Cooldown]
      /\ Kept(t)[k] \in Seq(Int) /\ Kept(t)[k] \in Seq(Moments)
      /\ t \in Nat \ {0} /\ t \in Moments /\ t <= now /\ now <= t + MaxLate
      /\ k \notin dropped => Consistent(Kept(t)[k], guesses[k], Standing(t)[k], verifying[k], now)
  BY TablePruned
<1>4. /\ verifying[k] \in Nat /\ verifying[k] > 0 /\ verifying'[k] = verifying[k] - 1
      /\ \A x \in Keys \ {k} : verifying'[x] = verifying[x]
  BY <1>1 DEF SlotsKept, Answered
<1>5. guesses \in [Keys -> Seq(Moments)] /\ guesses[k] \in Seq(Int) /\ now \in Nat
  BY <1>1, LoginFields DEF LoginTypes
\* The failure is recorded.
<1>6. CASE /\ Standing(t)[k] = 0
           /\ failures' = [Kept(t) EXCEPT ![k] = Append(@, t)]
           /\ blockedUntil' = CooldownAfter(k, t)
           /\ UNCHANGED <<guesses, dropped>>
  <2> DEFINE h == Append(Kept(t)[k], t)
             until == IF Len(h) >= Threshold THEN t + Cooldown ELSE 0
  <2>1. failures'[k] = h /\ \A x \in Keys \ {k} : failures'[x] = Kept(t)[x]
    BY <1>3, <1>6
  <2>2. h \in Seq(Moments)
    BY <1>3
  <2>3. t + Cooldown \in 0..MaxNow + Cooldown
    BY <1>3, WindowFacts DEF Moments
  <2> HIDE DEF h
  <2>4. /\ blockedUntil' \in [Keys -> 0..MaxNow + Cooldown] /\ blockedUntil'[k] = until
        /\ \A x \in Keys \ {k} : blockedUntil'[x] = Standing(t)[x]
    <3>1. blockedUntil' = IF Len(h) >= Threshold THEN [Standing(t) EXCEPT ![k] = t + Cooldown]
                                                 ELSE Standing(t)
      BY <1>6, <2>1 DEF CooldownAfter
    <3> QED
      BY <1>3, <1>6, <2>3, <3>1
  <2>5. failures' \in [Keys -> Seq(Moments)]
    BY <1>3, <1>6, <2>2 DEF h
  <2>6. LoginTypes'
    BY <1>1, <1>2, <1>6, <2>4, <2>5 DEF LoginTypes
  <2>7. \A x \in Keys \ {k} : KeyInv(x)'
    BY <1>1, <1>4, <1>6, <2>1, <2>4, OthersPruned
  <2>8. KeyInv(k)'
    <3> SUFFICES ASSUME k \notin dropped
                 PROVE  Consistent(failures'[k], guesses'[k], blockedUntil'[k], verifying'[k], now')
      BY <1>6 DEF KeyInv
    <3>1. Consistent(Kept(t)[k], guesses[k], 0, verifying[k], now)
      BY <1>3, <1>6
    <3>2. verifying'[k] \in Nat /\ verifying[k] = verifying'[k] + 1
      BY <1>4
    <3>3. Consistent(Kept(t)[k], guesses[k], 0, verifying'[k] + 1, now)
      BY <3>1, <3>2
    <3>4. Consistent(h, guesses[k], until, verifying'[k], now)
      BY <1>3, <1>5, <3>2, <3>3, ConsistentRecorded DEF h
    <3> QED
      BY <1>1, <1>6, <2>1, <2>4, <3>4
  <2> QED
    BY <2>6, <2>7, <2>8 DEF LoginInv
\* The cooldown has begun meanwhile.
<1>7. CASE /\ Standing(t)[k] # 0 /\ failures' = Kept(t) /\ blockedUntil' = Standing(t)
           /\ UNCHANGED <<guesses, dropped>>
  <2>1. LoginTypes'
    BY <1>1, <1>2, <1>3, <1>7 DEF LoginTypes
  <2>2. \A x \in Keys \ {k} : KeyInv(x)'
    BY <1>1, <1>4, <1>7, OthersPruned
  <2>3. KeyInv(k)'
    <3> SUFFICES ASSUME k \notin dropped
                 PROVE  Consistent(Kept(t)[k], guesses[k], Standing(t)[k], verifying'[k], now)
      BY <1>1, <1>7 DEF KeyInv
    <3> QED
      BY <1>3, <1>7, ConsistentBlocked
  <2> QED
    BY <2>1, <2>2, <2>3 DEF LoginInv
\* The table is full.
<1>8. CASE /\ failures' = Kept(t) /\ blockedUntil' = Standing(t)
           /\ guesses' = [guesses EXCEPT ![k] = <<>>] /\ dropped' = dropped \cup {k}
  <2>1. guesses' \in [Keys -> Seq(Moments)] /\ \A x \in Keys \ {k} : guesses'[x] = guesses[x]
    <3>1. <<>> \in Seq(Moments)
      OBVIOUS
    <3> QED
      BY <1>5, <1>8, <3>1
  <2>2. LoginTypes'
    BY <1>1, <1>2, <1>3, <1>8, <2>1 DEF LoginTypes
  <2>3. \A x \in Keys \ {k} : KeyInv(x)'
    BY <1>1, <1>4, <1>8, <2>1, OthersPruned
  <2>4. KeyInv(k)'
    BY <1>8 DEF KeyInv
  <2> QED
    BY <2>2, <2>3, <2>4 DEF LoginInv
<1> QED
  BY <1>6, <1>7, <1>8 DEF Fail

LEMMA SucceedKeeps ==
    ASSUME LoginInv, NEW k \in Keys, Succeed(k) PROVE LoginInv'
<1>1. /\ LoginTypes /\ SlotsKept /\ Answered(k)
      /\ failures' = [failures EXCEPT ![k] = <<>>] /\ blockedUntil' = [blockedUntil EXCEPT ![k] = 0]
      /\ guesses' = [guesses EXCEPT ![k] = IF k \in dropped THEN <<>>
                                           ELSE [i \in 1..verifying'[k] |-> now]]
      /\ UNCHANGED <<now, dropped>>
  BY DEF LoginInv, LoginTypes, Succeed
<1>2. SlotsKept'
  BY <1>1, SlotReturned
<1>3. now \in Nat /\ now \in Moments
  BY <1>1, LoginFields
<1>4. verifying'[k] \in 0..Slots /\ verifying'[k] \in Nat
  <2>1. verifying'[k] \in 0..Slots
    BY <1>2, TakenBound DEF SlotsKept, Busy
  <2> QED
    BY <2>1, WindowFacts
<1>5. \A x \in Keys \ {k} : verifying'[x] = verifying[x]
  BY <1>1 DEF SlotsKept, Answered
<1> DEFINE n == verifying'[k]
           late == [i \in 1..n |-> now]
           g == IF k \in dropped THEN <<>> ELSE late
<1>6. /\ late \in Seq(Moments) /\ late \in Seq(Int)
      /\ Len(late) = n /\ \A i \in 1..Len(late) : late[i] = now
  <2>1. late \in [1..n -> Moments]
    BY <1>3
  <2>2. late \in Seq(Moments)
    BY <1>4, <2>1, SeqDef
  <2>3. DOMAIN late = 1..n /\ \A i \in 1..n : late[i] = now
    OBVIOUS
  <2> HIDE DEF late
  <2>4. Len(late) = n
    BY <1>4, <2>2, <2>3, LenProperties
  <2> QED
    BY <2>2, <2>3, <2>4, MomentsLog
<1> HIDE DEF n, late
<1>7. g \in Seq(Moments) /\ (k \notin dropped => g = late)
  BY <1>6
<1>8. guesses' = [guesses EXCEPT ![k] = g]
  BY <1>1 DEF late, n
<1> HIDE DEF g
<1>9. /\ guesses' \in [Keys -> Seq(Moments)] /\ guesses'[k] = g
      /\ failures' \in [Keys -> Seq(Moments)] /\ failures'[k] = <<>>
      /\ blockedUntil' \in [Keys -> 0..MaxNow + Cooldown] /\ blockedUntil'[k] = 0
      /\ \A x \in Keys \ {k} : /\ guesses'[x] = guesses[x] /\ failures'[x] = failures[x]
                               /\ blockedUntil'[x] = blockedUntil[x]
  <2>1. 0 \in 0..MaxNow + Cooldown
    BY WindowFacts
  <2>2. <<>> \in Seq(Moments)
    OBVIOUS
  <2>3. /\ guesses' \in [Keys -> Seq(Moments)] /\ guesses'[k] = g
        /\ \A x \in Keys \ {k} : guesses'[x] = guesses[x]
    BY <1>1, <1>7, <1>8 DEF LoginTypes
  <2>4. /\ failures' \in [Keys -> Seq(Moments)] /\ failures'[k] = <<>>
        /\ \A x \in Keys \ {k} : failures'[x] = failures[x]
    BY <1>1, <2>2 DEF LoginTypes
  <2>5. /\ blockedUntil' \in [Keys -> 0..MaxNow + Cooldown] /\ blockedUntil'[k] = 0
        /\ \A x \in Keys \ {k} : blockedUntil'[x] = blockedUntil[x]
    BY <1>1, <2>1 DEF LoginTypes
  <2> QED
    BY <2>3, <2>4, <2>5
<1>10. LoginTypes'
  BY <1>1, <1>2, <1>9 DEF LoginTypes
<1>11. ASSUME NEW x \in Keys \ {k} PROVE KeyInv(x)'
  <2>1. KeyInv(x)
    BY DEF LoginInv
  <2> QED
    BY <1>1, <1>5, <1>9, <2>1 DEF KeyInv
<1>12. KeyInv(k)'
  <2> SUFFICES ASSUME k \notin dropped
               PROVE  Consistent(failures'[k], guesses'[k], blockedUntil'[k], verifying'[k], now')
    BY <1>1 DEF KeyInv
  <2>1. Consistent(<<>>, late, 0, n, now)
    BY <1>3, <1>4, <1>6, ConsistentCleared DEF n
  <2> QED
    BY <1>1, <1>7, <1>9, <2>1 DEF n
<1> QED
  BY <1>10, <1>11, <1>12 DEF LoginInv

LEMMA LoginTickKeeps ==
    ASSUME LoginInv, LoginTick PROVE LoginInv'
<1>1. /\ LoginTypes /\ now < MaxNow /\ now' = now + 1
      /\ guesses' = [k \in Keys |-> PopLeft(guesses[k], now' - (Window - MaxLate))]
      /\ UNCHANGED <<failures, blockedUntil, free, verifying, dropped>>
  BY DEF LoginInv, LoginTick
<1>2. /\ now \in Nat /\ now' \in Moments /\ Moments \subseteq Int
      /\ now' - (Window - MaxLate) \in Int /\ now' - (Window - MaxLate) = (now + 1) - Certain
  <2>1. now \in 1..MaxNow
    BY <1>1 DEF LoginTypes, Moments
  <2> QED
    BY <1>1, <2>1, WindowFacts DEF Moments, Certain
<1>3. ASSUME NEW k \in Keys
      PROVE  /\ guesses'[k] = PopLeft(guesses[k], (now + 1) - Certain)
             /\ PopLeft(guesses[k], now' - (Window - MaxLate)) \in Seq(Moments)
  <2>1. guesses[k] \in Seq(Moments)
    BY <1>1, LoginFields
  <2>2. PopLeft(guesses[k], now' - (Window - MaxLate)) \in Seq(Moments)
    BY <1>2, <2>1, PopLeftTyped
  <2> QED
    BY <1>1, <1>2, <2>2
<1>4. LoginTypes'
  <2>1. guesses' \in [Keys -> Seq(Moments)]
    BY <1>1, <1>3
  <2> QED
    BY <1>1, <1>2, <2>1 DEF LoginTypes, SlotsKept, Busy
<1>5. ASSUME NEW k \in Keys PROVE KeyInv(k)'
  <2> SUFFICES ASSUME k \notin dropped
               PROVE  Consistent(failures[k], guesses'[k], blockedUntil[k], verifying[k], now + 1)
    BY <1>1 DEF KeyInv
  <2>1. /\ failures[k] \in Seq(Int) /\ guesses[k] \in Seq(Int)
        /\ blockedUntil[k] \in Nat /\ verifying[k] \in Nat
    BY <1>1, LoginFields
  <2>2. Consistent(failures[k], guesses[k], blockedUntil[k], verifying[k], now)
    BY DEF LoginInv, KeyInv
  <2>3. Consistent(failures[k], PopLeft(guesses[k], (now + 1) - Certain),
                   blockedUntil[k], verifying[k], now + 1)
    BY <1>2, <2>1, <2>2, ConsistentLater
  <2> QED
    BY <1>3, <2>3
<1> QED
  BY <1>4, <1>5 DEF LoginInv

\* The limiter of a process that starts.
JustStarted ==
    /\ failures = [k \in Keys |-> <<>>] /\ blockedUntil = [k \in Keys |-> 0]
    /\ free = Slots /\ verifying = [k \in Keys |-> 0]
    /\ guesses = [k \in Keys |-> <<>>] /\ dropped = {}

LEMMA StartHolds == now \in Moments /\ JustStarted => LoginInv
<1> SUFFICES ASSUME now \in Moments, JustStarted PROVE LoginInv
  OBVIOUS
<1>1. Busy = {} /\ IsFiniteSet({}) /\ Cardinality({}) = 0
  BY FS_EmptySet DEF JustStarted, Busy, Taken
<1>2. SlotsKept
  BY <1>1, SlotsAssumption DEF JustStarted, SlotsKept
<1>3. LoginTypes
  <2>1. <<>> \in Seq(Moments) /\ 0 \in 0..MaxNow + Cooldown
    BY WindowFacts
  <2> QED
    BY <1>2, <2>1 DEF JustStarted, LoginTypes
<1>4. Consistent(<<>>, <<>>, 0, 0, now)
  <2>1. now \in Nat /\ 0 \in 0..Slots
    BY WindowFacts DEF Moments
  <2> QED
    BY <2>1, EmptyIs, ConsistentCleared
<1>5. \A k \in Keys : KeyInv(k)
  BY <1>4 DEF JustStarted, KeyInv
<1> QED
  BY <1>3, <1>5 DEF LoginInv

LEMMA LoginRestartKeeps == LoginInv /\ LoginRestart => LoginInv'
<1>1. LoginInv /\ LoginRestart => (now \in Moments)' /\ JustStarted'
  BY DEF LoginInv, LoginTypes, LoginRestart, JustStarted
<1> QED
  BY <1>1, StartHolds, PTL

LEMMA LoginInvInit == LoginInit => LoginInv
<1>1. LoginInit => now \in Moments /\ JustStarted
  BY WindowAssumption DEF LoginInit, JustStarted, Moments
<1> QED
  BY <1>1, StartHolds

LEMMA LoginInvNext == LoginInv /\ [LoginNext]_loginVars => LoginInv'
<1> SUFFICES ASSUME LoginInv, [LoginNext]_loginVars PROVE LoginInv'
  OBVIOUS
<1>1. CASE \E k \in Keys, t \in Readings(now) : Ask(k, t) \/ Fail(k, t)
  BY <1>1, AskKeeps, FailKeeps
<1>2. CASE \E k \in Keys : Succeed(k)
  BY <1>2, SucceedKeeps
<1>3. CASE LoginTick
  BY <1>3, LoginTickKeeps
<1>4. CASE LoginRestart
  BY <1>4, LoginRestartKeeps
<1>5. CASE UNCHANGED loginVars
  BY <1>5 DEF loginVars, LoginInv, LoginTypes, SlotsKept, Busy, KeyInv
<1> QED
  BY <1>1, <1>2, <1>3, <1>4, <1>5 DEF LoginNext

LEMMA LoginInvariant == LoginSpec => []LoginInv
BY LoginInvInit, LoginInvNext, PTL DEF LoginSpec

LEMMA LoginInvEnough == LoginInv => LoginTypeOK /\ GuessesBounded
<1> SUFFICES ASSUME LoginInv PROVE LoginTypeOK /\ GuessesBounded
  OBVIOUS
<1>1. LoginTypes /\ SlotsKept
  BY DEF LoginInv, LoginTypes
<1>2. \A k \in Keys : verifying[k] \in 0..Slots
  BY <1>1, TakenBound DEF SlotsKept, Busy
<1>3. verifying \in [Keys -> 0..Slots]
  BY <1>1, <1>2 DEF SlotsKept
<1>4. LoginTypeOK
  BY <1>1, <1>3, SlotsFree DEF LoginTypes, Moments, LoginTypeOK
<1>5. GuessesBounded
  BY DEF LoginInv, KeyInv, Consistent, GuessesBounded
<1> QED
  BY <1>4, <1>5

\* However the attempts on one key interleave, and whatever reading of the last
\* MaxLate each of them works with, no more than Threshold - 1 + Slots are
\* admitted within Window - MaxLate and without a success or a restart between
\* them, for every number of slots and keys, every threshold and every window
\* that its cooldown outlasts by MaxLate: unless the full table dropped a failure
\* of that key.
THEOREM GuessesStayBounded == LoginSpec => []GuessesBounded
BY LoginInvariant, LoginInvEnough, PTL

-----------------------------------------------------------------------------
(* The services together *)

\* Only the part in focus moves, and it moves as its own specification says.
LEMMA PartsMoveAlone ==
    [Next]_vars => /\ [LoginNext]_loginVars /\ [WindowNext]_windowVars
                   /\ [ChallengesNext]_challengeVars /\ [TrafficNext]_trafficVars
                   /\ [PaymentNext]_paymentVars
BY DEF Next, vars, Login, Windows, Challenges, Payments, Traffic

\* The process implements the specification of each of its parts.
THEOREM PartsImplemented ==
    Spec => LoginSpec /\ WindowSpec /\ ChallengesSpec /\ PaymentSpec /\ TrafficSpec
<1>1. Init => LoginInit /\ WindowInit /\ ChallengesInit /\ PaymentInit /\ TrafficInit
  BY DEF Init
<1> QED
  BY <1>1, PartsMoveAlone, PTL
     DEF Spec, LoginSpec, WindowSpec, ChallengesSpec, PaymentSpec, TrafficSpec

\* Every part keeps its types in the process that runs them all.
THEOREM ServiceTypes == Spec => []TypeOK
<1>1. LoginInv => LoginTypeOK
  BY LoginInvEnough
<1>2. WindowInv => WindowTypeOK
  BY WindowInvEnough
<1>3. LoginTypeOK /\ WindowTypeOK /\ ChallengesTypeOK /\ PaymentTypeOK /\ TrafficTypeOK => TypeOK
  BY DEF TypeOK
<1> QED
  BY <1>1, <1>2, <1>3, PartsImplemented, LoginInvariant, WindowInvariant, ChallengeTypes,
     PaymentTypes, TrafficTypes, PTL
=============================================================================
