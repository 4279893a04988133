------------------------------ MODULE TimeLogs ------------------------------
(***************************************************************************)
(* The deques of times both limiters of security.py keep, and the clock    *)
(* they read.  A deque is pruned from the left only, up to the first time  *)
(* that is recent enough.                                                  *)
(*                                                                         *)
(* A request reads the clock before it takes the limiter's lock, so others *)
(* with later readings may hold the lock first: what a request works with  *)
(* is any reading of the last MaxLate ticks, and the deques are not        *)
(* sorted.                                                                 *)
(***************************************************************************)
EXTENDS Integers, Sequences

CONSTANT MaxLate  \* bound on the wait between reading the clock and holding the lock

ASSUME LateAssumption == MaxLate \in Nat

\* now = self._clock(), for a request that holds the lock at time t.
Readings(t) == {x \in 1..t : t - x <= MaxLate}

\* How many times at the head of the log are not after t.
Leading(log, t) ==
    CHOOSE n \in 0..Len(log) : /\ \A i \in 1..n : log[i] <= t
                               /\ n < Len(log) => log[n + 1] > t

\* while log and log[0] <= t: log.popleft()
PopLeft(log, t) == SubSeq(log, Leading(log, t) + 1, Len(log))

=============================================================================
