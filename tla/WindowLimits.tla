---------------------------- MODULE WindowLimits ----------------------------
(***************************************************************************)
(* WindowRateLimiter.consume: the sliding windows over logins per address, *)
(* registrations and reset requests.  The table of buckets is bounded; a   *)
(* bucket is dropped only to make room for a new one, and only when its    *)
(* expiry has come.                                                        *)
(***************************************************************************)
EXTENDS TimeLogs, FiniteSets

CONSTANTS Buckets,    \* namespace and key
          Rate,       \* events admitted per window
          Span,       \* window_seconds
          MaxBuckets, \* max_keys
          MaxClock    \* bound on the clock

ASSUME RateAssumption == Rate \in Nat \ {0} /\ Span \in Nat /\ Span > MaxLate
ASSUME TableAssumption == MaxBuckets \in Nat /\ MaxClock \in Nat \ {0}

VARIABLES
    clock,
    events,   \* _events: per bucket, the readings of the admissions it still holds
    expires,  \* _expires: 0 for a bucket the table does not hold
    admitted  \* ghost: per bucket, the moments of the admissions of the last
              \* Span - MaxLate, which are moments at which the lock was held

windowVars == <<clock, events, expires, admitted>>

Held(e) == {b \in Buckets : e[b] # 0}

\* Expired buckets go when a new one is to be made.
Evicted(b, now) ==
    [x \in Buckets |-> IF expires[b] = 0 /\ expires[x] <= now THEN 0 ELSE expires[x]]

Inside(log, now) == PopLeft(log, now - Span)

\* Mutant: a bucket's expiry is set when it is made and never moved.
ExpiryOfFirst(b, now) == IF events[b] = <<>> THEN now + Span ELSE expires[b]
ExpiryOf(b, now) == now + Span

\* One call, with its reading of the clock.  A reading older than that of the
\* last admission moves the bucket's expiry back.
Consume(b, now) ==
    LET table == Evicted(b, now)
        kept == [x \in Buckets |-> IF table[x] = 0 THEN <<>> ELSE events[x]]
        left == [kept EXCEPT ![b] = Inside(@, now)]
        full == expires[b] = 0 /\ Cardinality(Held(table)) >= MaxBuckets
    IN  \/ /\ full \/ Len(left[b]) >= Rate  \* refused: 429
           /\ events' = left /\ expires' = table
           /\ UNCHANGED <<clock, admitted>>
        \/ /\ ~full /\ Len(left[b]) < Rate
           /\ events' = [left EXCEPT ![b] = Append(@, now)]
           /\ expires' = [table EXCEPT ![b] = ExpiryOf(b, now)]
           /\ admitted' = [admitted EXCEPT ![b] = Append(@, clock)]
           /\ UNCHANGED clock

WindowTick ==
    /\ clock < MaxClock /\ clock' = clock + 1
    /\ admitted' = [b \in Buckets |-> PopLeft(admitted[b], clock' - (Span - MaxLate))]
    /\ UNCHANGED <<events, expires>>

WindowInit ==
    /\ clock = 1
    /\ events = [b \in Buckets |-> <<>>] /\ admitted = [b \in Buckets |-> <<>>]
    /\ expires = [b \in Buckets |-> 0]

WindowNext == WindowTick \/ \E b \in Buckets, now \in Readings(clock) : Consume(b, now)

WindowSpec == WindowInit /\ [][WindowNext]_windowVars

-----------------------------------------------------------------------------
(* Properties *)

\* Every variable holds what the limiter's tables can hold.
WindowTypeOK ==
    /\ clock \in 1..MaxClock
    /\ events \in [Buckets -> Seq(1..MaxClock)] /\ admitted \in [Buckets -> Seq(1..MaxClock)]
    /\ expires \in [Buckets -> 0..MaxClock + Span]

\* However far the readings of the clock are out of order, a bucket admits no
\* more than its rate within Span - MaxLate, although old buckets are dropped
\* whenever a new one needs room, and the table never grows past its bound.
\* It is not within Span: an older reading that is used after a newer one moves
\* the bucket's expiry back (security.py:23 and 42), and the bucket may be
\* dropped up to MaxLate before the newest event has left its window, against
\* README, "rejects new keys until existing restrictions expire instead of
\* evicting active restrictions".
AdmissionsBounded ==
    /\ \A b \in Buckets : Len(admitted[b]) <= Rate
    /\ Cardinality(Held(expires)) <= MaxBuckets

=============================================================================
