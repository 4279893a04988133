--------------------------- MODULE LoginFailures ---------------------------
(***************************************************************************)
(* The cooldown after repeated wrong passwords (LoginFailureLimiter) and   *)
(* the request slots of the middleware.  A login asks the limiter before   *)
(* it verifies the password and tells it the outcome afterwards; the       *)
(* verification in between is slow, and other threads pass the same        *)
(* question meanwhile, as many as there are slots.                         *)
(*                                                                         *)
(* Simplifications.  A login that raises before its password was looked at *)
(* is no guess and is left out.  The reading of a failure may be older     *)
(* than its own question here.  The bound on a key's deque never bites:    *)
(* when a cooldown ends the failures that started it are old.              *)
(***************************************************************************)
EXTENDS TimeLogs, FiniteSets

CONSTANTS Keys,       \* client address and login name
          Slots,      \* requests served at a time
          Threshold,  \* failures that start a cooldown (5)
          Window,     \* while they are remembered (300)
          Cooldown,   \* (900)
          Tracks,     \* keys remembered at a time (max_keys)
          MaxNow      \* bound on the clock

ASSUME SlotsAssumption == Slots \in Nat \ {0} /\ Threshold \in Nat \ {0}
ASSUME WindowAssumption ==
    /\ Window \in Nat /\ Window > MaxLate
    /\ Cooldown \in Nat /\ Cooldown >= Window + MaxLate /\ MaxNow \in Nat \ {0}

VARIABLES
    now,
    failures,     \* _failures: per key, the readings of the failures it still holds
    blockedUntil, \* _blocked_until: 0 for a key it does not hold
    free,         \* _request_slots
    verifying,    \* per key: logins between the question and the answer
    guesses,      \* ghost: when each attempt of the last Window - MaxLate was
                  \* admitted since the last success, for the keys that are not
    dropped       \* ghost: those with a failure the full table did not take

loginVars == <<now, failures, blockedUntil, free, verifying, guesses, dropped>>

\* _prune_expired, by the reading t.
Kept(t) == [k \in Keys |-> PopLeft(failures[k], t - Window)]
Standing(t) == [k \in Keys |-> IF blockedUntil[k] <= t THEN 0 ELSE blockedUntil[k]]

\* A key stays in the table while it has failures or a cooldown.
Tracked(t) == {k \in Keys : Kept(t)[k] # <<>> \/ Standing(t)[k] # 0}
HasRoom(k, t) == k \in Tracked(t) \/ Cardinality(Tracked(t)) < Tracks

\* limit_concurrent_requests, then check.
Ask(k, t) ==
    /\ free > 0
    /\ failures' = Kept(t) /\ blockedUntil' = Standing(t)
    /\ \/ /\ Standing(t)[k] = 0 /\ HasRoom(k, t)
          /\ free' = free - 1
          /\ verifying' = [verifying EXCEPT ![k] = @ + 1]
          /\ guesses' = IF k \in dropped THEN guesses ELSE [guesses EXCEPT ![k] = Append(@, now)]
       \/ /\ Standing(t)[k] # 0 \/ ~HasRoom(k, t)  \* refused: 429
          /\ UNCHANGED <<free, verifying, guesses>>
    /\ UNCHANGED <<now, dropped>>

\* The answer goes out and the slot comes back.
Answered(k) ==
    /\ verifying[k] > 0
    /\ verifying' = [verifying EXCEPT ![k] = @ - 1]
    /\ free' = free + 1

\* Mutant: the cooldown starts one failure late.
CooldownLate(k, t) ==
    IF Len(failures'[k]) > Threshold THEN [Standing(t) EXCEPT ![k] = t + Cooldown] ELSE Standing(t)
CooldownAfter(k, t) ==
    IF Len(failures'[k]) >= Threshold THEN [Standing(t) EXCEPT ![k] = t + Cooldown] ELSE Standing(t)

\* record_failure.  During a cooldown, and by a full table, nothing is recorded.
Fail(k, t) ==
    /\ Answered(k)
    /\ \/ /\ Standing(t)[k] = 0 /\ HasRoom(k, t)
          /\ failures' = [Kept(t) EXCEPT ![k] = Append(@, t)]
          /\ blockedUntil' = CooldownAfter(k, t)
          /\ UNCHANGED <<guesses, dropped>>
       \/ /\ Standing(t)[k] # 0
          /\ failures' = Kept(t) /\ blockedUntil' = Standing(t)
          /\ UNCHANGED <<guesses, dropped>>
       \/ /\ Standing(t)[k] = 0 /\ ~HasRoom(k, t)
          /\ failures' = Kept(t) /\ blockedUntil' = Standing(t)
          /\ guesses' = [guesses EXCEPT ![k] = <<>>] /\ dropped' = dropped \cup {k}
    /\ UNCHANGED now

\* The right password: reset.  The attempts still being verified count on.
Succeed(k) ==
    /\ Answered(k)
    /\ failures' = [failures EXCEPT ![k] = <<>>]
    /\ blockedUntil' = [blockedUntil EXCEPT ![k] = 0]
    /\ guesses' = [guesses EXCEPT ![k] = IF k \in dropped THEN <<>> ELSE [i \in 1..verifying'[k] |-> now]]
    /\ UNCHANGED <<now, dropped>>

LoginTick ==
    /\ now < MaxNow /\ now' = now + 1
    /\ guesses' = [k \in Keys |-> PopLeft(guesses[k], now' - (Window - MaxLate))]
    /\ UNCHANGED <<failures, blockedUntil, free, verifying, dropped>>

\* Limiters and slots live in the process.
LoginRestart ==
    /\ failures' = [k \in Keys |-> <<>>] /\ blockedUntil' = [k \in Keys |-> 0]
    /\ free' = Slots /\ verifying' = [k \in Keys |-> 0]
    /\ guesses' = [k \in Keys |-> <<>>] /\ dropped' = {}
    /\ UNCHANGED now

LoginInit ==
    /\ now = 1
    /\ failures = [k \in Keys |-> <<>>] /\ blockedUntil = [k \in Keys |-> 0]
    /\ free = Slots /\ verifying = [k \in Keys |-> 0]
    /\ guesses = [k \in Keys |-> <<>>] /\ dropped = {}

LoginNext ==
    \/ \E k \in Keys, t \in Readings(now) : Ask(k, t) \/ Fail(k, t)
    \/ \E k \in Keys : Succeed(k)
    \/ LoginTick \/ LoginRestart

LoginSpec == LoginInit /\ [][LoginNext]_loginVars

-----------------------------------------------------------------------------
(* Properties *)

\* Every variable holds what the limiter and the semaphore can hold.
LoginTypeOK ==
    /\ now \in 1..MaxNow
    /\ failures \in [Keys -> Seq(1..MaxNow)] /\ guesses \in [Keys -> Seq(1..MaxNow)]
    /\ blockedUntil \in [Keys -> 0..MaxNow + Cooldown]
    /\ free \in 0..Slots /\ verifying \in [Keys -> 0..Slots]
    /\ dropped \subseteq Keys

\* Attempts that run side by side pass the check together, but however they
\* interleave, and however late each reading of the clock is used, no more than
\* Threshold - 1 + Slots of them are admitted for one key within Window - MaxLate
\* and without a success between them, and after that the cooldown holds.  The
\* right password and a restart start the count again (reset empties the key's
\* failures), and a key whose failure the full table did not take is left out.
GuessesBounded ==
    \A k \in Keys \ dropped : Len(guesses[k]) <= Threshold - 1 + Slots

=============================================================================
