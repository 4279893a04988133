-------------------------- MODULE AccountSessions --------------------------
(***************************************************************************)
(* users.json as the account routes see it: registration and its approval  *)
(* by Telegram button or admin page, login, password reset, deletion, and  *)
(* the session cookies that remain in browsers.                            *)
(*                                                                         *)
(* Every change is one core.mutate_users under the users lock; a request   *)
(* reads users.json once before it and must not act on what it read.       *)
(* Requests run in threads, so anything may happen between two steps.      *)
(*                                                                         *)
(* Simplifications.  Account ids, approval tokens and reset links are      *)
(* drawn from one counter: an account's approval token is its id.  Two     *)
(* salted hashes of one password are equal (the code never replaces one by *)
(* another without a new session_version).  Administrators' accounts and   *)
(* limits are left out.  A cookie never dies: logging out only discards    *)
(* the browser's copy.                                                     *)
(***************************************************************************)
EXTENDS Integers, FiniteSets

CONSTANTS Names, Passwords, Threads,
          Legacy,      \* names stored before accounts had ids and salted hashes
          Capacity,    \* accounts waiting for approval (100)
          OutboxSlots, \* background messages (68)
          MaxSerial,   \* bounds: ids and links ever drawn,
          MaxSessions  \* sessions after which nobody starts a login

ASSUME SerialAssumption == MaxSerial \in Nat \ {0}
ASSUME LegacyAssumption == Legacy \subseteq Names

VARIABLES
    users,    \* users.json
    request,  \* per thread: what the request it serves has read
    outbox,   \* approval messages queued in the executor
    chat,     \* approval messages whose buttons the administrator can press
    expired,  \* reset links older than an hour
    cookies,  \* sessions ever handed to a browser
    serial,   \* the last id or link drawn
    issued,   \* ghost: the reset links, each with the account it was made for
    spent     \* ghost: the links that changed a password

vars == <<users, request, outbox, chat, expired, cookies, serial, issued, spent>>

\* id 0: the record predates account ids.  reset, token 0: none.
Accounts == [id : 0..MaxSerial, pw : Passwords, salted : BOOLEAN, version : 1..MaxSerial,
             approved : BOOLEAN, revoking : BOOLEAN, token : 0..MaxSerial, reset : 0..MaxSerial]
Absent == [id |-> -1]
Present(n) == users[n] # Absent

\* A cookie's proved is a ghost: the account and password its login verified.
Cookies == [name : Names, id : 1..MaxSerial, version : 1..MaxSerial,
            proved : [id : 1..MaxSerial, pw : Passwords]]

Idle == [op |-> "idle"]
Requests ==
    [op : {"identify", "verify"}, name : Names, pw : Passwords, seen : Accounts]
    \cup [op : {"notify", "rollback"}, name : Names, token : 1..MaxSerial]
    \cup [op : {"reset"}, name : Names, pw : Passwords, link : 1..MaxSerial]
    \cup {Idle}

-----------------------------------------------------------------------------
(* users.json *)

\* _normalize_users: a legacy record gets its id; only a pending account has
\* a token.  Mutant: the id is left to a later start.
NormalizedFlags(r) ==
    [r EXCEPT !.approved = @ /\ ~r.revoking,
              !.token = IF r.revoking \/ r.approved THEN 0 ELSE @]
Normalized(r) ==
    [r EXCEPT !.id = IF @ = 0 THEN 1 ELSE @,
              !.approved = @ /\ ~r.revoking,
              !.token = IF r.revoking \/ r.approved THEN 0 ELSE @]

\* mutate_users: all records are normalised at every write.
Saved(u) == [n \in Names |-> IF u[n] = Absent THEN Absent ELSE Normalized(u[n])]

NewAccount(k, p) ==
    [id |-> k, pw |-> p, salted |-> TRUE, version |-> 1, approved |-> FALSE,
     revoking |-> FALSE, token |-> k, reset |-> 0]

Pending == {n \in Names : Present(n) /\ ~users[n].approved}

\* _current_user
Accepted(c) ==
    /\ Present(c.name) /\ ~users[c.name].revoking
    /\ c.id = users[c.name].id /\ c.version = users[c.name].version

-----------------------------------------------------------------------------
(* Login *)

Serves(t, r) == request' = [request EXCEPT ![t] = r]
Ends(t) == Serves(t, Idle)

LoginRead(t, n, p) ==
    /\ request[t] = Idle /\ Present(n) /\ Cardinality(cookies) < MaxSessions
    /\ Serves(t, [op |-> IF users[n].id = 0 THEN "identify" ELSE "verify",
                  name |-> n, pw |-> p, seen |-> users[n]])
    /\ UNCHANGED <<users, outbox, chat, expired, cookies, serial, issued, spent>>

\* A legacy record gets its id before its password is looked at.
LoginIdentify(t) ==
    LET r == request[t] IN
    /\ r.op = "identify"
    /\ users' = Saved(users)
    /\ IF Present(r.name) THEN Serves(t, [r EXCEPT !.op = "verify", !.seen = Saved(users)[r.name]])
                          ELSE Ends(t)
    /\ UNCHANGED <<outbox, chat, expired, cookies, serial, issued, spent>>

\* authenticate: the record is still the one whose password was verified.
\* Mutant: that it is there is enough.
StillThere(r) == Present(r.name) /\ ~users[r.name].revoking
SameAccount(r) ==
    /\ Present(r.name) /\ ~users[r.name].revoking
    /\ \A key \in {"id", "pw", "salted", "version"} : users[r.name][key] = r.seen[key]

\* The password is checked against what was read; then, under the users lock,
\* a legacy hash is replaced by one of the password given.
LoginVerify(t) ==
    LET r == request[t] IN
    /\ r.op = "verify" /\ Ends(t)
    /\ IF r.pw = r.seen.pw /\ SameAccount(r)
       THEN /\ users' = Saved(IF r.seen.salted THEN users
                              ELSE [users EXCEPT ![r.name] = [@ EXCEPT !.pw = r.pw, !.salted = TRUE]])
            /\ cookies' = cookies \cup
                  {[name |-> r.name, id |-> users[r.name].id, version |-> users[r.name].version,
                    proved |-> [id |-> r.seen.id, pw |-> r.pw]]}
       ELSE /\ users' = IF r.pw = r.seen.pw THEN Saved(users) ELSE users
            /\ UNCHANGED cookies
    /\ UNCHANGED <<outbox, chat, expired, serial, issued, spent>>

-----------------------------------------------------------------------------
(* Registration and approval *)

Register(t, n, p) ==
    /\ request[t] = Idle /\ ~Present(n)
    /\ Cardinality(Pending) < Capacity /\ serial < MaxSerial
    /\ serial' = serial + 1
    /\ users' = Saved([users EXCEPT ![n] = NewAccount(serial + 1, p)])
    /\ Serves(t, [op |-> "notify", name |-> n, token |-> serial + 1])
    /\ UNCHANGED <<outbox, chat, expired, cookies, issued, spent>>

\* submit_background has a slot or refuses.
Notify(t) ==
    LET r == request[t] IN
    /\ r.op = "notify"
    /\ IF Cardinality(outbox) < OutboxSlots
       THEN outbox' = outbox \cup {r.token} /\ Ends(t)
       ELSE Serves(t, [r EXCEPT !.op = "rollback"]) /\ UNCHANGED outbox
    /\ UNCHANGED <<users, chat, expired, cookies, serial, issued, spent>>

\* Mutant: the record of that name is dropped, whoever's it is.
RollbackByName(t) ==
    LET r == request[t] IN
    /\ r.op = "rollback" /\ Ends(t)
    /\ users' = Saved([users EXCEPT ![r.name] = Absent])
    /\ UNCHANGED <<outbox, chat, expired, cookies, serial, issued, spent>>

Rollback(t) ==
    LET r == request[t] IN
    /\ r.op = "rollback" /\ Ends(t)
    /\ users' = Saved(IF Present(r.name) /\ users[r.name].token = r.token
                      THEN [users EXCEPT ![r.name] = Absent] ELSE users)
    /\ UNCHANGED <<outbox, chat, expired, cookies, serial, issued, spent>>

\* The message reaches the chat or is lost.
Deliver(k) ==
    /\ outbox' = outbox \ {k}
    /\ chat' \in {chat, chat \cup {k}}
    /\ UNCHANGED <<users, request, expired, cookies, serial, issued, spent>>

\* tg_webhook: a button may be pressed late, twice, or redelivered.
Press(k, verdict) ==
    /\ \E n \in Names :
          /\ Present(n) /\ ~users[n].revoking /\ ~users[n].approved /\ users[n].token = k
          /\ users' = Saved(IF verdict = "approve"
                            THEN [users EXCEPT ![n] = [@ EXCEPT !.approved = TRUE, !.token = 0]]
                            ELSE [users EXCEPT ![n] = Absent])
    /\ UNCHANGED <<request, outbox, chat, expired, cookies, serial, issued, spent>>

AdminApprove(n) ==
    /\ Present(n) /\ ~users[n].revoking
    /\ users' = Saved([users EXCEPT ![n] = [@ EXCEPT !.approved = TRUE, !.token = 0]])
    /\ UNCHANGED <<request, outbox, chat, expired, cookies, serial, issued, spent>>

\* delete_user: the account is closed first and removed once its profiles are gone.
DeleteBegin(n) ==
    /\ Present(n) /\ ~users[n].revoking
    /\ users' = Saved([users EXCEPT ![n] = [@ EXCEPT !.revoking = TRUE, !.approved = FALSE, !.token = 0]])
    /\ UNCHANGED <<request, outbox, chat, expired, cookies, serial, issued, spent>>

DeleteEnd(n) ==
    /\ Present(n) /\ users[n].revoking
    /\ users' = Saved([users EXCEPT ![n] = Absent])
    /\ UNCHANGED <<request, outbox, chat, expired, cookies, serial, issued, spent>>

-----------------------------------------------------------------------------
(* Password reset *)

\* forgot: whoever holds the administrator's copy of a link may use it.
Forgot(n) ==
    /\ Present(n) /\ serial < MaxSerial
    /\ serial' = serial + 1
    /\ users' = Saved([users EXCEPT ![n] = [@ EXCEPT !.reset = serial + 1]])
    /\ issued' = issued \cup {[link |-> serial + 1, id |-> users'[n].id]}
    /\ UNCHANGED <<request, outbox, chat, expired, cookies, spent>>

Expire(k) ==
    /\ \E n \in Names : Present(n) /\ users[n].reset = k
    /\ expired' = expired \cup {k}
    /\ UNCHANGED <<users, request, outbox, chat, cookies, serial, issued, spent>>

\* _find_reset_user
ResetFind(t, k, p) ==
    /\ request[t] = Idle /\ k \notin expired
    /\ \E n \in Names : /\ Present(n) /\ users[n].reset = k
                        /\ Serves(t, [op |-> "reset", name |-> n, pw |-> p, link |-> k])
    /\ UNCHANGED <<users, outbox, chat, expired, cookies, serial, issued, spent>>

\* apply_reset.  The time it compares the expiry with was taken before it
\* waited for the users lock.  Mutant: the link stays in the record.
ResetKeepsLink(r, p) ==
    [r EXCEPT !.pw = p, !.salted = TRUE, !.version = IF @ < MaxSerial THEN @ + 1 ELSE @]
Reset(r, p) == [r EXCEPT !.pw = p, !.salted = TRUE, !.version = @ + 1, !.reset = 0]

ResetApply(t) ==
    LET r == request[t]
        current == Present(r.name) /\ users[r.name].reset = r.link
    IN
    /\ r.op = "reset" /\ Ends(t)
    /\ \/ /\ current
          /\ users' = Saved([users EXCEPT ![r.name] = Reset(users[r.name], r.pw)])
          /\ spent' = spent \cup {r.link}
       \/ /\ current => r.link \in expired
          /\ users' = Saved(users) /\ UNCHANGED spent
    /\ UNCHANGED <<outbox, chat, expired, cookies, serial, issued>>

-----------------------------------------------------------------------------
\* A request raises between two steps; the process dies with its executor.
Dies(t) ==
    /\ request[t] # Idle /\ Ends(t)
    /\ UNCHANGED <<users, outbox, chat, expired, cookies, serial, issued, spent>>

Crash ==
    /\ request' = [t \in Threads |-> Idle] /\ outbox' = {}
    /\ UNCHANGED <<users, chat, expired, cookies, serial, issued, spent>>

\* Accounts approved before this version of the panel, some with legacy records.
Init ==
    /\ \E p \in Passwords :
          users = [n \in Names |->
                     IF n \in Legacy THEN [NewAccount(0, p) EXCEPT !.salted = FALSE, !.approved = TRUE]
                                     ELSE Absent]
    /\ request = [t \in Threads |-> Idle]
    /\ outbox = {} /\ chat = {} /\ expired = {} /\ cookies = {}
    /\ serial = 1 /\ issued = {} /\ spent = {}

Thread(t) ==
    \/ \E n \in Names, p \in Passwords : LoginRead(t, n, p) \/ Register(t, n, p)
    \/ \E k \in {i.link : i \in issued}, p \in Passwords : ResetFind(t, k, p)
    \/ LoginIdentify(t) \/ LoginVerify(t) \/ Notify(t) \/ Rollback(t) \/ ResetApply(t) \/ Dies(t)

Others ==
    \/ \E k \in outbox : Deliver(k)
    \/ \E k \in chat, verdict \in {"approve", "reject"} : Press(k, verdict)
    \/ \E n \in Names : AdminApprove(n) \/ DeleteBegin(n) \/ DeleteEnd(n) \/ Forgot(n)
    \/ \E i \in issued : Expire(i.link)
    \/ Crash

Next == Others \/ \E t \in Threads : Thread(t)

Spec == Init /\ [][Next]_vars

-----------------------------------------------------------------------------
(* Properties *)

\* Every variable holds what the file, a request, the queue or a browser can hold.
TypeOK ==
    /\ users \in [Names -> Accounts \cup {Absent}]
    /\ request \in [Threads -> Requests]
    /\ outbox \subseteq 1..MaxSerial /\ chat \subseteq 1..MaxSerial
    /\ cookies \subseteq Cookies /\ serial \in 1..MaxSerial
    /\ issued \subseteq [link : 1..MaxSerial, id : 1..MaxSerial]
    /\ expired \subseteq 1..MaxSerial /\ spent \subseteq 1..MaxSerial

\* A session that _current_user accepts was opened for this very account with
\* the password the account has now: a login that overlaps a reset, a legacy
\* upgrade, a deletion or a new registration of the name opens nothing else,
\* and a reset or a deletion ends the sessions opened before it (README:
\* "without reusing the previous account's sessions").
SessionsGenuine ==
    \A c \in cookies : Accepted(c) => c.proved = [id |-> users[c.name].id, pw |-> users[c.name].pw]

\* An account's password changes only through a reset link made for that
\* account, and no link changes a password twice.
SameRecord(n) == Present(n) /\ users'[n] # Absent /\ users'[n].id = users[n].id
ResetsAreOwn ==
    [][\A n \in Names : SameRecord(n) /\ users'[n].pw # users[n].pw =>
          \E i \in issued : i.id = users[n].id /\ i.link \notin spent /\ i.link \in spent']_vars

\* A record goes only as the end of its own deletion, or, while it waits for
\* approval, by the button of its own message or the rollback of its own
\* registration: never an approved account, never a later owner of the name.
RemovalsAreOwn ==
    [][\A n \in Names : Present(n) /\ users'[n] = Absent =>
          \/ users[n].revoking
          \/ /\ ~users[n].approved
             /\ \/ users[n].token \in chat
                \/ \E t \in Threads : /\ request[t].op = "rollback"
                                      /\ request[t].token = users[n].token]_vars

=============================================================================
