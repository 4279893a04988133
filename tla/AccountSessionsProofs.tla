----------------------- MODULE AccountSessionsProofs -----------------------
(***************************************************************************)
(* Accounts and sessions, for any names, passwords, threads and number of  *)
(* ids: the types, that an accepted session is genuine, and that resets    *)
(* and removals act on the account they were meant for.                    *)
(*                                                                         *)
(* Three facts carry the sessions (Inv).  Ids are drawn once, so a cookie  *)
(* can only belong to the record that has its id.  A record's version      *)
(* never falls, and its password changes only with its version.  And no    *)
(* cookie is handed out while a record without an id is left.              *)
(*                                                                         *)
(* Two more carry the rest (LinkInv).  A record's link was made for it and *)
(* is nobody else's; and a record with a token waits for approval.         *)
(***************************************************************************)
EXTENDS AccountSessions, TLAPS

Tables == [Names -> Accounts \cup {Absent}]

\* Nothing in a record is newer than the serial; a version is older than the
\* link that would raise it.
Dated(n) ==
    Present(n) =>
        /\ users[n].id <= serial /\ users[n].reset <= serial
        /\ users[n].reset = 0 => users[n].version <= serial
        /\ users[n].reset # 0 => users[n].version < users[n].reset

\* A cookie of a record's id is of its present or an earlier version; and of
\* the present one only if its login verified the present password.
Honest(c) ==
    /\ c.id <= serial
    /\ Present(c.name) /\ users[c.name].id = c.id =>
          /\ c.version <= users[c.name].version
          /\ c.version = users[c.name].version =>
                c.proved = [id |-> users[c.name].id, pw |-> users[c.name].pw]

Identified == \A n \in Names : Present(n) => users[n].id # 0

Inv ==
    /\ TypeOK
    /\ \A n \in Names : Dated(n)
    /\ \A c \in cookies : Honest(c)
    /\ cookies # {} => Identified
    /\ \A t \in Threads : request[t].op = "verify" => request[t].seen.id # 0

-----------------------------------------------------------------------------
(* Records and requests *)

LEMMA AbsentIsNoAccount == Absent \notin Accounts
BY DEF Absent, Accounts

LEMMA TableIs ==
    ASSUME NEW u \in Tables, NEW n \in Names
    PROVE  u[n] # Absent <=> u[n] \in Accounts
BY AbsentIsNoAccount DEF Tables

LEMMA NormalizedIs ==
    ASSUME NEW r \in Accounts
    PROVE  /\ Normalized(r) \in Accounts
           /\ Normalized(r).id = IF r.id = 0 THEN 1 ELSE r.id
           /\ Normalized(r).pw = r.pw /\ Normalized(r).version = r.version
           /\ Normalized(r).reset = r.reset
<1>1. 1 \in 0..MaxSerial /\ 0 \in 0..MaxSerial
  BY SerialAssumption
<1>2. (IF r.id = 0 THEN 1 ELSE r.id) \in 0..MaxSerial
  BY <1>1 DEF Accounts
<1>3. (IF r.revoking \/ r.approved THEN 0 ELSE r.token) \in 0..MaxSerial
  BY <1>1 DEF Accounts
<1>4. (r.approved /\ ~r.revoking) \in BOOLEAN
  OBVIOUS
<1> QED BY <1>2, <1>3, <1>4 DEF Normalized, Accounts

\* Writing a table normalises its records and leaves the missing ones out.
LEMMA SavedIs ==
    ASSUME NEW u \in Tables
    PROVE  /\ Saved(u) \in Tables
           /\ \A n \in Names : u[n] = Absent => Saved(u)[n] = Absent
           /\ \A n \in Names : u[n] # Absent => Saved(u)[n] = Normalized(u[n])
<1>1. \A n \in Names : u[n] # Absent => Normalized(u[n]) \in Accounts
  BY TableIs, NormalizedIs
<1> QED BY <1>1 DEF Saved, Tables

LEMMA LoginRequest ==
    ASSUME TypeOK, NEW t \in Threads, request[t].op \in {"identify", "verify"}
    PROVE  /\ request[t] \in [op : {"identify", "verify"}, name : Names, pw : Passwords, seen : Accounts]
           /\ request[t].name \in Names /\ request[t].pw \in Passwords /\ request[t].seen \in Accounts
BY DEF TypeOK, Requests, Idle

LEMMA NoticeRequest ==
    ASSUME TypeOK, NEW t \in Threads, request[t].op \in {"notify", "rollback"}
    PROVE  /\ request[t] \in [op : {"notify", "rollback"}, name : Names, token : 1..MaxSerial]
           /\ request[t].name \in Names /\ request[t].token \in 1..MaxSerial
BY DEF TypeOK, Requests, Idle

LEMMA ResetRequest ==
    ASSUME TypeOK, NEW t \in Threads, request[t].op = "reset"
    PROVE  /\ request[t].name \in Names /\ request[t].pw \in Passwords
           /\ request[t].link \in 1..MaxSerial
BY DEF TypeOK, Requests, Idle

\* What is asked of requests in Inv.
Waiting == \A t \in Threads : request[t].op = "verify" => request[t].seen.id # 0

LEMMA ServesIs ==
    ASSUME TypeOK, Waiting, NEW t \in Threads, NEW r \in Requests, Serves(t, r),
           r.op = "verify" => r.seen.id # 0
    PROVE  request' \in [Threads -> Requests] /\ Waiting'
BY DEF TypeOK, Serves, Waiting

LEMMA EndsIs ==
    ASSUME TypeOK, Waiting, NEW t \in Threads, Ends(t)
    PROVE  request' \in [Threads -> Requests] /\ Waiting'
<1>1. Idle \in Requests /\ Idle.op # "verify"
  BY DEF Idle, Requests
<1> QED BY <1>1, ServesIs DEF Ends

-----------------------------------------------------------------------------
(* What a write may do to the record of one name *)

Table == users \in Tables /\ (\A n \in Names : Dated(n)) /\ serial \in 1..MaxSerial
Jar == cookies \subseteq Cookies /\ (\A c \in cookies : Honest(c)) /\ (cookies # {} => Identified)

LEMMA TableOfInv == Inv => Table /\ Jar /\ Waiting
BY DEF Inv, TypeOK, Table, Jar, Waiting, Tables

\* The record stays the same account with the same password, version and link.
Kept(n) ==
    /\ Present(n) /\ users[n] \in Accounts
    /\ users'[n].id = (IF users[n].id = 0 THEN 1 ELSE users[n].id)
    /\ users'[n].pw = users[n].pw /\ users'[n].version = users[n].version
    /\ users'[n].reset = users[n].reset

\* The record belongs to an account that did not exist.
Added(n) ==
    /\ serial' = serial + 1
    /\ users'[n].id = serial + 1 /\ users'[n].version = 1 /\ users'[n].reset = 0

\* The record stays the same account, with another link, or with another
\* password under the next version.
Renewed(n) ==
    /\ Present(n) /\ users[n] \in Accounts /\ Dated(n)'
    /\ users'[n].id = (IF users[n].id = 0 THEN 1 ELSE users[n].id)
    /\ \/ users'[n].version = users[n].version /\ users'[n].pw = users[n].pw
       \/ users'[n].version = users[n].version + 1

Lawful(n) == Present(n)' => users'[n] \in Accounts /\ (Kept(n) \/ Added(n) \/ Renewed(n))

LEMMA SerialGrows ==
    ASSUME Inv, serial' \in 1..MaxSerial, serial <= serial'
    PROVE  serial \in Nat /\ serial' \in Nat /\ 1 <= serial /\ 1 <= serial'
BY SerialAssumption DEF Inv, TypeOK

LEMMA LawfulDated ==
    ASSUME Inv, serial' \in 1..MaxSerial, serial <= serial', NEW n \in Names, Lawful(n)
    PROVE  Dated(n)'
<1>1. CASE ~Present(n)'
  BY <1>1 DEF Dated
<1>2. CASE Present(n)' /\ Kept(n)
  <2>1. /\ Dated(n) /\ Present(n)
        /\ users[n].id \in Nat /\ users[n].version \in Nat /\ users[n].reset \in Nat
    BY <1>2 DEF Inv, Kept, Accounts
  <2> QED BY <1>2, <2>1, SerialGrows DEF Dated, Kept
<1>3. CASE Present(n)' /\ Added(n)
  BY <1>3, SerialGrows DEF Dated, Added
<1>4. CASE Present(n)' /\ Renewed(n)
  BY <1>4 DEF Renewed
<1> QED BY <1>1, <1>2, <1>3, <1>4 DEF Lawful

LEMMA LawfulIdentified ==
    ASSUME Inv, serial' \in 1..MaxSerial, serial <= serial', NEW n \in Names, Lawful(n), Present(n)'
    PROVE  users'[n].id # 0
<1>1. CASE Kept(n)
  BY <1>1 DEF Kept
<1>2. CASE Added(n)
  BY <1>2, SerialGrows DEF Added
<1>3. CASE Renewed(n)
  BY <1>3 DEF Renewed
<1> QED BY <1>1, <1>2, <1>3 DEF Lawful

LEMMA LawfulHonest ==
    ASSUME Inv, serial' \in 1..MaxSerial, serial <= serial', NEW c \in cookies, Lawful(c.name)
    PROVE  Honest(c)'
<1> DEFINE n == c.name
<1>1. /\ Honest(c) /\ n \in Names /\ c.id \in Nat /\ c.version \in Nat
      /\ Present(n) => users[n].id # 0
  BY DEF Inv, TypeOK, Cookies, Identified
<1>2. c.id <= serial'
  BY <1>1, SerialGrows DEF Honest
<1>3. ASSUME Present(n)', users'[n].id = c.id
      PROVE  /\ c.version <= users'[n].version
             /\ c.version = users'[n].version => c.proved = [id |-> users'[n].id, pw |-> users'[n].pw]
  <2>1. ~Added(n)
    BY <1>1, <1>3, SerialGrows DEF Added, Honest
  <2>2. ASSUME Kept(n) \/ Renewed(n)
        PROVE  Present(n) /\ users[n] \in Accounts /\ users'[n].id = users[n].id
    BY <1>1, <2>2 DEF Kept, Renewed
  <2>3. ASSUME Kept(n) \/ Renewed(n)
        PROVE  /\ c.version <= users[n].version /\ users[n].version \in Nat
               /\ c.version = users[n].version => c.proved = [id |-> users[n].id, pw |-> users[n].pw]
    BY <1>1, <1>3, <2>2, <2>3 DEF Honest, Accounts
  <2>4. CASE Kept(n)
    BY <2>2, <2>3, <2>4 DEF Kept
  <2>5. CASE Renewed(n)
    BY <1>1, <2>2, <2>3, <2>5 DEF Renewed
  <2> QED BY <1>3, <2>1, <2>4, <2>5 DEF Lawful
<1> QED BY <1>2, <1>3 DEF Honest

\* A write is safe when it is lawful for every name.
LEMMA LawfulWrite ==
    ASSUME Inv, users' \in Tables, serial' \in 1..MaxSerial, serial <= serial', UNCHANGED cookies,
           \A n \in Names : Lawful(n)
    PROVE  Table' /\ Jar'
<1>1. \A n \in Names : Dated(n)'
  BY LawfulDated
<1>2. \A n \in Names : Present(n)' => users'[n].id # 0
  BY LawfulIdentified
<1>3. \A c \in cookies : c.name \in Names /\ c \in Cookies
  BY DEF Inv, TypeOK, Cookies
<1>4. \A c \in cookies : Honest(c)'
  BY <1>3, LawfulHonest
<1> QED BY <1>1, <1>2, <1>3, <1>4 DEF Table, Jar, Identified

-----------------------------------------------------------------------------
(* Writes through mutate_users *)

\* r may replace the record of n: it is missing, or the same account with the
\* same password, version and link.
Keeps(n, r) ==
    \/ r = Absent
    \/ /\ Present(n) /\ r \in Accounts
       /\ r.id = users[n].id /\ r.pw = users[n].pw
       /\ r.version = users[n].version /\ r.reset = users[n].reset

LEMMA WrittenRecord ==
    ASSUME NEW u \in Tables, users' = Saved(u), NEW n \in Names
    PROVE  Present(n)' => /\ u[n] \in Accounts /\ users'[n] \in Accounts
                          /\ users'[n].id = IF u[n].id = 0 THEN 1 ELSE u[n].id
                          /\ users'[n].pw = u[n].pw /\ users'[n].version = u[n].version
                          /\ users'[n].reset = u[n].reset
<1> SUFFICES ASSUME Present(n)'
             PROVE  /\ u[n] \in Accounts /\ users'[n] \in Accounts
                    /\ users'[n].id = IF u[n].id = 0 THEN 1 ELSE u[n].id
                    /\ users'[n].pw = u[n].pw /\ users'[n].version = u[n].version
                    /\ users'[n].reset = u[n].reset
  OBVIOUS
<1>1. u[n] # Absent /\ users'[n] = Normalized(u[n])
  BY SavedIs DEF Present
<1> QED BY <1>1, TableIs, NormalizedIs

LEMMA KeepsKept ==
    ASSUME Inv, NEW u \in Tables, users' = Saved(u), NEW n \in Names, Keeps(n, u[n]), Present(n)'
    PROVE  users'[n] \in Accounts /\ Kept(n)
<1>1. /\ u[n] \in Accounts /\ users'[n] \in Accounts
      /\ users'[n].id = IF u[n].id = 0 THEN 1 ELSE u[n].id
      /\ users'[n].pw = u[n].pw /\ users'[n].version = u[n].version
      /\ users'[n].reset = u[n].reset
  BY WrittenRecord
<1>2. Present(n) /\ users[n] \in Accounts
  BY <1>1, AbsentIsNoAccount, TableIs DEF Keeps, Inv, TypeOK, Tables, Present
<1>3. u[n].id = users[n].id /\ u[n].pw = users[n].pw /\ u[n].version = users[n].version
      /\ u[n].reset = users[n].reset
  BY <1>1, AbsentIsNoAccount DEF Keeps
<1> QED BY <1>1, <1>2, <1>3 DEF Kept

LEMMA KeepsLawful ==
    ASSUME Inv, NEW u \in Tables, users' = Saved(u), NEW n \in Names, Keeps(n, u[n])
    PROVE  Lawful(n)
BY KeepsKept DEF Lawful

LEMMA UsersKeep == Inv => users \in Tables /\ \A n \in Names : Keeps(n, users[n])
BY TableIs DEF Keeps, Present, Inv, TypeOK, Tables

\* A table that differs from users in the record of one name.
LEMMA OneRecord ==
    ASSUME Inv, NEW n \in Names, NEW r \in Accounts \cup {Absent}
    PROVE  /\ [users EXCEPT ![n] = r] \in Tables
           /\ [users EXCEPT ![n] = r][n] = r
           /\ \A x \in Names : x # n => Keeps(x, [users EXCEPT ![n] = r][x])
<1>1. users \in Tables /\ \A x \in Names : Keeps(x, users[x])
  BY UsersKeep
<1> QED BY <1>1 DEF Tables

LEMMA KeepingAll ==
    ASSUME Inv, users' = Saved(users), UNCHANGED <<cookies, serial>>
    PROVE  Table' /\ Jar'
<1>1. users' \in Tables /\ serial' \in 1..MaxSerial /\ serial <= serial'
  BY UsersKeep, SavedIs, SerialAssumption DEF Inv, TypeOK
<1> QED BY <1>1, UsersKeep, KeepsLawful, LawfulWrite

LEMMA KeepingSame ==
    ASSUME Inv, UNCHANGED <<users, cookies, serial>>
    PROVE  Table' /\ Jar'
BY TableOfInv DEF Table, Jar, Dated, Honest, Identified, Present

\* The write of one record, of which the table knows only that it is lawful.
LEMMA OneWrite ==
    ASSUME Inv, NEW n \in Names, NEW u \in Tables, users' = Saved(u), Lawful(n),
           \A x \in Names : x # n => Keeps(x, u[x]),
           serial' \in 1..MaxSerial, serial <= serial', UNCHANGED cookies
    PROVE  Table' /\ Jar'
<1>1. users' \in Tables
  BY SavedIs
<1>2. \A x \in Names : Lawful(x)
  BY KeepsLawful
<1> QED BY <1>1, <1>2, LawfulWrite

LEMMA KeepingOne ==
    ASSUME Inv, NEW n \in Names, NEW r, Keeps(n, r), users' = Saved([users EXCEPT ![n] = r]),
           UNCHANGED <<cookies, serial>>
    PROVE  Table' /\ Jar'
<1> DEFINE u == [users EXCEPT ![n] = r]
<1>1. u \in Tables /\ u[n] = r /\ (\A x \in Names : x # n => Keeps(x, u[x])) /\ users' = Saved(u)
  BY OneRecord DEF Keeps
<1> HIDE DEF u
<1>2. Lawful(n)
  BY <1>1, KeepsLawful
<1>3. serial' \in 1..MaxSerial /\ serial <= serial'
  BY SerialAssumption DEF Inv, TypeOK
<1> QED BY <1>1, <1>2, <1>3, OneWrite

LEMMA AddingOne ==
    ASSUME Inv, NEW n \in Names, NEW p \in Passwords, serial < MaxSerial, serial' = serial + 1,
           users' = Saved([users EXCEPT ![n] = NewAccount(serial + 1, p)]), UNCHANGED cookies
    PROVE  Table' /\ Jar'
<1> DEFINE r == NewAccount(serial + 1, p)
           u == [users EXCEPT ![n] = r]
<1>1. serial \in Nat /\ 1 <= serial /\ serial <= serial' /\ serial' \in 1..MaxSerial
  BY SerialAssumption DEF Inv, TypeOK
<1>2. r \in Accounts /\ r.id = serial + 1 /\ r.version = 1 /\ r.reset = 0
  BY <1>1, SerialAssumption DEF NewAccount, Accounts
<1>3. users' = Saved([users EXCEPT ![n] = r])
  OBVIOUS
<1> HIDE DEF r
<1>4. u \in Tables /\ u[n] = r /\ (\A x \in Names : x # n => Keeps(x, u[x])) /\ users' = Saved(u)
  BY <1>2, <1>3, OneRecord
<1> HIDE DEF u
<1>5. ASSUME Present(n)'
      PROVE  /\ users'[n] \in Accounts /\ users'[n].version = 1 /\ users'[n].reset = 0
             /\ users'[n].id = serial + 1
  <2>1. /\ users'[n] \in Accounts
        /\ users'[n].id = IF r.id = 0 THEN 1 ELSE r.id
        /\ users'[n].version = r.version /\ users'[n].reset = r.reset
    BY <1>4, <1>5, WrittenRecord
  <2>2. r.id # 0
    BY <1>1, <1>2
  <2> QED BY <1>2, <2>1, <2>2
<1>6. Lawful(n)
  BY <1>5 DEF Lawful, Added
<1> QED BY <1>1, <1>4, <1>6, OneWrite

\* What a record of the same account must satisfy to be written.
Renews(n, r) ==
    /\ r \in Accounts /\ r.id = users[n].id
    /\ \/ r.version = users[n].version /\ r.pw = users[n].pw
       \/ r.version = users[n].version + 1
    /\ r.reset <= serial'
    /\ r.reset = 0 => r.version <= serial'
    /\ r.reset # 0 => r.version < r.reset

LEMMA RenewingOne ==
    ASSUME Inv, NEW n \in Names, NEW r, Present(n), Renews(n, r),
           serial' \in 1..MaxSerial, serial <= serial',
           users' = Saved([users EXCEPT ![n] = r]), UNCHANGED cookies
    PROVE  Table' /\ Jar'
<1> DEFINE u == [users EXCEPT ![n] = r]
<1>1. u \in Tables /\ u[n] = r /\ (\A x \in Names : x # n => Keeps(x, u[x])) /\ users' = Saved(u)
  BY OneRecord DEF Renews
<1> HIDE DEF u
<1>2. users[n] \in Accounts /\ users[n].id \in Nat /\ users[n].id <= serial
  BY UsersKeep, TableIs DEF Inv, Dated, Accounts, Present
<1>3. SUFFICES ASSUME Present(n)' PROVE users'[n] \in Accounts /\ Renewed(n)
  BY <1>1, OneWrite DEF Lawful
<1>4. /\ users'[n] \in Accounts
      /\ users'[n].id = IF users[n].id = 0 THEN 1 ELSE users[n].id
      /\ users'[n].pw = r.pw /\ users'[n].version = r.version /\ users'[n].reset = r.reset
  BY <1>1, <1>3, WrittenRecord DEF Renews
<1>5. Dated(n)'
  BY <1>2, <1>4, SerialGrows DEF Dated, Renews
<1>6. \/ users'[n].version = users[n].version /\ users'[n].pw = users[n].pw
      \/ users'[n].version = users[n].version + 1
  BY <1>4 DEF Renews
<1> QED BY <1>2, <1>4, <1>5, <1>6 DEF Renewed

\* A successful login: the write keeps everything, and the cookie carries
\* what the record holds.
LEMMA HandingCookie ==
    ASSUME Inv, NEW n \in Names, Present(n), users[n].id # 0,
           NEW u \in Tables, users' = Saved(u), \A x \in Names : Keeps(x, u[x]), UNCHANGED serial,
           cookies' = cookies \cup {[name |-> n, id |-> users[n].id, version |-> users[n].version,
                                      proved |-> [id |-> users[n].id, pw |-> users[n].pw]]}
    PROVE  Table' /\ Jar'
<1>1. users[n] \in Accounts /\ users[n].version \in Nat /\ users' \in Tables
      /\ serial' \in 1..MaxSerial /\ serial <= serial'
  BY UsersKeep, TableIs, SavedIs, SerialAssumption DEF Inv, TypeOK, Present, Accounts
<1>2. PICK k \in Cookies :
          /\ k.name = n /\ k.id = users[n].id /\ k.version = users[n].version
          /\ k.proved = [id |-> users[n].id, pw |-> users[n].pw]
          /\ cookies' = cookies \cup {k}
  <2> DEFINE k == [name |-> n, id |-> users[n].id, version |-> users[n].version,
                   proved |-> [id |-> users[n].id, pw |-> users[n].pw]]
  <2>1. k \in Cookies /\ k.name = n /\ k.id = users[n].id /\ k.version = users[n].version
        /\ k.proved = [id |-> users[n].id, pw |-> users[n].pw]
    BY <1>1 DEF Accounts, Cookies
  <2>2. cookies' = cookies \cup {k}
    OBVIOUS
  <2> HIDE DEF k
  <2> QED BY <2>1, <2>2
<1>3. cookies' = cookies \cup {k}
  BY <1>2
<1>4. \A x \in Names : Lawful(x)
  BY KeepsLawful
<1>5. \A x \in Names : Dated(x)' /\ (Present(x)' => users'[x].id # 0)
  BY <1>1, <1>4, LawfulDated, LawfulIdentified
<1>6. \A c \in cookies : c.name \in Names /\ Honest(c)'
  BY <1>1, <1>4, LawfulHonest DEF Inv, TypeOK, Cookies
<1>7. Honest(k)'
  <2>1. k.id <= serial'
    BY <1>2 DEF Inv, Dated
  <2>2. Present(n)' => users'[n].id = users[n].id /\ users'[n].version = users[n].version /\ users'[n].pw = users[n].pw
    <3>1. Keeps(n, u[n])
      OBVIOUS
    <3> QED BY <3>1, WrittenRecord, AbsentIsNoAccount DEF Keeps
  <2>3. Present(k.name)' /\ users'[k.name].id = k.id =>
           /\ k.version <= users'[k.name].version
           /\ k.version = users'[k.name].version =>
                 k.proved = [id |-> users'[k.name].id, pw |-> users'[k.name].pw]
    BY <1>1, <1>2, <2>2
  <2> QED BY <2>1, <2>3 DEF Honest
<1>8. Table'
  BY <1>1, <1>5 DEF Table
<1>9. cookies' \subseteq Cookies /\ \A c \in cookies' : Honest(c)'
  BY <1>2, <1>3, <1>6, <1>7 DEF Inv, TypeOK
<1>10. Identified'
  BY <1>5 DEF Identified
<1> QED BY <1>8, <1>9, <1>10 DEF Jar

-----------------------------------------------------------------------------
(* The actions *)

Served == request \in [Threads -> Requests] /\ Waiting
Links ==
    /\ outbox \subseteq 1..MaxSerial /\ chat \subseteq 1..MaxSerial
    /\ issued \subseteq [link : 1..MaxSerial, id : 1..MaxSerial]
    /\ expired \subseteq 1..MaxSerial /\ spent \subseteq 1..MaxSerial

LEMMA InvParts == Inv <=> Table /\ Jar /\ Served /\ Links
BY DEF Inv, TypeOK, Table, Jar, Served, Links, Waiting, Tables

LEMMA InvNext == Table' /\ Jar' /\ Served' /\ Links' => Inv'
BY DEF Inv, TypeOK, Table, Jar, Served, Links, Waiting, Tables

LEMMA ServedBy ==
    ASSUME Inv, NEW t \in Threads, NEW r \in Requests, Serves(t, r), r.op = "verify" => r.seen.id # 0
    PROVE  Served'
BY TableOfInv, ServesIs DEF Inv, Served

LEMMA ServedToEnd ==
    ASSUME Inv, NEW t \in Threads, Ends(t)
    PROVE  Served'
BY TableOfInv, EndsIs DEF Inv, Served

LEMMA ServedAsBefore ==
    ASSUME Inv, UNCHANGED request
    PROVE  Served'
BY InvParts DEF Served, Waiting

LEMMA LinksKept ==
    ASSUME Inv, UNCHANGED <<outbox, chat, expired, issued, spent>>
    PROVE  Links'
BY InvParts DEF Links

LEMMA RecordOf ==
    ASSUME Inv, NEW n \in Names, Present(n)
    PROVE  /\ users[n] \in Accounts /\ users[n].id \in 0..MaxSerial
           /\ users[n].version \in 1..MaxSerial /\ users[n].reset \in 0..MaxSerial
BY UsersKeep, TableIs DEF Present, Accounts

LEMMA LoginReads ==
    ASSUME Inv, NEW t \in Threads, NEW n \in Names, NEW p \in Passwords, LoginRead(t, n, p)
    PROVE  Inv'
<1>1. users[n] \in Accounts
  BY RecordOf DEF LoginRead
<1>2. Served'
  <2>1. CASE users[n].id = 0
    <3>1. Serves(t, [op |-> "identify", name |-> n, pw |-> p, seen |-> users[n]])
      BY <2>1 DEF LoginRead
    <3>2. [op |-> "identify", name |-> n, pw |-> p, seen |-> users[n]] \in Requests
      BY <1>1 DEF Requests
    <3> QED BY <3>1, <3>2, ServedBy
  <2>2. CASE users[n].id # 0
    <3>1. Serves(t, [op |-> "verify", name |-> n, pw |-> p, seen |-> users[n]])
      BY <2>2 DEF LoginRead
    <3>2. [op |-> "verify", name |-> n, pw |-> p, seen |-> users[n]] \in Requests
      BY <1>1 DEF Requests
    <3> QED BY <2>2, <3>1, <3>2, ServedBy
  <2> QED BY <2>1, <2>2
<1> QED BY <1>2, KeepingSame, LinksKept, InvNext DEF LoginRead

LEMMA LoginIdentifies ==
    ASSUME Inv, NEW t \in Threads, LoginIdentify(t)
    PROVE  Inv'
<1> DEFINE r == request[t]
<1>1. r \in [op : {"identify", "verify"}, name : Names, pw : Passwords, seen : Accounts] /\ r.name \in Names
  BY LoginRequest DEF LoginIdentify, Inv
<1>2. Served'
  <2>1. CASE Present(r.name)
    <3>1. Saved(users)[r.name] \in Accounts /\ Saved(users)[r.name].id # 0
      <4>1. Saved(users)[r.name] = Normalized(users[r.name]) /\ users[r.name] \in Accounts
        BY <1>1, <2>1, UsersKeep, SavedIs, RecordOf DEF Present
      <4> QED BY <4>1, NormalizedIs
    <3> DEFINE w == [r EXCEPT !.op = "verify", !.seen = Saved(users)[r.name]]
    <3>2. w \in Requests /\ w.seen.id # 0
      BY <1>1, <3>1 DEF Requests
    <3>3. Serves(t, w)
      BY <2>1 DEF LoginIdentify
    <3> QED BY <3>2, <3>3, ServedBy
  <2>2. CASE ~Present(r.name)
    BY <2>2, ServedToEnd DEF LoginIdentify
  <2> QED BY <2>1, <2>2
<1> QED BY <1>2, KeepingAll, LinksKept, InvNext DEF LoginIdentify

\* The verified record: what was read then is what the table holds now.
LEMMA LoginVerifies ==
    ASSUME Inv, NEW t \in Threads, LoginVerify(t)
    PROVE  Inv'
<1> DEFINE r == request[t]
           n == r.name
<1>1. n \in Names /\ r.pw \in Passwords /\ r.seen \in Accounts /\ r.seen.id # 0
  BY LoginRequest DEF LoginVerify, Inv
<1>2. Served' /\ Links'
  BY ServedToEnd, LinksKept DEF LoginVerify
<1>3. CASE r.pw = r.seen.pw /\ SameAccount(r)
  <2>1. /\ Present(n) /\ users[n].id = r.seen.id /\ users[n].pw = r.pw
        /\ users[n] \in Accounts
    BY <1>1, <1>3, RecordOf DEF SameAccount
  <2>2. UNCHANGED serial
    BY DEF LoginVerify
  <2>3. cookies' = cookies \cup {[name |-> n, id |-> users[n].id, version |-> users[n].version,
                                   proved |-> [id |-> users[n].id, pw |-> users[n].pw]]}
    BY <1>3, <2>1 DEF LoginVerify
  <2>4. CASE r.seen.salted
    <3>1. users' = Saved(users)
      BY <1>3, <2>4 DEF LoginVerify
    <3> QED BY <1>1, <1>2, <2>1, <2>2, <2>3, <3>1, UsersKeep, HandingCookie, InvNext
  <2>5. CASE ~r.seen.salted
    <3> DEFINE k == [users[n] EXCEPT !.pw = r.pw, !.salted = TRUE]
               u == [users EXCEPT ![n] = k]
    <3>1. users' = Saved(u)
      BY <1>3, <2>5 DEF LoginVerify
    <3>2. Keeps(n, k) /\ k \in Accounts
      BY <1>1, <2>1 DEF Keeps, Accounts
    <3> HIDE DEF k
    <3>3. u \in Tables /\ \A x \in Names : Keeps(x, u[x])
      BY <1>1, <3>2, OneRecord
    <3> HIDE DEF u
    <3> QED BY <1>1, <1>2, <2>1, <2>2, <2>3, <3>1, <3>3, HandingCookie, InvNext
  <2> QED BY <2>4, <2>5
<1>4. CASE ~(r.pw = r.seen.pw /\ SameAccount(r))
  BY <1>2, <1>4, KeepingAll, KeepingSame, InvNext DEF LoginVerify
<1> QED BY <1>3, <1>4

LEMMA Registers ==
    ASSUME Inv, NEW t \in Threads, NEW n \in Names, NEW p \in Passwords, Register(t, n, p)
    PROVE  Inv'
<1>1. serial + 1 \in 1..MaxSerial
  BY SerialAssumption DEF Register, Inv, TypeOK
<1>2. [op |-> "notify", name |-> n, token |-> serial + 1] \in Requests
  BY <1>1 DEF Requests
<1>3. Served'
  BY <1>2, ServedBy DEF Register
<1>4. Table' /\ Jar'
  BY AddingOne DEF Register
<1> QED BY <1>3, <1>4, LinksKept, InvNext DEF Register

LEMMA Notifies ==
    ASSUME Inv, NEW t \in Threads, Notify(t)
    PROVE  Inv'
<1> DEFINE r == request[t]
<1>1. r \in [op : {"notify", "rollback"}, name : Names, token : 1..MaxSerial] /\ r.token \in 1..MaxSerial
  BY NoticeRequest DEF Notify, Inv
<1>2. Served'
  <2>1. [r EXCEPT !.op = "rollback"] \in Requests /\ [r EXCEPT !.op = "rollback"].op # "verify"
    BY <1>1 DEF Requests
  <2> QED BY <2>1, ServedBy, ServedToEnd DEF Notify
<1>3. Links'
  BY <1>1, InvParts DEF Notify, Links
<1> QED BY <1>2, <1>3, KeepingSame, InvNext DEF Notify

LEMMA AbsentKeeps == \A n \in Names : Keeps(n, Absent)
BY DEF Keeps

LEMMA RollsBack ==
    ASSUME Inv, NEW t \in Threads, Rollback(t)
    PROVE  Inv'
<1> DEFINE r == request[t]
<1>1. r.name \in Names
  BY NoticeRequest DEF Rollback, Inv
<1>2. Table' /\ Jar'
  BY <1>1, AbsentKeeps, KeepingAll, KeepingOne DEF Rollback
<1> QED BY <1>2, ServedToEnd, LinksKept, InvNext DEF Rollback

LEMMA Delivers ==
    ASSUME Inv, NEW k \in outbox, Deliver(k)
    PROVE  Inv'
<1>1. Links'
  BY InvParts DEF Deliver, Links
<1> QED BY <1>1, KeepingSame, ServedAsBefore, InvNext DEF Deliver

\* The write of a record with other flags.
LEMMA FlagsKeep ==
    ASSUME Inv, NEW n \in Names, Present(n)
    PROVE  /\ Keeps(n, [users[n] EXCEPT !.approved = TRUE, !.token = 0])
           /\ Keeps(n, [users[n] EXCEPT !.revoking = TRUE, !.approved = FALSE, !.token = 0])
<1>1. users[n] \in Accounts /\ 0 \in 0..MaxSerial
  BY RecordOf, SerialAssumption
<1> QED BY <1>1 DEF Keeps, Accounts

LEMMA Presses ==
    ASSUME Inv, NEW k, NEW verdict, Press(k, verdict)
    PROVE  Inv'
<1>1. PICK n \in Names :
          /\ Present(n)
          /\ users' = Saved(IF verdict = "approve"
                            THEN [users EXCEPT ![n] = [@ EXCEPT !.approved = TRUE, !.token = 0]]
                            ELSE [users EXCEPT ![n] = Absent])
  BY DEF Press
<1>2. UNCHANGED <<cookies, serial>>
  BY DEF Press
<1>3. Table' /\ Jar'
  <2> DEFINE r == [users[n] EXCEPT !.approved = TRUE, !.token = 0]
  <2>1. Keeps(n, r)
    BY <1>1, FlagsKeep
  <2>2. CASE verdict = "approve"
    <3>1. users' = Saved([users EXCEPT ![n] = r])
      BY <1>1, <2>2
    <3> HIDE DEF r
    <3> QED BY <1>2, <2>1, <3>1, KeepingOne
  <2>3. CASE verdict # "approve"
    BY <1>1, <1>2, <2>3, AbsentKeeps, KeepingOne
  <2> QED BY <2>2, <2>3
<1> QED BY <1>3, ServedAsBefore, LinksKept, InvNext DEF Press

LEMMA AdminApproves ==
    ASSUME Inv, NEW n \in Names, AdminApprove(n)
    PROVE  Inv'
<1> DEFINE r == [users[n] EXCEPT !.approved = TRUE, !.token = 0]
<1>1. Keeps(n, r) /\ users' = Saved([users EXCEPT ![n] = r]) /\ UNCHANGED <<cookies, serial>>
  BY FlagsKeep DEF AdminApprove
<1> HIDE DEF r
<1> QED BY <1>1, KeepingOne, ServedAsBefore, LinksKept, InvNext DEF AdminApprove

LEMMA DeletionBegins ==
    ASSUME Inv, NEW n \in Names, DeleteBegin(n)
    PROVE  Inv'
<1> DEFINE r == [users[n] EXCEPT !.revoking = TRUE, !.approved = FALSE, !.token = 0]
<1>1. Keeps(n, r) /\ users' = Saved([users EXCEPT ![n] = r]) /\ UNCHANGED <<cookies, serial>>
  BY FlagsKeep DEF DeleteBegin
<1> HIDE DEF r
<1> QED BY <1>1, KeepingOne, ServedAsBefore, LinksKept, InvNext DEF DeleteBegin

LEMMA DeletionEnds ==
    ASSUME Inv, NEW n \in Names, DeleteEnd(n)
    PROVE  Inv'
BY AbsentKeeps, KeepingOne, ServedAsBefore, LinksKept, InvNext DEF DeleteEnd

\* A new link is newer than the version it may raise.
LEMMA Forgets ==
    ASSUME Inv, NEW n \in Names, Forgot(n)
    PROVE  Inv'
<1> DEFINE r == [users[n] EXCEPT !.reset = serial + 1]
<1>1. /\ users[n] \in Accounts /\ users[n].version \in Nat /\ users[n].reset \in Nat
      /\ Present(n) /\ Dated(n) /\ serial \in Nat /\ serial' = serial + 1
      /\ serial + 1 \in 1..MaxSerial /\ serial' \in 1..MaxSerial /\ serial <= serial'
  BY RecordOf, SerialAssumption DEF Forgot, Inv, TypeOK
<1>2. users[n].version < serial + 1
  BY <1>1 DEF Dated
<1>3. /\ r \in Accounts /\ r.id = users[n].id /\ r.version = users[n].version
      /\ r.pw = users[n].pw /\ r.reset = serial + 1
  BY <1>1, SerialAssumption DEF Accounts
<1>4. users' = Saved([users EXCEPT ![n] = r]) /\ UNCHANGED cookies
  BY DEF Forgot
<1> HIDE DEF r
<1>5. Renews(n, r)
  BY <1>1, <1>2, <1>3 DEF Renews
<1>6. Table' /\ Jar'
  BY <1>1, <1>4, <1>5, RenewingOne
<1>7. users'[n].id \in 1..MaxSerial
  <2>1. users'[n] = Normalized(r)
    BY <1>3, <1>4, OneRecord, SavedIs, AbsentIsNoAccount
  <2> QED BY <1>3, <2>1, NormalizedIs, SerialAssumption DEF Accounts
<1>8. Links'
  BY <1>1, <1>7, InvParts DEF Links, Forgot
<1> QED BY <1>6, <1>8, ServedAsBefore, InvNext DEF Forgot

LEMMA Expires ==
    ASSUME Inv, NEW i \in issued, Expire(i.link)
    PROVE  Inv'
<1>1. Links'
  BY InvParts DEF Expire, Links
<1> QED BY <1>1, KeepingSame, ServedAsBefore, InvNext DEF Expire

LEMMA ResetFinds ==
    ASSUME Inv, NEW t \in Threads, NEW i \in issued, NEW p \in Passwords, ResetFind(t, i.link, p)
    PROVE  Inv'
<1>1. i.link \in 1..MaxSerial
  BY DEF Inv, TypeOK
<1>2. PICK n \in Names : Serves(t, [op |-> "reset", name |-> n, pw |-> p, link |-> i.link])
  BY DEF ResetFind
<1>3. Served'
  <2> DEFINE r == [op |-> "reset", name |-> n, pw |-> p, link |-> i.link]
  <2>1. r \in Requests /\ r.op = "reset" /\ Serves(t, r)
    BY <1>1, <1>2 DEF Requests
  <2> HIDE DEF r
  <2> QED BY <2>1, ServedBy
<1> QED BY <1>3, KeepingSame, LinksKept, InvNext DEF ResetFind

\* The link was newer than the version, so the next version is not newer
\* than the serial.
LEMMA ResetApplies ==
    ASSUME Inv, NEW t \in Threads, ResetApply(t)
    PROVE  Inv'
<1> DEFINE q == request[t]
           n == q.name
           r == Reset(users[n], q.pw)
<1>1. n \in Names /\ q.pw \in Passwords /\ q.link \in 1..MaxSerial
  BY ResetRequest DEF ResetApply, Inv
<1>2. Links'
  BY <1>1, InvParts DEF Links, ResetApply
<1>3. CASE users' = Saved(users)
  BY <1>2, <1>3, KeepingAll, ServedToEnd, InvNext DEF ResetApply
<1>4. CASE /\ Present(n) /\ users[n].reset = q.link
           /\ users' = Saved([users EXCEPT ![n] = r])
  <2>1. /\ users[n] \in Accounts /\ users[n].version \in Nat /\ users[n].reset \in Nat
        /\ users[n].version < users[n].reset /\ users[n].reset <= serial
        /\ serial \in 1..MaxSerial /\ serial \in Nat /\ serial <= MaxSerial
    BY <1>1, <1>4, RecordOf, SerialAssumption DEF Inv, TypeOK, Dated
  <2>2. users[n].version + 1 \in 1..MaxSerial /\ users[n].version + 1 <= serial
    BY <2>1, SerialAssumption
  <2>3. /\ r \in Accounts /\ r.id = users[n].id /\ r.reset = 0
        /\ r.version = users[n].version + 1
    <3> DEFINE v == users[n].version + 1
    <3>1. r = [users[n] EXCEPT !.pw = q.pw, !.salted = TRUE, !.version = v, !.reset = 0]
      BY DEF Reset
    <3>2. v \in 1..MaxSerial /\ 0 \in 0..MaxSerial
      BY <2>2, SerialAssumption
    <3> HIDE DEF r, v
    <3>3. /\ r \in Accounts /\ r.id = users[n].id /\ r.reset = 0 /\ r.version = v
      BY <1>1, <2>1, <3>1, <3>2 DEF Accounts
    <3> QED BY <3>3 DEF v
  <2>4. serial' \in 1..MaxSerial /\ serial <= serial' /\ serial' = serial /\ UNCHANGED cookies
    BY <2>1 DEF ResetApply
  <2> HIDE DEF r
  <2>5. Renews(n, r)
    BY <2>1, <2>2, <2>3, <2>4 DEF Renews
  <2>6. Table' /\ Jar'
    BY <1>1, <1>4, <2>4, <2>5, RenewingOne
  <2> QED BY <1>2, <2>6, ServedToEnd, InvNext DEF ResetApply
<1> QED BY <1>3, <1>4 DEF ResetApply

LEMMA Restarts ==
    ASSUME Inv, Crash
    PROVE  Inv'
<1>1. Served'
  BY DEF Crash, Served, Waiting, Idle, Requests
<1>2. Links'
  BY InvParts DEF Crash, Links
<1> QED BY <1>1, <1>2, KeepingSame, InvNext DEF Crash

LEMMA InvStep ==
    ASSUME Inv, [Next]_vars
    PROVE  Inv'
<1>1. CASE UNCHANGED vars
  BY <1>1, KeepingSame, ServedAsBefore, LinksKept, InvNext DEF vars
<1>2. ASSUME NEW t \in Threads, Thread(t) PROVE Inv'
  <2>1. CASE \E n \in Names, p \in Passwords : LoginRead(t, n, p) \/ Register(t, n, p)
    BY <2>1, LoginReads, Registers
  <2>2. CASE \E k \in {i.link : i \in issued}, p \in Passwords : ResetFind(t, k, p)
    BY <2>2, ResetFinds
  <2>3. CASE LoginIdentify(t)
    BY <2>3, LoginIdentifies
  <2>4. CASE LoginVerify(t)
    BY <2>4, LoginVerifies
  <2>5. CASE Notify(t)
    BY <2>5, Notifies
  <2>6. CASE Rollback(t)
    BY <2>6, RollsBack
  <2>7. CASE ResetApply(t)
    BY <2>7, ResetApplies
  <2>8. CASE Dies(t)
    BY <2>8, KeepingSame, ServedToEnd, LinksKept, InvNext DEF Dies
  <2> QED BY <1>2, <2>1, <2>2, <2>3, <2>4, <2>5, <2>6, <2>7, <2>8 DEF Thread
<1>3. CASE Others
  <2>1. CASE \E k \in outbox : Deliver(k)
    BY <2>1, Delivers
  <2>2. CASE \E k \in chat, verdict \in {"approve", "reject"} : Press(k, verdict)
    BY <2>2, Presses
  <2>3. CASE \E n \in Names : AdminApprove(n) \/ DeleteBegin(n) \/ DeleteEnd(n) \/ Forgot(n)
    BY <2>3, AdminApproves, DeletionBegins, DeletionEnds, Forgets
  <2>4. CASE \E i \in issued : Expire(i.link)
    BY <2>4, Expires
  <2>5. CASE Crash
    BY <2>5, Restarts
  <2> QED BY <1>3, <2>1, <2>2, <2>3, <2>4, <2>5 DEF Others
<1> QED BY <1>1, <1>2, <1>3 DEF Next

LEMMA InvInit == Init => Inv
<1> SUFFICES ASSUME Init PROVE Inv
  OBVIOUS
<1>1. PICK p \in Passwords :
          users = [n \in Names |->
                     IF n \in Legacy THEN [NewAccount(0, p) EXCEPT !.salted = FALSE, !.approved = TRUE]
                                     ELSE Absent]
  BY DEF Init
<1> DEFINE r == [NewAccount(0, p) EXCEPT !.salted = FALSE, !.approved = TRUE]
<1>2. /\ r \in Accounts /\ r.id = 0 /\ r.version = 1 /\ r.reset = 0
  <2>1. 0 \in 0..MaxSerial /\ 1 \in 1..MaxSerial
    BY SerialAssumption
  <2> DEFINE f == NewAccount(0, p)
  <2>2. f \in Accounts /\ f.id = 0 /\ f.version = 1 /\ f.reset = 0
    BY <2>1 DEF NewAccount, Accounts
  <2> HIDE DEF f
  <2>3. r = [f EXCEPT !.salted = FALSE, !.approved = TRUE]
    BY DEF f
  <2> HIDE DEF r
  <2> QED BY <2>2, <2>3 DEF Accounts
<1>3. users = [n \in Names |-> IF n \in Legacy THEN r ELSE Absent]
  BY <1>1
<1> HIDE DEF r
<1>4. users \in Tables /\ \A n \in Names : Present(n) => users[n] = r
  BY <1>2, <1>3 DEF Tables, Present
<1>5. serial = 1 /\ serial \in 1..MaxSerial /\ cookies = {}
  BY SerialAssumption DEF Init
<1>6. \A n \in Names : Dated(n)
  BY <1>2, <1>4, <1>5 DEF Dated
<1>7. Table /\ Jar
  BY <1>4, <1>5, <1>6 DEF Table, Jar
<1>8. Served
  BY DEF Init, Served, Waiting, Idle, Requests
<1>9. Links
  BY DEF Init, Links
<1> QED BY <1>7, <1>8, <1>9, InvParts

-----------------------------------------------------------------------------
(* Links and tokens *)

\* A record's link was made for it, is nobody else's and not used up; and a
\* token means that the account waits for approval.
Linked(n) ==
    Present(n) /\ users[n].reset # 0 =>
        /\ users[n].reset \notin spent
        /\ \E i \in issued : i.link = users[n].reset /\ i.id = users[n].id
        /\ \A x \in Names : Present(x) /\ users[x].reset = users[n].reset => x = n

Waits(n) == Present(n) /\ users[n].token # 0 => ~users[n].approved

LinkInv ==
    /\ Inv
    /\ \A n \in Names : Linked(n) /\ Waits(n)
    /\ \A k \in spent : k <= serial

\* A normalised write of which only the record of n may show.
Spares(n) ==
    /\ \A x \in Names : Waits(x)'
    /\ \A x \in Names : x # n => (Present(x)' <=> Present(x)) /\ (Present(x)' => Kept(x))

\* RemovalsAreOwn for one name.
Removable(n) ==
    \/ users[n].revoking
    \/ /\ ~users[n].approved
       /\ \/ users[n].token \in chat
          \/ \E t \in Threads : request[t].op = "rollback" /\ request[t].token = users[n].token

KeepsOrRemoves(n) ==
    /\ UNCHANGED <<serial, issued, spent>>
    /\ Present(n)' => Kept(n)
    /\ Present(n) /\ ~Present(n)' => Removable(n)
AddsAccount(n) == ~Present(n) /\ Added(n) /\ UNCHANGED <<issued, spent>>
SameId(n) == Present(n) /\ users[n] \in Accounts /\ users'[n].id = IF users[n].id = 0 THEN 1 ELSE users[n].id
MakesLink(n) ==
    /\ SameId(n) /\ Present(n)' /\ users'[n].pw = users[n].pw /\ users'[n].reset = serial + 1
    /\ serial' = serial + 1 /\ UNCHANGED spent
    /\ issued' = issued \cup {[link |-> serial + 1, id |-> users'[n].id]}
SpendsLink(n) ==
    /\ SameId(n) /\ Present(n)' /\ users[n].reset # 0 /\ users'[n].reset = 0
    /\ spent' = spent \cup {users[n].reset} /\ UNCHANGED <<serial, issued>>

Writes(n) == Spares(n) /\ (KeepsOrRemoves(n) \/ AddsAccount(n) \/ MakesLink(n) \/ SpendsLink(n))

\* A step leaves users.json alone or writes one record as above.
Shape == UNCHANGED <<users, serial, issued, spent>> \/ \E n \in Names : Writes(n)

LEMMA WrittenPresence ==
    ASSUME NEW u \in Tables, users' = Saved(u), NEW n \in Names
    PROVE  Present(n)' <=> u[n] # Absent
<1>1. u[n] # Absent => users'[n] \in Accounts
  BY SavedIs, TableIs, NormalizedIs
<1> QED BY <1>1, SavedIs, AbsentIsNoAccount DEF Present

LEMMA WrittenWaits ==
    ASSUME NEW u \in Tables, users' = Saved(u), NEW n \in Names
    PROVE  Waits(n)'
<1> SUFFICES ASSUME Present(n)', users'[n].token # 0
             PROVE  ~users'[n].approved
  BY DEF Waits
<1> DEFINE r == u[n]
<1>1. r \in Accounts /\ users'[n] = Normalized(r)
  BY WrittenPresence, SavedIs, TableIs
<1> HIDE DEF r
<1>2. /\ Normalized(r).approved = (r.approved /\ ~r.revoking)
      /\ Normalized(r).token = IF r.revoking \/ r.approved THEN 0 ELSE r.token
  BY <1>1 DEF Normalized, Accounts
<1>3. ~r.approved
  BY <1>1, <1>2
<1> QED BY <1>1, <1>2, <1>3

LEMMA OneSpares ==
    ASSUME Inv, NEW n \in Names, NEW r \in Accounts \cup {Absent}, users' = Saved([users EXCEPT ![n] = r])
    PROVE  /\ Spares(n) /\ (Present(n)' <=> r # Absent)
           /\ Keeps(n, r) /\ Present(n)' => Kept(n)
<1> DEFINE u == [users EXCEPT ![n] = r]
<1>1. u \in Tables /\ u[n] = r /\ (\A x \in Names : x # n => Keeps(x, u[x]) /\ u[x] = users[x])
      /\ users' = Saved(u)
  BY OneRecord DEF Inv, TypeOK
<1> HIDE DEF u
<1>2. \A x \in Names : Present(x)' <=> u[x] # Absent
  BY <1>1, WrittenPresence
<1>3. \A x \in Names : Keeps(x, u[x]) /\ Present(x)' => Kept(x)
  BY <1>1, KeepsKept
<1>4. \A x \in Names : Waits(x)'
  BY <1>1, WrittenWaits
<1> QED BY <1>1, <1>2, <1>3, <1>4 DEF Spares, Present

LEMMA KeptRecordWritten ==
    ASSUME Inv, NEW n \in Names, NEW r, r # Absent, Keeps(n, r), users' = Saved([users EXCEPT ![n] = r]),
           UNCHANGED <<serial, issued, spent>>
    PROVE  Writes(n)
<1>1. r \in Accounts \cup {Absent}
  BY DEF Keeps
<1>2. Spares(n) /\ Present(n)' /\ (Present(n)' => Kept(n))
  BY <1>1, OneSpares
<1> QED BY <1>2 DEF Writes, KeepsOrRemoves

LEMMA AbsentWritten ==
    ASSUME Inv, NEW n \in Names, users' = Saved([users EXCEPT ![n] = Absent]), Removable(n),
           UNCHANGED <<serial, issued, spent>>
    PROVE  Writes(n)
<1>1. Spares(n) /\ ~Present(n)'
  BY OneSpares
<1> QED BY <1>1 DEF Writes, KeepsOrRemoves

LEMMA AllWritten ==
    ASSUME Inv, NEW n \in Names, users' = Saved(users), UNCHANGED <<serial, issued, spent>>
    PROVE  Writes(n)
<1>1. users \in Tables /\ \A x \in Names : Keeps(x, users[x])
  BY UsersKeep
<1>2. \A x \in Names : (Present(x)' <=> Present(x)) /\ (Present(x)' => Kept(x))
  BY <1>1, WrittenPresence, KeepsKept DEF Present
<1>3. \A x \in Names : Waits(x)'
  BY <1>1, WrittenWaits
<1> QED BY <1>2, <1>3 DEF Writes, Spares, KeepsOrRemoves

LEMMA LoginShape ==
    ASSUME Inv, NEW t \in Threads, LoginVerify(t)
    PROVE  Shape
<1> DEFINE r == request[t]
           n == r.name
           k == [users[n] EXCEPT !.pw = r.pw, !.salted = TRUE]
<1>1. n \in Names /\ r.pw \in Passwords /\ UNCHANGED <<serial, issued, spent>>
  BY LoginRequest DEF LoginVerify, Inv
<1>2. CASE users' = users \/ users' = Saved(users)
  BY <1>1, <1>2, AllWritten DEF Shape
<1>3. CASE r.pw = r.seen.pw /\ SameAccount(r) /\ users' = Saved([users EXCEPT ![n] = k])
  <2>1. users[n].pw = r.pw /\ users[n] \in Accounts /\ Present(n)
    BY <1>1, <1>3, RecordOf DEF SameAccount
  <2>2. Keeps(n, k) /\ k \in Accounts
    BY <1>1, <2>1 DEF Keeps, Accounts
  <2>3. users' = Saved([users EXCEPT ![n] = k])
    BY <1>3
  <2> HIDE DEF k
  <2> QED BY <1>1, <2>2, <2>3, KeptRecordWritten, AbsentIsNoAccount DEF Shape
<1> QED BY <1>2, <1>3 DEF LoginVerify

LEMMA RegisterShape ==
    ASSUME Inv, NEW t \in Threads, NEW n \in Names, NEW p \in Passwords, Register(t, n, p)
    PROVE  Shape
<1> DEFINE r == NewAccount(serial + 1, p)
<1>1. serial \in Nat /\ 1 <= serial /\ serial < MaxSerial /\ serial' = serial + 1
      /\ ~Present(n) /\ UNCHANGED <<issued, spent>>
  BY SerialAssumption DEF Register, Inv, TypeOK
<1>2. r \in Accounts /\ r.id = serial + 1 /\ r.version = 1 /\ r.reset = 0
  BY <1>1, SerialAssumption DEF NewAccount, Accounts
<1>3. users' = Saved([users EXCEPT ![n] = r])
  BY DEF Register
<1> HIDE DEF r
<1>4. Spares(n)
  BY <1>2, <1>3, OneSpares
<1>5. users'[n].id = serial + 1 /\ users'[n].version = 1 /\ users'[n].reset = 0
  <2>1. users'[n] = Normalized(r)
    BY <1>2, <1>3, OneRecord, SavedIs, AbsentIsNoAccount
  <2>2. r.id # 0
    BY <1>1, <1>2
  <2> QED BY <1>2, <2>1, <2>2, NormalizedIs
<1> QED BY <1>1, <1>4, <1>5 DEF Shape, Writes, AddsAccount, Added

LEMMA RollbackShape ==
    ASSUME LinkInv, NEW t \in Threads, Rollback(t)
    PROVE  Shape
<1> DEFINE r == request[t]
<1>1. Inv /\ r.name \in Names /\ r.token \in 1..MaxSerial /\ r.op = "rollback"
      /\ UNCHANGED <<serial, issued, spent>>
  BY NoticeRequest DEF Rollback, Inv, LinkInv
<1>2. CASE Present(r.name) /\ users[r.name].token = r.token
  <2>1. users[r.name].token # 0
    BY <1>1, <1>2, SerialAssumption
  <2>2. Removable(r.name)
    BY <1>1, <1>2, <2>1 DEF Removable, LinkInv, Waits
  <2> QED BY <1>1, <1>2, <2>2, AbsentWritten DEF Rollback, Shape
<1>3. CASE ~(Present(r.name) /\ users[r.name].token = r.token)
  BY <1>1, <1>3, AllWritten DEF Rollback, Shape
<1> QED BY <1>2, <1>3

LEMMA PressShape ==
    ASSUME Inv, NEW k \in chat, NEW verdict, Press(k, verdict)
    PROVE  Shape
<1>1. PICK n \in Names :
          /\ Present(n) /\ ~users[n].approved /\ users[n].token = k
          /\ users' = Saved(IF verdict = "approve"
                            THEN [users EXCEPT ![n] = [@ EXCEPT !.approved = TRUE, !.token = 0]]
                            ELSE [users EXCEPT ![n] = Absent])
  BY DEF Press
<1>2. UNCHANGED <<serial, issued, spent>>
  BY DEF Press
<1>3. Removable(n)
  BY <1>1 DEF Removable
<1> DEFINE r == [users[n] EXCEPT !.approved = TRUE, !.token = 0]
<1>4. Keeps(n, r) /\ r # Absent
  <2>1. users[n] \in Accounts /\ 0 \in 0..MaxSerial
    <3>1. Present(n)
      BY <1>1
    <3> QED BY <3>1, RecordOf, SerialAssumption
  <2>2. r \in Accounts
    BY <2>1 DEF Accounts
  <2>3. Present(n)
    BY <1>1
  <2> QED BY <2>1, <2>2, <2>3, FlagsKeep, AbsentIsNoAccount
<1>5. CASE verdict = "approve"
  <2>1. users' = Saved([users EXCEPT ![n] = r])
    BY <1>1, <1>5
  <2> HIDE DEF r
  <2> QED BY <1>2, <1>4, <2>1, KeptRecordWritten DEF Shape
<1>6. CASE verdict # "approve"
  BY <1>1, <1>2, <1>3, <1>6, AbsentWritten DEF Shape
<1> QED BY <1>5, <1>6

LEMMA AdminShape ==
    ASSUME Inv, NEW n \in Names, AdminApprove(n) \/ DeleteBegin(n)
    PROVE  Shape
<1>1. Present(n) /\ users[n] \in Accounts /\ 0 \in 0..MaxSerial /\ UNCHANGED <<serial, issued, spent>>
  BY RecordOf, SerialAssumption DEF AdminApprove, DeleteBegin
<1>2. CASE AdminApprove(n)
  <2> DEFINE r == [users[n] EXCEPT !.approved = TRUE, !.token = 0]
  <2>1. Keeps(n, r) /\ r \in Accounts /\ users' = Saved([users EXCEPT ![n] = r])
    BY <1>1, <1>2, FlagsKeep DEF AdminApprove, Accounts
  <2> HIDE DEF r
  <2> QED BY <1>1, <2>1, KeptRecordWritten, AbsentIsNoAccount DEF Shape
<1>3. CASE DeleteBegin(n)
  <2> DEFINE r == [users[n] EXCEPT !.revoking = TRUE, !.approved = FALSE, !.token = 0]
  <2>1. Keeps(n, r) /\ r \in Accounts /\ users' = Saved([users EXCEPT ![n] = r])
    BY <1>1, <1>3, FlagsKeep DEF DeleteBegin, Accounts
  <2> HIDE DEF r
  <2> QED BY <1>1, <2>1, KeptRecordWritten, AbsentIsNoAccount DEF Shape
<1> QED BY <1>2, <1>3

LEMMA ForgotShape ==
    ASSUME Inv, NEW n \in Names, Forgot(n)
    PROVE  Shape
<1> DEFINE r == [users[n] EXCEPT !.reset = serial + 1]
<1>1. /\ users[n] \in Accounts /\ Present(n) /\ serial \in Nat /\ serial' = serial + 1
      /\ serial + 1 \in 1..MaxSerial /\ UNCHANGED spent
      /\ issued' = issued \cup {[link |-> serial + 1, id |-> users'[n].id]}
  BY RecordOf, SerialAssumption DEF Forgot, Inv, TypeOK
<1>2. r \in Accounts /\ r.id = users[n].id /\ r.pw = users[n].pw /\ r.reset = serial + 1
  BY <1>1, SerialAssumption DEF Accounts
<1>3. users' = Saved([users EXCEPT ![n] = r])
  BY DEF Forgot
<1> HIDE DEF r
<1>4. Spares(n) /\ Present(n)'
  BY <1>2, <1>3, OneSpares, AbsentIsNoAccount
<1>5. users'[n] = Normalized(r)
  BY <1>2, <1>3, OneRecord, SavedIs, AbsentIsNoAccount
<1>6. /\ users'[n].id = (IF users[n].id = 0 THEN 1 ELSE users[n].id)
      /\ users'[n].pw = users[n].pw /\ users'[n].reset = serial + 1
  BY <1>2, <1>5, NormalizedIs
<1> QED BY <1>1, <1>4, <1>6 DEF Shape, Writes, MakesLink, SameId

LEMMA SpendingOne ==
    ASSUME Inv, NEW n \in Names, NEW p \in Passwords, Present(n), users[n].reset # 0,
           users' = Saved([users EXCEPT ![n] = Reset(users[n], p)]),
           spent' = spent \cup {users[n].reset}, UNCHANGED <<serial, issued>>
    PROVE  Writes(n)
<1> DEFINE v == users[n].version + 1
           r == Reset(users[n], p)
<1>1. users[n] \in Accounts /\ v \in 1..MaxSerial /\ 0 \in 0..MaxSerial
  <2>1. /\ users[n] \in Accounts /\ users[n].version \in Nat /\ users[n].reset \in Nat
        /\ users[n].version < users[n].reset /\ users[n].reset <= MaxSerial
    BY RecordOf, SerialAssumption DEF Inv, Dated
  <2> QED BY <2>1, SerialAssumption
<1>2. r \in Accounts /\ r.id = users[n].id /\ r.reset = 0
  <2>1. r = [users[n] EXCEPT !.pw = p, !.salted = TRUE, !.version = v, !.reset = 0]
    BY DEF Reset
  <2> HIDE DEF r, v
  <2> QED BY <1>1, <2>1 DEF Accounts
<1>3. users' = Saved([users EXCEPT ![n] = r])
  OBVIOUS
<1> HIDE DEF r, v
<1>4. Spares(n) /\ Present(n)'
  BY <1>2, <1>3, OneSpares, AbsentIsNoAccount
<1>5. users'[n] = Normalized(r)
  BY <1>2, <1>3, OneRecord, SavedIs, AbsentIsNoAccount
<1>6. users'[n].id = (IF users[n].id = 0 THEN 1 ELSE users[n].id) /\ users'[n].reset = 0
  BY <1>2, <1>5, NormalizedIs
<1> QED BY <1>1, <1>4, <1>6 DEF Writes, SpendsLink, SameId

LEMMA ResetShape ==
    ASSUME Inv, NEW t \in Threads, ResetApply(t)
    PROVE  Shape
<1>1. PICK n \in Names, p \in Passwords, k \in 1..MaxSerial :
          /\ UNCHANGED <<serial, issued>>
          /\ \/ /\ Present(n) /\ users[n].reset = k
                /\ users' = Saved([users EXCEPT ![n] = Reset(users[n], p)])
                /\ spent' = spent \cup {k}
             \/ users' = Saved(users) /\ UNCHANGED spent
  BY ResetRequest DEF ResetApply, Inv
<1>2. CASE users' = Saved(users) /\ UNCHANGED spent
  BY <1>1, <1>2, AllWritten DEF Shape
<1>3. CASE /\ Present(n) /\ users[n].reset = k
           /\ users' = Saved([users EXCEPT ![n] = Reset(users[n], p)])
           /\ spent' = spent \cup {k}
  <2>1. k # 0
    BY SerialAssumption
  <2>2. UNCHANGED <<serial, issued>>
    BY <1>1
  <2>3. Writes(n)
    BY <1>3, <2>1, <2>2, SpendingOne
  <2> QED BY <2>3 DEF Shape
<1> QED BY <1>1, <1>2, <1>3

LEMMA StepShape ==
    ASSUME LinkInv, [Next]_vars
    PROVE  Shape
<1>0. Inv
  BY DEF LinkInv
<1>1. CASE UNCHANGED vars
  BY <1>1 DEF vars, Shape
<1>2. ASSUME NEW t \in Threads, Thread(t) PROVE Shape
  <2>1. CASE \E n \in Names, p \in Passwords : LoginRead(t, n, p) \/ Register(t, n, p)
    BY <1>0, <2>1, RegisterShape DEF LoginRead, Shape
  <2>2. CASE \E k \in {i.link : i \in issued}, p \in Passwords : ResetFind(t, k, p)
    BY <2>2 DEF ResetFind, Shape
  <2>3. CASE LoginIdentify(t)
    <3>1. request[t].name \in Names
      BY <1>0, <2>3, LoginRequest DEF LoginIdentify, Inv
    <3> QED BY <1>0, <2>3, <3>1, AllWritten DEF LoginIdentify, Shape
  <2>4. CASE LoginVerify(t)
    BY <1>0, <2>4, LoginShape
  <2>5. CASE Notify(t) \/ Dies(t)
    BY <2>5 DEF Notify, Dies, Shape
  <2>6. CASE Rollback(t)
    BY <2>6, RollbackShape
  <2>7. CASE ResetApply(t)
    BY <1>0, <2>7, ResetShape
  <2> QED BY <1>2, <2>1, <2>2, <2>3, <2>4, <2>5, <2>6, <2>7 DEF Thread
<1>3. CASE Others
  <2>1. CASE \E k \in outbox : Deliver(k)
    BY <2>1 DEF Deliver, Shape
  <2>2. CASE \E k \in chat, verdict \in {"approve", "reject"} : Press(k, verdict)
    BY <1>0, <2>2, PressShape
  <2>3. CASE \E n \in Names : AdminApprove(n) \/ DeleteBegin(n) \/ DeleteEnd(n) \/ Forgot(n)
    <3>1. ASSUME NEW n \in Names, DeleteEnd(n) PROVE Shape
      BY <1>0, <3>1, AbsentWritten DEF DeleteEnd, Removable, Shape
    <3> QED BY <1>0, <2>3, <3>1, AdminShape, ForgotShape
  <2>4. CASE \E i \in issued : Expire(i.link)
    BY <2>4 DEF Expire, Shape
  <2>5. CASE Crash
    BY <2>5 DEF Crash, Shape
  <2> QED BY <1>3, <2>1, <2>2, <2>3, <2>4, <2>5 DEF Others
<1> QED BY <1>1, <1>2, <1>3 DEF Next

\* The link of a record that is kept remains its own.
LEMMA CarriedLink ==
    ASSUME LinkInv, NEW x \in Names, Present(x)', Kept(x), issued \subseteq issued',
           users[x].reset # 0 => users[x].reset \notin spent',
           \A y \in Names : Present(y)' /\ users'[y].reset = users[x].reset => y = x \/ Kept(y)
    PROVE  Linked(x)'
<1> SUFFICES ASSUME users'[x].reset # 0
             PROVE  /\ users'[x].reset \notin spent'
                    /\ \E i \in issued' : i.link = users'[x].reset /\ i.id = users'[x].id
                    /\ \A y \in Names : Present(y)' /\ users'[y].reset = users'[x].reset => y = x
  BY DEF Linked
<1>1. Present(x) /\ users'[x].reset = users[x].reset /\ users[x].reset # 0
  BY DEF Kept
<1>2. \A y \in Names : Present(y) /\ users[y].reset = users[x].reset => y = x
  BY <1>1 DEF LinkInv, Linked
<1>3. PICK i \in issued : i.link = users[x].reset /\ i.id = users[x].id
  BY <1>1 DEF LinkInv, Linked
<1>4. i.id # 0
  BY SerialAssumption DEF LinkInv, Inv, TypeOK
<1>5. users'[x].id = i.id
  BY <1>3, <1>4 DEF Kept
<1>6. ASSUME NEW y \in Names, Present(y)', users'[y].reset = users[x].reset
      PROVE  y = x
  <2>1. y = x \/ Kept(y)
    BY <1>6
  <2>2. Kept(y) => Present(y) /\ users[y].reset = users[x].reset
    BY <1>6 DEF Kept
  <2> QED BY <1>2, <2>1, <2>2
<1> QED BY <1>1, <1>3, <1>5, <1>6

LEMMA ResetBound ==
    ASSUME Inv, NEW n \in Names, Present(n)
    PROVE  users[n].reset \in Nat /\ serial \in Nat /\ users[n].reset <= serial
BY RecordOf, SerialAssumption DEF Inv, Dated, TypeOK

\* One step per kind of write.
LEMMA WriteLinks ==
    ASSUME LinkInv, NEW n \in Names, Writes(n)
    PROVE  (\A x \in Names : Linked(x)') /\ (\A k \in spent' : k <= serial')
<1>1. /\ Inv /\ serial \in Nat /\ (\A k \in spent : k <= serial /\ k \in Nat)
      /\ \A x \in Names : x # n /\ Present(x)' => Kept(x)
  BY SerialAssumption DEF LinkInv, Inv, TypeOK, Writes, Spares
<1>2. ASSUME NEW x \in Names, Kept(x), spent' = spent
      PROVE  users[x].reset # 0 => users[x].reset \notin spent'
  BY <1>2 DEF LinkInv, Linked, Kept
<1>3. CASE KeepsOrRemoves(n)
  <2>1. \A x \in Names : Present(x)' => Kept(x)
    BY <1>1, <1>3 DEF KeepsOrRemoves
  <2>2. issued' = issued /\ spent' = spent /\ serial' = serial
    BY <1>3 DEF KeepsOrRemoves
  <2>3. \A x \in Names : Linked(x)'
    <3>1. \A x \in Names : Present(x)' => Linked(x)'
      BY <1>2, <2>1, <2>2, CarriedLink
    <3> QED BY <3>1 DEF Linked
  <2> QED BY <1>1, <2>2, <2>3
<1>4. CASE AddsAccount(n)
  <2>1. users'[n].reset = 0 /\ issued' = issued /\ spent' = spent /\ serial' = serial + 1
    BY <1>4 DEF AddsAccount, Added
  <2>2. Linked(n)'
    BY <2>1 DEF Linked
  <2>3. ASSUME NEW x \in Names, x # n, Present(x)'
        PROVE  Linked(x)'
    <3>1. Kept(x)
      BY <1>1, <2>3
    <3>2. CASE users[x].reset = 0
      BY <3>1, <3>2 DEF Kept, Linked
    <3>3. CASE users[x].reset # 0
      BY <1>1, <1>2, <2>1, <2>3, <3>1, <3>3, CarriedLink
    <3> QED BY <3>2, <3>3
  <2>4. \A x \in Names : Linked(x)'
    BY <2>2, <2>3 DEF Linked
  <2> QED BY <1>1, <2>1, <2>4
<1>5. CASE MakesLink(n)
  <2>1. /\ users'[n].reset = serial + 1 /\ spent' = spent /\ serial' = serial + 1
        /\ issued' = issued \cup {[link |-> serial + 1, id |-> users'[n].id]}
    BY <1>5 DEF MakesLink
  <2>2. \A x \in Names : Kept(x) => users[x].reset # serial + 1 /\ users'[x].reset # serial + 1
    BY <1>1, ResetBound DEF Kept
  <2>3. Linked(n)'
    <3>1. serial + 1 \notin spent'
      BY <1>1, <2>1
    <3>2. \E i \in issued' : i.link = serial + 1 /\ i.id = users'[n].id
      <4> DEFINE made == [link |-> serial + 1, id |-> users'[n].id]
      <4>1. made.link = serial + 1 /\ made.id = users'[n].id /\ made \in issued'
        BY <2>1
      <4> HIDE DEF made
      <4> QED BY <4>1
    <3>3. \A y \in Names : Present(y)' /\ users'[y].reset = serial + 1 => y = n
      BY <1>1, <2>2
    <3> QED BY <2>1, <3>1, <3>2, <3>3 DEF Linked
  <2>4. ASSUME NEW x \in Names, x # n, Present(x)'
        PROVE  Linked(x)'
    BY <1>1, <1>2, <2>1, <2>2, <2>4, CarriedLink
  <2>5. \A x \in Names : Linked(x)'
    BY <2>3, <2>4 DEF Linked
  <2> QED BY <1>1, <2>1, <2>5
<1>6. CASE SpendsLink(n)
  <2>1. /\ Present(n) /\ users[n].reset # 0 /\ users'[n].reset = 0
        /\ spent' = spent \cup {users[n].reset} /\ serial' = serial /\ issued' = issued
    BY <1>6 DEF SpendsLink, SameId
  <2>2. Linked(n)'
    BY <2>1 DEF Linked
  <2>3. ASSUME NEW x \in Names, x # n, Present(x)'
        PROVE  Linked(x)'
    <3>1. Kept(x) /\ Present(x)
      BY <1>1, <2>3 DEF Kept
    <3>2. CASE users[x].reset = 0
      BY <3>1, <3>2 DEF Kept, Linked
    <3>3. CASE users[x].reset # 0
      <4>1. users[x].reset # users[n].reset /\ users[x].reset \notin spent
        BY <2>1, <2>3, <3>1, <3>3 DEF LinkInv, Linked
      <4> QED BY <1>1, <2>1, <2>3, <3>1, <3>3, <4>1, CarriedLink
    <3> QED BY <3>2, <3>3
  <2>4. \A x \in Names : Linked(x)'
    BY <2>2, <2>3 DEF Linked
  <2>5. users[n].reset <= serial
    BY <1>1, <2>1, ResetBound
  <2> QED BY <1>1, <2>1, <2>4, <2>5
<1> QED BY <1>3, <1>4, <1>5, <1>6 DEF Writes

LEMMA LinkInit == Init => LinkInv
<1> SUFFICES ASSUME Init PROVE LinkInv
  OBVIOUS
<1>1. PICK p \in Passwords :
          users = [n \in Names |->
                     IF n \in Legacy THEN [NewAccount(0, p) EXCEPT !.salted = FALSE, !.approved = TRUE]
                                     ELSE Absent]
  BY DEF Init
<1>2. ASSUME NEW n \in Names, Present(n)
      PROVE  users[n].reset = 0 /\ users[n].token = 0
  BY <1>1, <1>2 DEF Present, NewAccount
<1>3. \A n \in Names : Linked(n) /\ Waits(n)
  BY <1>2 DEF Linked, Waits
<1>4. spent = {}
  BY DEF Init
<1> QED BY <1>3, <1>4, InvInit DEF LinkInv

LEMMA LinkStep == LinkInv /\ [Next]_vars => LinkInv'
<1> SUFFICES ASSUME LinkInv, [Next]_vars PROVE LinkInv'
  OBVIOUS
<1>1. Inv'
  BY InvStep DEF LinkInv
<1>2. CASE UNCHANGED <<users, serial, issued, spent>>
  BY <1>1, <1>2 DEF LinkInv, Linked, Waits, Present
<1>3. ASSUME NEW n \in Names, Writes(n)
      PROVE  LinkInv'
  <2>1. \A x \in Names : Waits(x)'
    BY <1>3 DEF Writes, Spares
  <2> QED BY <1>1, <1>3, <2>1, WriteLinks DEF LinkInv
<1> QED BY <1>2, <1>3, StepShape DEF Shape

-----------------------------------------------------------------------------
LEMMA AccountInv == Spec => []Inv
BY InvInit, InvStep, PTL DEF Spec

\* users.json, the requests, the queue and the cookies keep their types: in
\* particular no version passes the links that were drawn.
THEOREM AccountTypes == Spec => []TypeOK
<1>1. Inv => TypeOK
  BY DEF Inv
<1> QED BY <1>1, AccountInv, PTL

\* A session that _current_user accepts was opened for this account with the
\* password it has now, whatever logins, resets, deletions and registrations
\* of the name overlapped.
THEOREM GenuineSessions == Spec => []SessionsGenuine
<1>1. Inv => SessionsGenuine
  BY DEF Inv, SessionsGenuine, Honest, Accepted
<1> QED BY <1>1, AccountInv, PTL

LEMMA AccountLinks == Spec => []LinkInv
BY LinkInit, LinkStep, PTL DEF Spec

\* An account's password changes only by a reset link made for that account,
\* and a link that changed one changes none again.
THEOREM ResetsOwn == Spec => ResetsAreOwn
<1>1. ASSUME LinkInv, [Next]_vars, NEW n \in Names, SameRecord(n), users'[n].pw # users[n].pw
      PROVE  \E i \in issued : i.id = users[n].id /\ i.link \notin spent /\ i.link \in spent'
  <2>1. Present(n) /\ Present(n)'
    BY <1>1 DEF SameRecord, Present
  <2>2. ~Kept(n)
    BY <1>1 DEF Kept
  <2>3. PICK m \in Names : Writes(m)
    BY <1>1, StepShape DEF Shape
  <2>4. m = n
    BY <2>1, <2>2, <2>3 DEF Writes, Spares
  <2>5. SpendsLink(n)
    BY <1>1, <2>1, <2>2, <2>3, <2>4 DEF Writes, KeepsOrRemoves, AddsAccount, MakesLink
  <2>6. users[n].reset # 0 /\ users[n].reset \in spent'
    BY <2>5 DEF SpendsLink
  <2> QED BY <1>1, <2>1, <2>6 DEF LinkInv, Linked
<1>2. LinkInv /\ [Next]_vars =>
        [\A n \in Names : SameRecord(n) /\ users'[n].pw # users[n].pw =>
            \E i \in issued : i.id = users[n].id /\ i.link \notin spent /\ i.link \in spent']_vars
  BY <1>1
<1> QED BY <1>2, AccountLinks, PTL DEF Spec, ResetsAreOwn

\* A record goes only at the end of its own deletion, or, not yet approved, by
\* the button of its own message or the rollback of its own registration.
THEOREM RemovalsOwn == Spec => RemovalsAreOwn
<1>1. ASSUME LinkInv, [Next]_vars, NEW n \in Names, Present(n), users'[n] = Absent
      PROVE  Removable(n)
  <2>1. ~Present(n)'
    BY <1>1 DEF Present
  <2>2. PICK m \in Names : Writes(m)
    BY <1>1, StepShape DEF Shape, Present
  <2>3. m = n
    BY <1>1, <2>1, <2>2 DEF Writes, Spares
  <2> QED BY <1>1, <2>1, <2>2, <2>3 DEF Writes, KeepsOrRemoves, AddsAccount, MakesLink, SpendsLink
<1>2. LinkInv /\ [Next]_vars =>
        [\A n \in Names : Present(n) /\ users'[n] = Absent =>
          \/ users[n].revoking
          \/ /\ ~users[n].approved
             /\ \/ users[n].token \in chat
                \/ \E t \in Threads : /\ request[t].op = "rollback"
                                      /\ request[t].token = users[n].token]_vars
  BY <1>1 DEF Removable
<1> QED BY <1>2, AccountLinks, PTL DEF Spec, RemovalsAreOwn

=============================================================================
