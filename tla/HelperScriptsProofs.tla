------------------------ MODULE HelperScriptsProofs ------------------------
(***************************************************************************)
(* The root helpers run command by command: for any names, addresses and   *)
(* keys, and whatever fails or is killed, they behave like the one-step    *)
(* calls of HelperCalls, give a route to nobody they are not asked to, and *)
(* undo what a failed script had done when the trap's own commands work.   *)
(***************************************************************************)
EXTENDS HelperScripts, PeerStoreProofs, SequenceTheorems, TLAPS

-----------------------------------------------------------------------------
(* Where a script stands *)

Runs == [script : Scripts, peer : Peers, was : {"active", "paused"}, seen : BOOLEAN,
         todo : Seq(Commands), did : SUBSET Commands, trapped : BOOLEAN, torn : BOOLEAN]

\* The script has done a head of its program; the rest is to do.
Stands(script, was, did, todo) ==
    LET P == Program(script, was)
    IN  \E k \in 0..Len(P) : /\ todo = SubSeq(P, k + 1, Len(P))
                             /\ did = {P[i] : i \in 1..k}

\* The commands that do not work while wg0 is down.
Needs(script, command) == UsesWg(command) \/ (script = "remove" /\ command = "check")

\* The client files once the script has moved or removed its own.
ConfBy(s, script, p) ==
    CASE script \in {"add", "prepare"}  -> [s.conf EXCEPT ![p.dev] = p]
      [] script = "remove"              -> [s.conf EXCEPT ![p.dev] = NoPeer]
      [] script \in {"pause", "resume"} -> s.conf

\* The store when the commands of did have worked.
Done(s, script, p, did) ==
    [conf   |-> IF did \cap {"moveClient", "removeClient"} # {} THEN ConfBy(s, script, p) ELSE s.conf,
     active |-> IF "moveBlock" \in did THEN Moved(s, script, p).active ELSE s.active,
     paused |-> IF "moveBlock" \in did THEN Moved(s, script, p).paused ELSE s.paused,
     live   |-> IF "setLive" \in did THEN RouteTo(s.live, p)
                ELSE IF "dropLive" \in did THEN s.live \ {p} ELSE s.live]

\* The peer of a run, and what its parser found, in the store it began with.
Chosen(s, r) ==
    /\ IF r.script \in {"add", "prepare"} THEN r.peer \in NewPeers(s, r.peer.dev, InfraAddrs)
       ELSE s.conf[r.peer.dev] = r.peer /\ OneBlock(s, r.peer)
    /\ (r.was = "active") = (r.peer \in s.active)
    /\ r.seen = (r.peer \in s.live)

SameBlocks(s, t) == t.active = s.active /\ t.paused = s.paused
MovedBlocks(s, r, t) == /\ t.active = Moved(s, r.script, r.peer).active
                        /\ t.paused = Moved(s, r.script, r.peer).paused

\* The routes a run can leave, in its commands or in its trap.
Routes(s, r) ==
    CASE r.script = "add"      -> {s.live, RouteTo(s.live, r.peer), RouteTo(s.live, r.peer) \ {r.peer}}
      [] r.script = "prepare"  -> {s.live}
      [] r.script \in {"remove", "pause"} -> {s.live, s.live \ {r.peer}}
      [] r.script = "resume"   -> {s.live, RouteTo(s.live, r.peer)}
                                  \cup IF r.was = "paused" THEN {RouteTo(s.live, r.peer) \ {r.peer}} ELSE {}

\* Each part of the store is as it was or as the script wants it; a block that
\* is not yet enveloped, or not any more, keeps its route.
Shape(s, r, t, w) ==
    /\ t \in Stores
    /\ t.conf \in {s.conf, ConfBy(s, r.script, r.peer)}
    /\ SameBlocks(s, t) \/ MovedBlocks(s, r, t)
    /\ t.live \in Routes(s, r)
    /\ r.script = "remove" => r.was = "active" \/ t = s \/ r.peer \notin t.live
    /\ r.script = "pause" /\ r.was = "active" /\ SameBlocks(s, t) => t.live = s.live
    /\ r.script = "resume" /\ r.was = "paused" => SameBlocks(s, t) \/ t.live = RouteTo(s.live, r.peer)
    /\ r.script \in {"add", "remove", "resume"} => t = s \/ w = "up"

In(x, list) == \E i \in 1..Len(list) : list[i] = x

\* A script in its program.
Following(s, r, t, w) ==
    /\ Stands(r.script, r.was, r.did, r.todo) /\ ~r.torn
    /\ t = Done(s, r.script, r.peer, r.did)
    /\ \A command \in r.did : Needs(r.script, command) => w = "up"

\* A script in its trap, and what the trap may still have to do.
TrapCommands(r) ==
    CASE r.script = "add"     -> {"restoreBlock", "dropLive", "removeClient"}
      [] r.script = "prepare" -> {"restoreBlock", "removeClient"}
      [] r.script = "remove"  -> {"restoreBlock", "restoreClient"}
                                 \cup IF r.seen /\ r.was = "active" THEN {"setLive"} ELSE {}
      [] r.script = "pause"   -> {}
      [] r.script = "resume"  -> IF r.was = "paused" THEN {"dropLive"} ELSE {}

\* What is not as it was will be put back, unless a command of the trap failed.
Owed(s, r, t) ==
    /\ r.script \in {"add", "prepare", "remove"} => SameBlocks(s, t) \/ In("restoreBlock", r.todo)
    /\ r.script \in {"add", "prepare"} => /\ t.conf = s.conf \/ In("removeClient", r.todo)
                                          /\ r.peer \notin t.live \/ In("dropLive", r.todo)
    /\ r.script = "remove" => /\ t.conf = s.conf \/ In("restoreClient", r.todo)
                              /\ r.was = "active" => t.live = s.live \/ In("setLive", r.todo)
    /\ r.script = "pause" => t = s \/ r.peer \notin t.active
    /\ r.script = "resume" => \/ t = s
                              \/ r.peer \in t.active \cap t.live
                              \/ /\ r.was = "paused" /\ SameBlocks(s, t)
                                 /\ r.peer \notin t.live \/ In("dropLive", r.todo)

Trapping(s, r, t) ==
    /\ \A command \in Commands : In(command, r.todo) => command \in TrapCommands(r)
    /\ r.script = "resume" /\ r.todo # <<>> => SameBlocks(s, t)
    /\ ~r.torn => Owed(s, r, t)

\* Two live peers never share an address: each took the route to its own.
LiveDistinct(s) == \A p, q \in s.live : p.addr = q.addr => p = q

\* The store between two scripts.
Quiet(s) == s \in Stores /\ Distinct(s, InfraAddrs) /\ LiveDistinct(s)

Working(s, r, t, w) ==
    /\ r \in Runs /\ Chosen(s, r) /\ Shape(s, r, t, w)
    /\ IF r.trapped THEN Trapping(s, r, t) ELSE Following(s, r, t, w)

ScriptInv ==
    /\ wg0 \in {"up", "down"} /\ Quiet(before)
    /\ IF Running THEN Working(before, run, now, wg0) ELSE now = before

-----------------------------------------------------------------------------
(* Lists of commands *)

LEMMA InNone == ASSUME NEW x PROVE ~In(x, <<>>)
BY DEF In

LEMMA InOne == ASSUME NEW x, NEW y PROVE In(x, <<y>>) <=> x = y
<1>1. Len(<<y>>) = 1 /\ <<y>>[1] = y
  OBVIOUS
<1> QED
  BY <1>1 DEF In

LEMMA InTail ==
    ASSUME NEW S, NEW list \in Seq(S), list # <<>>, NEW x
    PROVE  In(x, list) <=> x = Head(list) \/ In(x, Tail(list))
<1>1. /\ Len(list) \in Nat \ {0} /\ Head(list) = list[1] /\ Len(Tail(list)) = Len(list) - 1
      /\ \A i \in 1..Len(Tail(list)) : Tail(list)[i] = list[i + 1]
  OBVIOUS
<1>2. ASSUME In(x, list), x # Head(list) PROVE In(x, Tail(list))
  <2>1. PICK i \in 1..Len(list) : list[i] = x
    BY <1>2 DEF In
  <2>2. i - 1 \in 1..Len(Tail(list)) /\ (i - 1) + 1 = i
    BY <1>1, <1>2, <2>1
  <2> QED
    BY <1>1, <2>1, <2>2 DEF In
<1>3. ASSUME In(x, Tail(list)) PROVE In(x, list)
  <2>1. PICK i \in 1..Len(Tail(list)) : Tail(list)[i] = x
    BY <1>3 DEF In
  <2>2. i + 1 \in 1..Len(list)
    BY <1>1
  <2> QED
    BY <1>1, <2>1, <2>2 DEF In
<1>4. x = Head(list) => In(x, list)
  BY <1>1 DEF In
<1> QED
  BY <1>2, <1>3, <1>4

LEMMA InConcat ==
    ASSUME NEW S, NEW a \in Seq(S), NEW b \in Seq(S), NEW x
    PROVE  In(x, a \o b) <=> In(x, a) \/ In(x, b)
<1>1. /\ Len(a) \in Nat /\ Len(b) \in Nat /\ Len(a \o b) = Len(a) + Len(b)
      /\ \A i \in 1..Len(a \o b) : (a \o b)[i] = IF i <= Len(a) THEN a[i] ELSE b[i - Len(a)]
  BY ConcatProperties
<1>2. ASSUME In(x, a \o b) PROVE In(x, a) \/ In(x, b)
  <2>1. PICK i \in 1..Len(a \o b) : (a \o b)[i] = x
    BY <1>2 DEF In
  <2>2. CASE i <= Len(a)
    <3>1. i \in 1..Len(a) /\ a[i] = x
      BY <1>1, <2>1, <2>2
    <3> QED
      BY <3>1 DEF In
  <2>3. CASE ~(i <= Len(a))
    <3>1. i - Len(a) \in 1..Len(b) /\ b[i - Len(a)] = x
      BY <1>1, <2>1, <2>3
    <3> QED
      BY <3>1 DEF In
  <2> QED
    BY <2>2, <2>3
<1>3. ASSUME In(x, a) PROVE In(x, a \o b)
  <2>1. PICK i \in 1..Len(a) : a[i] = x
    BY <1>3 DEF In
  <2>2. i \in 1..Len(a \o b) /\ (a \o b)[i] = x
    BY <1>1, <2>1
  <2> QED
    BY <2>2 DEF In
<1>4. ASSUME In(x, b) PROVE In(x, a \o b)
  <2>1. PICK i \in 1..Len(b) : b[i] = x
    BY <1>4 DEF In
  <2>2. i + Len(a) \in 1..Len(a \o b) /\ ~(i + Len(a) <= Len(a)) /\ (i + Len(a)) - Len(a) = i
    BY <1>1
  <2>3. (a \o b)[i + Len(a)] = x
    BY <1>1, <2>1, <2>2
  <2> QED
    BY <2>2, <2>3 DEF In
<1> QED
  BY <1>2, <1>3, <1>4

-----------------------------------------------------------------------------
(* Programs *)

LEMMA ProgramTyped ==
    ASSUME NEW script \in Scripts, NEW was \in {"active", "paused"}
    PROVE  Program(script, was) \in Seq(Commands)
<1>1. CASE script = "add"
  BY <1>1 DEF Program, Commands
<1>2. CASE script = "prepare"
  BY <1>2 DEF Program, Commands
<1>3. CASE script = "remove"
  BY <1>3 DEF Program, Commands
<1>4. CASE script = "pause"
  <2>1. CASE was = "active"
    BY <1>4, <2>1 DEF Program, Commands
  <2>2. CASE was = "paused"
    BY <1>4, <2>2 DEF Program, Commands
  <2> QED
    BY <2>1, <2>2
<1>5. CASE script = "resume"
  <2>1. CASE was = "active"
    BY <1>5, <2>1 DEF Program, Commands
  <2>2. CASE was = "paused"
    BY <1>5, <2>2 DEF Program, Commands
  <2> QED
    BY <2>1, <2>2
<1> QED
  BY <1>1, <1>2, <1>3, <1>4, <1>5 DEF Scripts

LEMMA StandsStart ==
    ASSUME NEW script \in Scripts, NEW was \in {"active", "paused"}
    PROVE  Stands(script, was, {}, Program(script, was))
<1> DEFINE P == Program(script, was)
<1>1. P \in Seq(Commands)
  BY ProgramTyped
<1> HIDE DEF P
<1>2. P = SubSeq(P, 0 + 1, Len(P)) /\ 0 \in 0..Len(P) /\ {P[i] : i \in 1..0} = {}
  BY <1>1
<1> QED
  BY <1>2 DEF Stands, P

LEMMA StandsNext ==
    ASSUME NEW script \in Scripts, NEW was \in {"active", "paused"}, NEW did, NEW todo,
           Stands(script, was, did, todo), todo # <<>>
    PROVE  /\ Stands(script, was, did \cup {Head(todo)}, Tail(todo))
           /\ todo \in Seq(Commands) /\ Head(todo) \in Commands
<1> DEFINE P == Program(script, was)
<1>1. P \in Seq(Commands)
  BY ProgramTyped
<1> HIDE DEF P
<1>2. PICK k \in 0..Len(P) : todo = SubSeq(P, k + 1, Len(P)) /\ did = {P[i] : i \in 1..k}
  BY DEF Stands, P
<1>3. Len(P) \in Nat /\ k \in Nat
  BY <1>1
<1>4. k < Len(P)
  <2>1. CASE k = Len(P)
    <3>1. todo = <<>>
      BY <1>1, <1>2, <1>3, <2>1
    <3> QED
      BY <3>1
  <2> QED
    BY <1>3, <2>1
<1>5. /\ todo \in Seq(Commands) /\ Len(todo) = Len(P) - k
      /\ \A i \in 1..Len(todo) : todo[i] = P[k + i]
  BY <1>1, <1>2, <1>3, <1>4
<1>6. Head(todo) = P[k + 1] /\ P[k + 1] \in Commands
  BY <1>1, <1>3, <1>4, <1>5
<1>7. Tail(todo) = SubSeq(P, (k + 1) + 1, Len(P))
  BY <1>1, <1>2, <1>3, <1>4, <1>5
<1>8. did \cup {Head(todo)} = {P[i] : i \in 1..(k + 1)}
  BY <1>2, <1>3, <1>6
<1>9. k + 1 \in 0..Len(P)
  BY <1>3, <1>4
<1> QED
  BY <1>5, <1>6, <1>7, <1>8, <1>9 DEF Stands, P

\* A script with nothing left has done its whole program.
LEMMA StandsEnd ==
    ASSUME NEW script \in Scripts, NEW was \in {"active", "paused"}, NEW did,
           Stands(script, was, did, <<>>)
    PROVE  did = {Program(script, was)[i] : i \in 1..Len(Program(script, was))}
<1> DEFINE P == Program(script, was)
<1>1. P \in Seq(Commands)
  BY ProgramTyped
<1> HIDE DEF P
<1>2. PICK k \in 0..Len(P) : <<>> = SubSeq(P, k + 1, Len(P)) /\ did = {P[i] : i \in 1..k}
  BY DEF Stands, P
<1>3. Len(P) \in Nat /\ k \in Nat
  BY <1>1
<1>4. k = Len(P)
  <2>1. CASE k < Len(P)
    <3>1. Len(SubSeq(P, k + 1, Len(P))) = Len(P) - k
      BY <1>1, <1>3, <2>1
    <3>2. Len(SubSeq(P, k + 1, Len(P))) = 0
      <4>1. ASSUME NEW q, q = <<>> PROVE Len(q) = 0
        BY <4>1
      <4> QED
        BY <1>2, <4>1
    <3> QED
      BY <1>3, <2>1, <3>1, <3>2
  <2> QED
    BY <1>3, <2>1
<1> QED
  BY <1>2, <1>4 DEF P

\* The order the programs keep.
Ordered(script, was, did) ==
    /\ script = "add" => did \subseteq {"setLive", "moveBlock", "moveClient", "check"}
                         /\ (did # {} => "setLive" \in did)
    /\ script = "prepare" => did \subseteq {"moveBlock", "moveClient", "check"}
    /\ script = "remove" => did \subseteq {"check", "dropLive", "moveBlock", "removeClient"}
                            /\ (did # {} => "check" \in did)
                            /\ ("moveBlock" \in did \/ "removeClient" \in did => "dropLive" \in did)
    /\ script = "pause" => did \subseteq {"moveBlock", "dropLive", "check"}
                           /\ (was = "active" /\ did # {} => "moveBlock" \in did)
                           /\ (was = "paused" => "moveBlock" \notin did)
    /\ script = "resume" => did \subseteq {"setLive", "moveBlock", "check"}
                            /\ (did # {} => "setLive" \in did)
                            /\ (was = "active" => "moveBlock" \notin did)

LEMMA StandsOrdered ==
    ASSUME NEW script \in Scripts, NEW was \in {"active", "paused"}, NEW did, NEW todo,
           Stands(script, was, did, todo)
    PROVE  Ordered(script, was, did)
<1> DEFINE P == Program(script, was)
<1>1. PICK k \in 0..Len(P) : did = {P[i] : i \in 1..k}
  BY DEF Stands
<1>2. P \in Seq(Commands) /\ Len(P) \in Nat
  BY ProgramTyped
<1>3. \A x : x \in did <=> \E i \in 1..k : P[i] = x
  BY <1>1
<1>4. did # {} => 1 \in 1..k
  BY <1>1, <1>2
<1>5. \A i \in 1..k : i \in 1..Len(P)
  BY <1>2
<1>6. CASE script = "add"
  <2>1. /\ Len(P) = 4 /\ P[1] = "setLive" /\ P[2] = "moveBlock" /\ P[3] = "moveClient"
        /\ P[4] = "check"
    BY <1>6 DEF Program
  <2> HIDE DEF P
  <2>2. \A i \in 1..Len(P) : P[i] \in {"setLive", "moveBlock", "moveClient", "check"}
    <3>1. \A i \in 1..4 : i = 1 \/ i = 2 \/ i = 3 \/ i = 4
      OBVIOUS
    <3> QED
      BY <2>1, <3>1
  <2> QED
    BY <1>3, <1>4, <1>5, <1>6, <2>1, <2>2 DEF Ordered
<1>7. CASE script = "prepare"
  <2>1. Len(P) = 3 /\ P[1] = "moveBlock" /\ P[2] = "moveClient" /\ P[3] = "check"
    BY <1>7 DEF Program
  <2> HIDE DEF P
  <2>2. \A i \in 1..Len(P) : P[i] \in {"moveBlock", "moveClient", "check"}
    <3>1. \A i \in 1..3 : i = 1 \/ i = 2 \/ i = 3
      OBVIOUS
    <3> QED
      BY <2>1, <3>1
  <2> QED
    BY <1>3, <1>5, <1>7, <2>2 DEF Ordered
<1>8. CASE script = "remove"
  <2>1. /\ Len(P) = 5 /\ P[1] = "check" /\ P[2] = "dropLive" /\ P[3] = "moveBlock"
        /\ P[4] = "removeClient" /\ P[5] = "check"
    BY <1>8 DEF Program
  <2> HIDE DEF P
  <2>2. \A i \in 1..Len(P) : /\ P[i] \in {"check", "dropLive", "moveBlock", "removeClient"}
                             /\ P[i] \in {"moveBlock", "removeClient"} => i >= 3
    <3>1. \A i \in 1..5 : i = 1 \/ i = 2 \/ i = 3 \/ i = 4 \/ i = 5
      OBVIOUS
    <3> QED
      BY <2>1, <3>1
  <2>3. \A i \in 1..k : i >= 3 => 2 \in 1..k
    BY <1>2
  <2> QED
    BY <1>3, <1>4, <1>5, <1>8, <2>1, <2>2, <2>3 DEF Ordered
<1>9. CASE script = "pause"
  <2>1. /\ was = "active" => Len(P) = 3 /\ P[1] = "moveBlock" /\ P[2] = "dropLive" /\ P[3] = "check"
        /\ was = "paused" => Len(P) = 2 /\ P[1] = "dropLive" /\ P[2] = "check"
    BY <1>9 DEF Program
  <2> HIDE DEF P
  <2>2. \A i \in 1..Len(P) : /\ P[i] \in {"moveBlock", "dropLive", "check"}
                             /\ was = "paused" => P[i] # "moveBlock"
    <3>1. /\ \A i \in 1..3 : i = 1 \/ i = 2 \/ i = 3
          /\ \A i \in 1..2 : i = 1 \/ i = 2
      OBVIOUS
    <3> QED
      BY <2>1, <3>1
  <2> QED
    BY <1>3, <1>4, <1>5, <1>9, <2>1, <2>2 DEF Ordered
<1>10. CASE script = "resume"
  <2>1. /\ was = "active" => Len(P) = 2 /\ P[1] = "setLive" /\ P[2] = "check"
        /\ was = "paused" => /\ Len(P) = 4 /\ P[1] = "setLive" /\ P[2] = "check"
                             /\ P[3] = "moveBlock" /\ P[4] = "check"
    BY <1>10 DEF Program
  <2> HIDE DEF P
  <2>2. \A i \in 1..Len(P) : /\ P[i] \in {"setLive", "moveBlock", "check"}
                             /\ was = "active" => P[i] # "moveBlock"
    <3>1. /\ \A i \in 1..4 : i = 1 \/ i = 2 \/ i = 3 \/ i = 4
          /\ \A i \in 1..2 : i = 1 \/ i = 2
      OBVIOUS
    <3> QED
      BY <2>1, <3>1
  <2> QED
    BY <1>3, <1>4, <1>5, <1>10, <2>1, <2>2 DEF Ordered
<1> QED
  BY <1>6, <1>7, <1>8, <1>9, <1>10 DEF Scripts

\* What a finished script has done.
Finished(script, was, did) ==
    /\ script = "add" => {"setLive", "moveBlock", "moveClient"} \subseteq did
    /\ script = "prepare" => {"moveBlock", "moveClient"} \subseteq did
    /\ script = "remove" => {"check", "dropLive", "moveBlock", "removeClient"} \subseteq did
    /\ script = "pause" => "dropLive" \in did /\ (was = "active" => "moveBlock" \in did)
    /\ script = "resume" => "setLive" \in did /\ (was = "paused" => "moveBlock" \in did)

LEMMA StandsFinished ==
    ASSUME NEW script \in Scripts, NEW was \in {"active", "paused"}, NEW did,
           Stands(script, was, did, <<>>)
    PROVE  Finished(script, was, did)
<1> DEFINE P == Program(script, was)
<1>1. \A x : (\E i \in 1..Len(P) : P[i] = x) => x \in did
  BY StandsEnd
<1>2. CASE script = "add"
  <2>1. Len(P) = 4 /\ P[1] = "setLive" /\ P[2] = "moveBlock" /\ P[3] = "moveClient"
    BY <1>2 DEF Program
  <2> HIDE DEF P
  <2> QED
    BY <1>1, <1>2, <2>1 DEF Finished
<1>3. CASE script = "prepare"
  <2>1. Len(P) = 3 /\ P[1] = "moveBlock" /\ P[2] = "moveClient"
    BY <1>3 DEF Program
  <2> HIDE DEF P
  <2> QED
    BY <1>1, <1>3, <2>1 DEF Finished
<1>4. CASE script = "remove"
  <2>1. /\ Len(P) = 5 /\ P[1] = "check" /\ P[2] = "dropLive" /\ P[3] = "moveBlock"
        /\ P[4] = "removeClient"
    BY <1>4 DEF Program
  <2> HIDE DEF P
  <2> QED
    BY <1>1, <1>4, <2>1 DEF Finished
<1>5. CASE script = "pause"
  <2>1. /\ was = "active" => Len(P) = 3 /\ P[1] = "moveBlock" /\ P[2] = "dropLive"
        /\ was = "paused" => Len(P) = 2 /\ P[1] = "dropLive"
    BY <1>5 DEF Program
  <2> HIDE DEF P
  <2> QED
    BY <1>1, <1>5, <2>1 DEF Finished
<1>6. CASE script = "resume"
  <2>1. /\ was = "active" => Len(P) = 2 /\ P[1] = "setLive"
        /\ was = "paused" => Len(P) = 4 /\ P[1] = "setLive" /\ P[3] = "moveBlock"
    BY <1>6 DEF Program
  <2> HIDE DEF P
  <2> QED
    BY <1>1, <1>6, <2>1 DEF Finished
<1> QED
  BY <1>2, <1>3, <1>4, <1>5, <1>6 DEF Scripts

-----------------------------------------------------------------------------
(* Stores *)

LEMMA SameStore ==
    ASSUME NEW s \in Stores, NEW t \in Stores, t.conf = s.conf, t.live = s.live,
           SameBlocks(s, t)
    PROVE  t = s
BY DEF Stores, SameBlocks

\* What moving the block does to the two lists.
MovedTo(s, script, p, t) ==
    /\ t.active = CASE script \in {"add", "resume"} -> s.active \cup {p}
                    [] script = "prepare" -> s.active
                    [] script \in {"remove", "pause"} -> s.active \ {p}
    /\ t.paused = CASE script \in {"prepare", "pause"} -> s.paused \cup {p}
                    [] script = "add" -> s.paused
                    [] script \in {"remove", "resume"} -> s.paused \ {p}
    /\ t.active \in SUBSET Peers /\ t.paused \in SUBSET Peers

LEMMA MovedIs ==
    ASSUME NEW s \in Stores, NEW p \in Peers, NEW script \in Scripts
    PROVE  MovedTo(s, script, p, Moved(s, script, p))
<1>1. CASE script = "add"
  BY <1>1 DEF MovedTo, Moved, Stores
<1>2. CASE script = "prepare"
  BY <1>2 DEF MovedTo, Moved, Stores
<1>3. CASE script = "remove"
  BY <1>3 DEF MovedTo, Moved, Stores
<1>4. CASE script = "pause"
  BY <1>4 DEF MovedTo, Moved, Enveloped, Stores
<1>5. CASE script = "resume"
  BY <1>5 DEF MovedTo, Moved, Restored, Stores
<1> QED
  BY <1>1, <1>2, <1>3, <1>4, <1>5 DEF Scripts

LEMMA ConfByIs ==
    ASSUME NEW s \in Stores, NEW p \in Peers, NEW script \in Scripts
    PROVE  ConfBy(s, script, p) \in [Devices -> Peers \cup {NoPeer}]
BY DEF ConfBy, Stores, Peers, Scripts

LEMMA DoneTyped ==
    ASSUME NEW s \in Stores, NEW p \in Peers, NEW script \in Scripts, NEW did
    PROVE  Done(s, script, p, did) \in Stores
<1>1. /\ s.conf \in [Devices -> Peers \cup {NoPeer}] /\ s.live \in SUBSET Peers
      /\ s.active \in SUBSET Peers /\ s.paused \in SUBSET Peers
  BY DEF Stores
<1>2. RouteTo(s.live, p) \in SUBSET Peers
  BY <1>1, RouteToType
<1> QED
  BY <1>1, <1>2, ConfByIs, MovedIs DEF MovedTo, Done, Stores

\* The peer a script works on.
LEMMA PickedNew ==
    ASSUME NEW s \in Stores, NEW r \in Runs, Chosen(s, r), r.script \in {"add", "prepare"}
    PROVE  LET p == r.peer
           IN  /\ p \in Peers /\ p.dev \in Devices /\ s.conf[p.dev] = NoPeer
               /\ p \notin s.live /\ p \notin s.active /\ p \notin s.paused
               /\ \A q \in Settled(s) : q.addr # p.addr
               /\ p.addr \notin InfraAddrs
               /\ p \in NewPeers(s, p.dev, InfraAddrs)
<1> DEFINE p == r.peer
<1>1. p \in Peers /\ p.dev \in Devices
  BY DEF Runs, Peers
<1>2. p \in NewPeers(s, p.dev, InfraAddrs)
  BY DEF Chosen
<1>3. /\ p \notin s.live /\ p \notin s.active /\ s.conf[p.dev] = NoPeer
  BY <1>1, <1>2, NewPeerFresh DEF Routed, HasConf
<1>4. p.addr \notin InfraAddrs /\ \A q \in Settled(s) : q.addr # p.addr
  BY <1>1, <1>2, NewPeerAddress
<1>5. p \notin s.paused
  BY <1>2 DEF NewPeers, FreshKeys
<1> QED
  BY <1>1, <1>2, <1>3, <1>4, <1>5

LEMMA PickedOld ==
    ASSUME NEW s \in Stores, NEW r \in Runs, Chosen(s, r), r.script \notin {"add", "prepare"}
    PROVE  LET p == r.peer
           IN  /\ p \in Peers /\ p.dev \in Devices /\ s.conf[p.dev] = p /\ HasConf(s, p.dev)
               /\ p \in Settled(s) /\ OneBlock(s, p)
               /\ r.was = "active" => p \in s.active /\ p \notin s.paused
               /\ r.was = "paused" => p \in s.paused /\ p \notin s.active
               /\ r.was \in {"active", "paused"}
<1> DEFINE p == r.peer
<1>1. p \in Peers /\ p.dev \in Devices /\ r.was \in {"active", "paused"}
  BY DEF Runs, Peers
<1>2. s.conf[p.dev] = p /\ OneBlock(s, p) /\ ((r.was = "active") = (p \in s.active))
  BY DEF Chosen
<1>3. HasConf(s, p.dev)
  BY <1>1, <1>2, NoPeerAssumption DEF HasConf, Peers
<1>4. p \in Settled(s)
  BY <1>1, <1>2, <1>3 DEF Settled, ConfPeers, Configured
<1>5. (p \in s.active) # (p \in s.paused)
  BY <1>2 DEF OneBlock
<1> QED
  BY <1>1, <1>2, <1>3, <1>4, <1>5

LEMMA RunFields ==
    ASSUME NEW r \in Runs
    PROVE  /\ r.script \in Scripts /\ r.peer \in Peers /\ r.was \in {"active", "paused"}
           /\ r.seen \in BOOLEAN /\ r.todo \in Seq(Commands) /\ r.did \in SUBSET Commands
           /\ r.trapped \in BOOLEAN /\ r.torn \in BOOLEAN
BY DEF Runs

\* A client whose block is not in an envelope keeps an enveloped one's shape.
LEMMA MovedNothing ==
    ASSUME NEW s \in Stores, NEW r \in Runs, Chosen(s, r),
           \/ r.script = "pause" /\ r.was = "paused"
           \/ r.script = "resume" /\ r.was = "active"
    PROVE  Moved(s, r.script, r.peer).active = s.active /\ Moved(s, r.script, r.peer).paused = s.paused
<1>1. /\ r.peer \in Peers
      /\ r.was = "active" => r.peer \in s.active /\ r.peer \notin s.paused
      /\ r.was = "paused" => r.peer \in s.paused /\ r.peer \notin s.active
  BY PickedOld
<1> QED
  BY <1>1 DEF Moved, Enveloped, Restored, Stores

-----------------------------------------------------------------------------
(* A script in its program has the shape of a script *)

LEMMA DoneShape ==
    ASSUME NEW s, Quiet(s), NEW r \in Runs, Chosen(s, r), NEW did, NEW todo, NEW w,
           Stands(r.script, r.was, did, todo),
           \A c \in did : Needs(r.script, c) => w = "up"
    PROVE  Shape(s, r, Done(s, r.script, r.peer, did), w)
<1> DEFINE p == r.peer
           t == Done(s, r.script, p, did)
<1>1. s \in Stores /\ r.script \in Scripts /\ p \in Peers /\ r.was \in {"active", "paused"}
  BY RunFields DEF Quiet
<1>2. t \in Stores
  BY <1>1, DoneTyped
<1>3. Ordered(r.script, r.was, did)
  BY <1>1, StandsOrdered
<1>4. /\ t.conf = IF did \cap {"moveClient", "removeClient"} # {} THEN ConfBy(s, r.script, p) ELSE s.conf
      /\ "moveBlock" \in did => MovedBlocks(s, r, t)
      /\ "moveBlock" \notin did => SameBlocks(s, t)
      /\ t.live = IF "setLive" \in did THEN RouteTo(s.live, p)
                  ELSE IF "dropLive" \in did THEN s.live \ {p} ELSE s.live
  BY DEF Done, MovedBlocks, SameBlocks
<1>5. Needs(r.script, "setLive") /\ Needs(r.script, "dropLive")
      /\ (r.script = "remove" => Needs(r.script, "check"))
  BY DEF Needs, UsesWg
<1> SUFFICES Shape(s, r, t, w)
  OBVIOUS
<1> HIDE DEF t
<1>6. t.conf \in {s.conf, ConfBy(s, r.script, p)} /\ (SameBlocks(s, t) \/ MovedBlocks(s, r, t))
  BY <1>4
<1>7. did = {} => t = s
  BY <1>1, <1>2, <1>4, SameStore
<1>8. CASE r.script = "add"
  <2>1. t.live \in Routes(s, r)
    BY <1>3, <1>4, <1>8 DEF Ordered, Routes
  <2>2. t = s \/ w = "up"
    BY <1>3, <1>5, <1>7, <1>8 DEF Ordered
  <2> QED
    BY <1>2, <1>6, <1>8, <2>1, <2>2 DEF Shape
<1>9. CASE r.script = "prepare"
  <2>1. t.live \in Routes(s, r)
    BY <1>3, <1>4, <1>9 DEF Ordered, Routes
  <2> QED
    BY <1>2, <1>6, <1>9, <2>1 DEF Shape
<1>10. CASE r.script = "remove"
  <2>1. t.live \in Routes(s, r)
    BY <1>3, <1>4, <1>10 DEF Ordered, Routes
  <2>2. t = s \/ w = "up"
    BY <1>3, <1>5, <1>7, <1>10 DEF Ordered
  <2>3. r.was = "active" \/ t = s \/ p \notin t.live
    <3>1. CASE "dropLive" \in did
      BY <1>3, <1>4, <1>10, <3>1 DEF Ordered
    <3>2. CASE "dropLive" \notin did
      <4>1. "moveBlock" \notin did /\ "removeClient" \notin did /\ "moveClient" \notin did
            /\ "setLive" \notin did
        BY <1>3, <1>10, <3>2 DEF Ordered
      <4>2. t.conf = s.conf /\ SameBlocks(s, t) /\ t.live = s.live
        BY <1>4, <3>2, <4>1
      <4> QED
        BY <1>1, <1>2, <4>2, SameStore
    <3> QED
      BY <3>1, <3>2
  <2> QED
    BY <1>2, <1>6, <1>10, <2>1, <2>2, <2>3 DEF Shape
<1>11. CASE r.script = "pause"
  <2>1. t.live \in Routes(s, r)
    BY <1>3, <1>4, <1>11 DEF Ordered, Routes
  <2>2. ASSUME r.was = "active", SameBlocks(s, t) PROVE t.live = s.live
    <3>1. r.peer \in s.active
      BY <1>1, <1>11, <2>2, PickedOld
    <3>2. ~MovedBlocks(s, r, t)
      <4>1. Moved(s, "pause", p).active = s.active \ {p}
        BY <1>1, MovedIs DEF MovedTo, Scripts
      <4> QED
        BY <1>11, <2>2, <3>1, <4>1 DEF MovedBlocks, SameBlocks
    <3>3. did = {}
      BY <1>3, <1>4, <1>11, <2>2, <3>2 DEF Ordered
    <3> QED
      BY <1>7, <3>3
  <2> QED
    BY <1>2, <1>6, <1>11, <2>1, <2>2 DEF Shape
<1>12. CASE r.script = "resume"
  <2>1. t.live \in Routes(s, r)
    BY <1>3, <1>4, <1>12 DEF Ordered, Routes
  <2>2. t = s \/ w = "up"
    BY <1>3, <1>5, <1>7, <1>12 DEF Ordered
  <2>3. SameBlocks(s, t) \/ t.live = RouteTo(s.live, p)
    BY <1>3, <1>4, <1>12 DEF Ordered
  <2> QED
    BY <1>2, <1>6, <1>12, <2>1, <2>2, <2>3 DEF Shape
<1> QED
  BY <1>1, <1>8, <1>9, <1>10, <1>11, <1>12 DEF Scripts

-----------------------------------------------------------------------------
(* What has the shape of a script is a result of its call *)

Results(s, script, d, w) ==
    CASE script = "add"     -> AddClient(s, d, InfraAddrs, w)
      [] script = "prepare" -> PrepareClient(s, d, InfraAddrs)
      [] script = "remove"  -> RemoveClient(s, d, w)
      [] script = "pause"   -> PauseClient(s, d, w)
      [] script = "resume"  -> ResumeClient(s, d, w)

LEMMA Fields ==
    ASSUME NEW t \in Stores
    PROVE  t = [conf |-> t.conf, active |-> t.active, paused |-> t.paused, live |-> t.live]
BY DEF Stores

LEMMA AddResult ==
    ASSUME NEW s, Quiet(s), NEW r \in Runs, Chosen(s, r), NEW t, NEW w, Shape(s, r, t, w),
           r.script = "add"
    PROVE  Failed(t) \in AddClient(s, r.peer.dev, InfraAddrs, w)
<1> DEFINE p == r.peer
           files == (IF t.conf = s.conf THEN {} ELSE {"conf"})
                    \cup (IF SameBlocks(s, t) THEN {} ELSE {"active"})
<1>1. s \in Stores /\ p \in NewPeers(s, p.dev, InfraAddrs) /\ p \in Peers
  BY PickedNew DEF Quiet
<1>2. CASE t = s
  BY <1>2 DEF AddClient
<1>3. CASE t # s
  <2>1. /\ t \in Stores /\ w = "up" /\ t.conf \in {s.conf, [s.conf EXCEPT ![p.dev] = p]}
        /\ SameBlocks(s, t) \/ MovedBlocks(s, r, t)
        /\ t.live \in {s.live, RouteTo(s.live, p), RouteTo(s.live, p) \ {p}}
    BY <1>3 DEF Shape, ConfBy, Routes
  <2>2. MovedBlocks(s, r, t) => t.active = s.active \cup {p} /\ t.paused = s.paused
    <3>1. /\ Moved(s, "add", p).active = s.active \cup {p}
          /\ Moved(s, "add", p).paused = s.paused
      BY <1>1, MovedIs DEF MovedTo, Scripts
    <3> QED
      BY <3>1 DEF MovedBlocks
  <2>3. t = Added(s, p, t.live, files)
    <3>1. t.conf = IF "conf" \in files THEN [s.conf EXCEPT ![p.dev] = p] ELSE s.conf
      BY <2>1
    <3>2. t.active = IF "active" \in files THEN s.active \cup {p} ELSE s.active
      BY <2>1, <2>2 DEF SameBlocks
    <3>3. t.paused = IF "paused" \in files THEN s.paused \cup {p} ELSE s.paused
      BY <2>1, <2>2 DEF SameBlocks
    <3> HIDE DEF files
    <3> QED
      BY <2>1, <3>1, <3>2, <3>3, Fields DEF Added
  <2>4. files \in SUBSET {"active", "conf"}
    OBVIOUS
  <2> HIDE DEF files
  <2>5. Failed(t) \in AddPlain(s, p)
    BY <2>1, <2>3, <2>4 DEF AddPlain
  <2> QED
    BY <1>1, <2>1, <2>5 DEF AddClient
<1> QED
  BY <1>2, <1>3

LEMMA PrepareResult ==
    ASSUME NEW s, Quiet(s), NEW r \in Runs, Chosen(s, r), NEW t, NEW w, Shape(s, r, t, w),
           r.script = "prepare"
    PROVE  Failed(t) \in PrepareClient(s, r.peer.dev, InfraAddrs)
<1> DEFINE p == r.peer
           files == (IF t.conf = s.conf THEN {} ELSE {"conf"})
                    \cup (IF SameBlocks(s, t) THEN {} ELSE {"paused"})
<1>1. s \in Stores /\ p \in NewPeers(s, p.dev, InfraAddrs) /\ p \in Peers
  BY PickedNew DEF Quiet
<1>2. /\ t \in Stores /\ t.conf \in {s.conf, [s.conf EXCEPT ![p.dev] = p]}
      /\ SameBlocks(s, t) \/ MovedBlocks(s, r, t)
      /\ t.live = s.live
  BY DEF Shape, ConfBy, Routes
<1>3. MovedBlocks(s, r, t) => t.paused = s.paused \cup {p} /\ t.active = s.active
  <2>1. /\ Moved(s, "prepare", p).active = s.active
        /\ Moved(s, "prepare", p).paused = s.paused \cup {p}
    BY <1>1, MovedIs DEF MovedTo, Scripts
  <2> QED
    BY <2>1 DEF MovedBlocks
<1>4. t = Added(s, p, s.live, files)
  <2>1. t.conf = IF "conf" \in files THEN [s.conf EXCEPT ![p.dev] = p] ELSE s.conf
    BY <1>2
  <2>2. t.active = IF "active" \in files THEN s.active \cup {p} ELSE s.active
    BY <1>2, <1>3 DEF SameBlocks
  <2>3. t.paused = IF "paused" \in files THEN s.paused \cup {p} ELSE s.paused
    BY <1>2, <1>3 DEF SameBlocks
  <2> HIDE DEF files
  <2> QED
    BY <1>2, <2>1, <2>2, <2>3, Fields DEF Added
<1>5. files \in SUBSET {"paused", "conf"}
  OBVIOUS
<1> HIDE DEF files
<1>6. Failed(t) \in AddPrepared(s, p)
  BY <1>4, <1>5 DEF AddPrepared
<1> QED
  BY <1>1, <1>6 DEF PrepareClient

LEMMA RemoveResult ==
    ASSUME NEW s, Quiet(s), NEW r \in Runs, Chosen(s, r), NEW t, NEW w, Shape(s, r, t, w),
           r.script = "remove"
    PROVE  Failed(t) \in RemoveClient(s, r.peer.dev, w)
<1> DEFINE p == r.peer
           parts == (IF t.conf = s.conf THEN {} ELSE {"conf"})
                    \cup (IF SameBlocks(s, t) THEN {} ELSE {"block"})
                    \cup (IF p \in t.live THEN {} ELSE {"live"})
<1>1. /\ s \in Stores /\ p \in Peers /\ s.conf[p.dev] = p /\ HasConf(s, p.dev) /\ OneBlock(s, p)
      /\ r.was = "active" => p \in s.active
  BY PickedOld DEF Quiet
<1>2. CASE t = s
  BY <1>2 DEF RemoveClient
<1>3. CASE t # s
  <2>1. /\ t \in Stores /\ w = "up" /\ t.conf \in {s.conf, [s.conf EXCEPT ![p.dev] = NoPeer]}
        /\ SameBlocks(s, t) \/ MovedBlocks(s, r, t)
        /\ t.live \in {s.live, s.live \ {p}}
        /\ r.was = "active" \/ p \notin t.live
    BY <1>3 DEF Shape, ConfBy, Routes
  <2>2. MovedBlocks(s, r, t) => t.active = s.active \ {p} /\ t.paused = s.paused \ {p}
    <3>1. /\ Moved(s, "remove", p).active = s.active \ {p}
          /\ Moved(s, "remove", p).paused = s.paused \ {p}
      BY <1>1, MovedIs DEF MovedTo, Scripts
    <3> QED
      BY <3>1 DEF MovedBlocks
  <2>3. t = Removed(s, p.dev, parts)
    <3>1. t.conf = IF "conf" \in parts THEN [s.conf EXCEPT ![p.dev] = NoPeer] ELSE s.conf
      BY <2>1
    <3>2. t.active = IF "block" \in parts THEN s.active \ {p} ELSE s.active
      BY <2>1, <2>2 DEF SameBlocks
    <3>3. t.paused = IF "block" \in parts THEN s.paused \ {p} ELSE s.paused
      BY <2>1, <2>2 DEF SameBlocks
    <3>4. t.live = IF "live" \in parts THEN s.live \ {p} ELSE s.live
      <4>1. CASE p \in t.live
        BY <2>1, <4>1
      <4>2. CASE p \notin t.live
        BY <2>1, <4>2
      <4> QED
        BY <4>1, <4>2
    <3> HIDE DEF parts
    <3> QED
      BY <1>1, <2>1, <3>1, <3>2, <3>3, <3>4, Fields DEF Removed
  <2>4. parts \in TornRemovals(s, p)
    BY <1>1, <2>1 DEF TornRemovals, AllParts
  <2> HIDE DEF parts
  <2> QED
    BY <1>1, <2>1, <2>3, <2>4 DEF RemoveClient
<1> QED
  BY <1>2, <1>3

LEMMA PauseResult ==
    ASSUME NEW s, Quiet(s), NEW r \in Runs, Chosen(s, r), NEW t, NEW w, Shape(s, r, t, w),
           r.script = "pause"
    PROVE  Failed(t) \in PauseClient(s, r.peer.dev, w)
<1> DEFINE p == r.peer
           e == Enveloped(s, p)
<1>1. /\ s \in Stores /\ p \in Peers /\ s.conf[p.dev] = p /\ HasConf(s, p.dev) /\ OneBlock(s, p)
      /\ r.was \in {"active", "paused"}
  BY PickedOld DEF Quiet
<1>2. /\ t \in Stores /\ t.conf = s.conf /\ t.live \in {s.live, s.live \ {p}}
      /\ SameBlocks(s, t) \/ MovedBlocks(s, r, t)
      /\ r.was = "active" /\ SameBlocks(s, t) => t.live = s.live
  BY DEF Shape, ConfBy, Routes
<1>3. e \in Stores /\ e.conf = s.conf /\ e.live = s.live
  BY <1>1 DEF Enveloped, Stores
<1>4. MovedBlocks(s, r, t) => t.active = e.active /\ t.paused = e.paused
  BY DEF MovedBlocks, Moved
<1>5. r.was = "paused" /\ SameBlocks(s, t) => t.active = e.active /\ t.paused = e.paused
  BY <1>1, MovedNothing DEF SameBlocks, Moved
<1> HIDE DEF e
<1>6. CASE t.active = e.active /\ t.paused = e.paused
  <2>1. t = e \/ t = [e EXCEPT !.live = @ \ {p}]
    BY <1>2, <1>3, <1>6 DEF Stores
  <2> QED
    BY <1>1, <2>1 DEF PauseClient, e
<1>7. CASE r.was = "active" /\ SameBlocks(s, t)
  <2>1. t = s
    BY <1>1, <1>2, <1>7, SameStore
  <2> QED
    BY <2>1 DEF PauseClient
<1> QED
  BY <1>1, <1>2, <1>4, <1>5, <1>6, <1>7

LEMMA ResumeResult ==
    ASSUME NEW s, Quiet(s), NEW r \in Runs, Chosen(s, r), NEW t, NEW w, Shape(s, r, t, w),
           r.script = "resume"
    PROVE  Failed(t) \in ResumeClient(s, r.peer.dev, w)
<1> DEFINE p == r.peer
           b == Restored(s, p)
<1>1. /\ s \in Stores /\ p \in Peers /\ s.conf[p.dev] = p /\ HasConf(s, p.dev) /\ OneBlock(s, p)
      /\ r.was \in {"active", "paused"} /\ (r.was = "paused" => p \in s.paused)
  BY PickedOld DEF Quiet
<1>2. CASE t = s
  BY <1>2 DEF ResumeClient
<1>3. CASE t # s
  <2>1. /\ t \in Stores /\ w = "up" /\ t.conf = s.conf
        /\ t.live \in {s.live, RouteTo(s.live, p)}
             \cup IF r.was = "paused" THEN {RouteTo(s.live, p) \ {p}} ELSE {}
        /\ SameBlocks(s, t) \/ MovedBlocks(s, r, t)
        /\ r.was = "paused" => SameBlocks(s, t) \/ t.live = RouteTo(s.live, p)
    BY <1>3 DEF Shape, ConfBy, Routes
  <2>2. b \in Stores /\ b.conf = s.conf /\ b.live = s.live
    BY <1>1 DEF Restored, Stores
  <2>3. MovedBlocks(s, r, t) => t.active = b.active /\ t.paused = b.paused
    BY DEF MovedBlocks, Moved
  <2>4. r.was = "active" => SameBlocks(s, t)
    BY <1>1, <2>1, MovedNothing DEF SameBlocks, MovedBlocks
  <2> HIDE DEF b
  <2>5. CASE SameBlocks(s, t)
    <3>1. t.live # s.live
      BY <1>1, <1>3, <2>1, <2>5, SameStore
    <3>2. CASE t.live = RouteTo(s.live, p)
      <4>1. t = [s EXCEPT !.live = RouteTo(@, p)]
        BY <1>1, <2>1, <2>5, <3>2 DEF Stores, SameBlocks
      <4> QED
        BY <1>1, <2>1, <4>1 DEF ResumeClient
    <3>3. CASE r.was = "paused" /\ t.live = RouteTo(s.live, p) \ {p}
      <4>1. t = [s EXCEPT !.live = RouteTo(@, p) \ {p}]
        BY <1>1, <2>1, <2>5, <3>3 DEF Stores, SameBlocks
      <4> QED
        BY <1>1, <2>1, <3>3, <4>1 DEF ResumeClient
    <3> QED
      BY <2>1, <3>1, <3>2, <3>3
  <2>6. CASE ~SameBlocks(s, t)
    <3>1. /\ t.active = b.active /\ t.paused = b.paused /\ t.conf = b.conf
          /\ t.live = RouteTo(b.live, p)
      BY <1>1, <2>1, <2>2, <2>3, <2>4, <2>6
    <3>2. t = [b EXCEPT !.live = RouteTo(@, p)]
      BY <2>1, <2>2, <3>1 DEF Stores
    <3> QED
      BY <1>1, <2>1, <3>2 DEF ResumeClient, b
  <2> QED
    BY <2>5, <2>6
<1> QED
  BY <1>2, <1>3

LEMMA ShapeResult ==
    ASSUME NEW s, Quiet(s), NEW r \in Runs, Chosen(s, r), NEW t, NEW w, Shape(s, r, t, w)
    PROVE  Failed(t) \in Results(s, r.script, r.peer.dev, w)
<1>1. CASE r.script = "add"
  BY <1>1, AddResult DEF Results
<1>2. CASE r.script = "prepare"
  BY <1>2, PrepareResult DEF Results
<1>3. CASE r.script = "remove"
  BY <1>3, RemoveResult DEF Results
<1>4. CASE r.script = "pause"
  BY <1>4, PauseResult DEF Results
<1>5. CASE r.script = "resume"
  BY <1>5, ResumeResult DEF Results
<1> QED
  BY <1>1, <1>2, <1>3, <1>4, <1>5, RunFields DEF Scripts

\* A script that finished without a failure did all it was asked to.
LEMMA DoneResult ==
    ASSUME NEW s, Quiet(s), NEW r \in Runs, Chosen(s, r), NEW w, NEW did,
           Stands(r.script, r.was, did, <<>>),
           \A c \in did : Needs(r.script, c) => w = "up"
    PROVE  Ok(Done(s, r.script, r.peer, did)) \in Results(s, r.script, r.peer.dev, w)
<1> DEFINE p == r.peer
           t == Done(s, r.script, p, did)
<1>1. s \in Stores /\ r.script \in Scripts /\ p \in Peers /\ r.was \in {"active", "paused"}
  BY RunFields DEF Quiet
<1>2. Finished(r.script, r.was, did) /\ Ordered(r.script, r.was, did)
  BY <1>1, StandsFinished, StandsOrdered
<1>3. Needs(r.script, "setLive") /\ Needs(r.script, "dropLive")
  BY DEF Needs, UsesWg
<1>4. t \in Stores
  BY <1>1, DoneTyped
<1>5. /\ t.conf = IF did \cap {"moveClient", "removeClient"} # {} THEN ConfBy(s, r.script, p) ELSE s.conf
      /\ "moveBlock" \in did => MovedBlocks(s, r, t)
      /\ "moveBlock" \notin did => SameBlocks(s, t)
      /\ t.live = IF "setLive" \in did THEN RouteTo(s.live, p)
                  ELSE IF "dropLive" \in did THEN s.live \ {p} ELSE s.live
  BY DEF Done, MovedBlocks, SameBlocks
<1> SUFFICES Ok(t) \in Results(s, r.script, p.dev, w)
  OBVIOUS
<1> HIDE DEF t
<1>6. CASE r.script = "add"
  <2>1. p \in NewPeers(s, p.dev, InfraAddrs)
    BY <1>1, <1>6, PickedNew
  <2>2. /\ Moved(s, "add", p).active = s.active \cup {p}
        /\ Moved(s, "add", p).paused = s.paused
    BY <1>1, MovedIs DEF MovedTo, Scripts
  <2>3. /\ t.conf = [s.conf EXCEPT ![p.dev] = p] /\ MovedBlocks(s, r, t)
        /\ t.live = RouteTo(s.live, p) /\ w = "up"
    BY <1>2, <1>3, <1>5, <1>6 DEF Finished, ConfBy
  <2>4. t = Added(s, p, RouteTo(s.live, p), {"active", "conf"})
    BY <1>4, <1>6, <2>2, <2>3, Fields DEF Added, MovedBlocks
  <2>5. Ok(t) \in AddPlain(s, p)
    BY <2>4 DEF AddPlain
  <2> QED
    BY <1>6, <2>1, <2>3, <2>5 DEF Results, AddClient
<1>7. CASE r.script = "prepare"
  <2>1. p \in NewPeers(s, p.dev, InfraAddrs)
    BY <1>1, <1>7, PickedNew
  <2>2. /\ Moved(s, "prepare", p).active = s.active
        /\ Moved(s, "prepare", p).paused = s.paused \cup {p}
    BY <1>1, MovedIs DEF MovedTo, Scripts
  <2>3. /\ t.conf = [s.conf EXCEPT ![p.dev] = p] /\ MovedBlocks(s, r, t)
        /\ t.live = s.live
    BY <1>2, <1>5, <1>7 DEF Finished, Ordered, ConfBy
  <2>4. t = Added(s, p, s.live, {"paused", "conf"})
    BY <1>4, <1>7, <2>2, <2>3, Fields DEF Added, MovedBlocks
  <2>5. Ok(t) \in AddPrepared(s, p)
    BY <2>4 DEF AddPrepared
  <2> QED
    BY <1>7, <2>1, <2>5 DEF Results, PrepareClient
<1>8. CASE r.script = "remove"
  <2>1. s.conf[p.dev] = p /\ HasConf(s, p.dev) /\ OneBlock(s, p)
    BY <1>1, <1>8, PickedOld
  <2>2. /\ Moved(s, "remove", p).active = s.active \ {p}
        /\ Moved(s, "remove", p).paused = s.paused \ {p}
    BY <1>1, MovedIs DEF MovedTo, Scripts
  <2>3. /\ t.conf = [s.conf EXCEPT ![p.dev] = NoPeer] /\ MovedBlocks(s, r, t)
        /\ t.live = s.live \ {p} /\ w = "up"
    BY <1>2, <1>3, <1>5, <1>8 DEF Finished, Ordered, ConfBy
  <2>4. t = Removed(s, p.dev, AllParts)
    BY <1>4, <1>8, <2>1, <2>2, <2>3, Fields DEF Removed, AllParts, MovedBlocks
  <2> QED
    BY <1>8, <2>1, <2>3, <2>4 DEF Results, RemoveClient
<1>9. CASE r.script = "pause"
  <2> DEFINE e == Enveloped(s, p)
  <2>1. /\ s.conf[p.dev] = p /\ HasConf(s, p.dev) /\ OneBlock(s, p)
        /\ r.was = "active" \/ r.was = "paused"
    BY <1>1, <1>9, PickedOld
  <2>2. e \in Stores /\ e.conf = s.conf /\ e.live = s.live
    BY <1>1 DEF Enveloped, Stores
  <2>3. t.conf = s.conf /\ t.live = s.live \ {p} /\ w = "up"
    BY <1>2, <1>3, <1>5, <1>9 DEF Finished, Ordered, ConfBy
  <2>4. t.active = e.active /\ t.paused = e.paused
    <3>1. CASE r.was = "active"
      BY <1>2, <1>5, <1>9, <3>1 DEF Finished, MovedBlocks, Moved
    <3>2. CASE r.was = "paused"
      <4>1. Moved(s, r.script, p).active = s.active /\ Moved(s, r.script, p).paused = s.paused
        BY <1>1, <1>9, <3>2, MovedNothing
      <4>2. SameBlocks(s, t)
        BY <1>5, <4>1 DEF MovedBlocks, SameBlocks
      <4> QED
        BY <1>9, <4>1, <4>2 DEF SameBlocks, Moved
    <3> QED
      BY <2>1, <3>1, <3>2
  <2> HIDE DEF e
  <2>5. t = [e EXCEPT !.live = @ \ {p}]
    BY <1>4, <2>2, <2>3, <2>4 DEF Stores
  <2>6. Ok(t) \in PauseClient(s, p.dev, w)
    BY <2>1, <2>3, <2>5 DEF PauseClient, e
  <2> QED
    BY <1>9, <2>6 DEF Results
<1>10. CASE r.script = "resume"
  <2> DEFINE b == Restored(s, p)
  <2>1. /\ s.conf[p.dev] = p /\ HasConf(s, p.dev) /\ OneBlock(s, p)
        /\ r.was = "active" \/ r.was = "paused"
    BY <1>1, <1>10, PickedOld
  <2>2. b \in Stores /\ b.conf = s.conf /\ b.live = s.live
    BY <1>1 DEF Restored, Stores
  <2>3. t.conf = s.conf /\ t.live = RouteTo(s.live, p) /\ w = "up"
    BY <1>2, <1>3, <1>5, <1>10 DEF Finished, Ordered, ConfBy
  <2>4. t.active = b.active /\ t.paused = b.paused
    <3>1. CASE r.was = "paused"
      BY <1>2, <1>5, <1>10, <3>1 DEF Finished, MovedBlocks, Moved
    <3>2. CASE r.was = "active"
      <4>1. Moved(s, r.script, p).active = s.active /\ Moved(s, r.script, p).paused = s.paused
        BY <1>1, <1>10, <3>2, MovedNothing
      <4>2. SameBlocks(s, t)
        BY <1>5, <4>1 DEF MovedBlocks, SameBlocks
      <4> QED
        BY <1>10, <4>1, <4>2 DEF SameBlocks, Moved
    <3> QED
      BY <2>1, <3>1, <3>2
  <2> HIDE DEF b
  <2>5. t = [b EXCEPT !.live = RouteTo(@, p)]
    BY <1>4, <2>2, <2>3, <2>4 DEF Stores
  <2>6. Ok(t) \in ResumeClient(s, p.dev, w)
    BY <2>1, <2>3, <2>5 DEF ResumeClient, b
  <2> QED
    BY <1>10, <2>6 DEF Results
<1> QED
  BY <1>1, <1>6, <1>7, <1>8, <1>9, <1>10 DEF Scripts

-----------------------------------------------------------------------------
(* The store stays in order from script to script *)

LEMMA LiveDistinctSub ==
    ASSUME NEW s, NEW t, LiveDistinct(s), t.live \subseteq s.live PROVE LiveDistinct(t)
BY DEF LiveDistinct

LEMMA ResultTyped ==
    ASSUME NEW s, Quiet(s), NEW script \in Scripts, NEW d \in Devices, NEW w,
           NEW res \in Results(s, script, d, w)
    PROVE  Distinct(res.store, InfraAddrs)
<1>1. s \in Stores /\ Distinct(s, InfraAddrs)
  BY DEF Quiet
<1>2. CASE script = "add"
  BY <1>1, <1>2, AddClientDistinct DEF Results
<1>3. CASE script = "prepare"
  BY <1>1, <1>3, AddClientDistinct DEF Results
<1>4. CASE script = "remove"
  BY <1>1, <1>4, RemoveClientDistinct DEF Results
<1>5. CASE script = "pause"
  BY <1>1, <1>5, SetClientStateDistinct DEF Results
<1>6. CASE script = "resume"
  BY <1>1, <1>6, SetClientStateDistinct DEF Results
<1> QED
  BY <1>2, <1>3, <1>4, <1>5, <1>6 DEF Scripts

\* Whenever a script stops, the store is in order.
LEMMA ShapeQuiet ==
    ASSUME NEW s, Quiet(s), NEW r \in Runs, Chosen(s, r), NEW t, NEW w, Shape(s, r, t, w)
    PROVE  Quiet(t)
<1>1. t \in Stores /\ r.script \in Scripts /\ r.peer.dev \in Devices
  BY RunFields DEF Shape, Peers
<1>2. Distinct(t, InfraAddrs)
  <2>1. Failed(t) \in Results(s, r.script, r.peer.dev, w)
    BY ShapeResult
  <2>2. Distinct(Failed(t).store, InfraAddrs)
    BY <1>1, <2>1, ResultTyped
  <2> QED
    BY <2>2 DEF Failed
<1>3. LiveDistinct(t)
  <2>1. t.live \subseteq s.live \/ t.live \subseteq RouteTo(s.live, r.peer)
    BY <1>1 DEF Shape, Routes, Scripts
  <2>2. \A p, q \in RouteTo(s.live, r.peer) : p.addr = q.addr => p = q
    BY DEF Quiet, LiveDistinct, RouteTo
  <2> QED
    BY <2>1, <2>2 DEF Quiet, LiveDistinct
<1> QED
  BY <1>1, <1>2, <1>3 DEF Quiet

-----------------------------------------------------------------------------
(* The commands *)

\* After and Trap, as functions of the run and the stores they read.
Step(s, r, t, command) ==
    LET p == r.peer
    IN  CASE command = "setLive"      -> [t EXCEPT !.live = RouteTo(@, p)]
          [] command = "dropLive"     -> [t EXCEPT !.live = @ \ {p}]
          [] command = "moveBlock"    -> Moved(t, r.script, p)
          [] command = "restoreBlock" -> [t EXCEPT !.active = s.active, !.paused = s.paused]
          [] command = "moveClient"   -> [t EXCEPT !.conf[p.dev] = p]
          [] command = "removeClient" -> [t EXCEPT !.conf[p.dev] = NoPeer]
          [] command = "restoreClient" -> [t EXCEPT !.conf[p.dev] = s.conf[p.dev]]
          [] command = "check"        -> t

LEMMA AfterIsStep == ASSUME NEW command PROVE After(command) = Step(before, run, now, command)
BY DEF After, Step

LEMMA StepTyped ==
    ASSUME NEW s \in Stores, NEW r \in Runs, NEW t \in Stores, NEW c \in Commands
    PROVE  Step(s, r, t, c) \in Stores
<1> DEFINE p == r.peer
<1>1. p \in Peers /\ p.dev \in Devices /\ r.script \in Scripts
  BY RunFields DEF Peers
<1>2. RouteTo(t.live, p) \in SUBSET Peers
  BY <1>1, RouteToType DEF Stores
<1>3. CASE c = "moveBlock"
  <2>1. Moved(t, r.script, p) \in Stores
    BY <1>1 DEF Moved, Enveloped, Restored, Stores, Scripts
  <2> QED
    BY <1>3, <2>1 DEF Step
<1>4. CASE c = "setLive"
  BY <1>2, <1>4 DEF Step, Stores
<1>5. CASE c = "dropLive"
  BY <1>5 DEF Step, Stores
<1>6. CASE c = "restoreBlock"
  BY <1>6 DEF Step, Stores
<1>7. CASE c \in {"moveClient", "removeClient", "restoreClient", "check"}
  BY <1>1, <1>7 DEF Step, Stores
<1> QED
  BY <1>3, <1>4, <1>5, <1>6, <1>7 DEF Commands

\* What a command changes, part by part.
Stepped(s, r, t, c, u) ==
    LET p == r.peer
    IN  /\ u.live = CASE c = "setLive" -> RouteTo(t.live, p)
                      [] c = "dropLive" -> t.live \ {p}
                      [] OTHER -> t.live
        /\ u.active = CASE c = "moveBlock" -> Moved(t, r.script, p).active
                        [] c = "restoreBlock" -> s.active
                        [] OTHER -> t.active
        /\ u.paused = CASE c = "moveBlock" -> Moved(t, r.script, p).paused
                        [] c = "restoreBlock" -> s.paused
                        [] OTHER -> t.paused
        /\ u.conf = CASE c = "moveClient" -> [t.conf EXCEPT ![p.dev] = p]
                      [] c = "removeClient" -> [t.conf EXCEPT ![p.dev] = NoPeer]
                      [] c = "restoreClient" -> [t.conf EXCEPT ![p.dev] = s.conf[p.dev]]
                      [] OTHER -> t.conf

LEMMA StepIs ==
    ASSUME NEW s \in Stores, NEW r \in Runs, NEW t \in Stores, NEW c \in Commands
    PROVE  Stepped(s, r, t, c, Step(s, r, t, c))
<1> DEFINE p == r.peer
<1>1. p \in Peers /\ p.dev \in Devices /\ r.script \in Scripts
  BY RunFields DEF Peers
<1>2. CASE c = "moveBlock"
  <2>1. Moved(t, r.script, p).conf = t.conf /\ Moved(t, r.script, p).live = t.live
    BY <1>1 DEF Moved, Enveloped, Restored, Stores, Scripts
  <2> QED
    BY <1>2, <2>1 DEF Stepped, Step
<1>3. CASE c = "setLive"
  BY <1>3 DEF Stepped, Step, Stores
<1>4. CASE c = "dropLive"
  BY <1>4 DEF Stepped, Step, Stores
<1>5. CASE c = "restoreBlock"
  BY <1>5 DEF Stepped, Step, Stores
<1>6. CASE c = "moveClient"
  BY <1>1, <1>6 DEF Stepped, Step, Stores
<1>7. CASE c = "removeClient"
  BY <1>1, <1>7 DEF Stepped, Step, Stores
<1>8. CASE c = "restoreClient"
  BY <1>1, <1>8 DEF Stepped, Step, Stores
<1>9. CASE c = "check"
  BY <1>9 DEF Stepped, Step
<1> QED
  BY <1>2, <1>3, <1>4, <1>5, <1>6, <1>7, <1>8, <1>9 DEF Commands

With(did, c) == did \cup {c}

\* A command that works adds itself to what is done.
LEMMA DoneStep ==
    ASSUME NEW s \in Stores, NEW r \in Runs, NEW did, NEW c \in Commands,
           Ordered(r.script, r.was, With(did, c)),
           NEW t, t = Done(s, r.script, r.peer, did)
    PROVE  Step(s, r, t, c) = Done(s, r.script, r.peer, With(did, c))
<1> DEFINE p == r.peer
           all == did \cup {c}
           u == Step(s, r, t, c)
           v == Done(s, r.script, p, all)
<1>1. p \in Peers /\ p.dev \in Devices /\ r.script \in Scripts
  BY RunFields DEF Peers
<1>2. t \in Stores /\ v \in Stores /\ u \in Stores
  BY <1>1, DoneTyped, StepTyped
<1>3. /\ t.conf = IF did \cap {"moveClient", "removeClient"} # {} THEN ConfBy(s, r.script, p) ELSE s.conf
      /\ t.active = IF "moveBlock" \in did THEN Moved(s, r.script, p).active ELSE s.active
      /\ t.paused = IF "moveBlock" \in did THEN Moved(s, r.script, p).paused ELSE s.paused
      /\ t.live = IF "setLive" \in did THEN RouteTo(s.live, p)
                  ELSE IF "dropLive" \in did THEN s.live \ {p} ELSE s.live
  BY DEF Done
<1>4. /\ v.conf = IF all \cap {"moveClient", "removeClient"} # {} THEN ConfBy(s, r.script, p) ELSE s.conf
      /\ v.active = IF "moveBlock" \in all THEN Moved(s, r.script, p).active ELSE s.active
      /\ v.paused = IF "moveBlock" \in all THEN Moved(s, r.script, p).paused ELSE s.paused
      /\ v.live = IF "setLive" \in all THEN RouteTo(s.live, p)
                  ELSE IF "dropLive" \in all THEN s.live \ {p} ELSE s.live
  BY DEF Done
<1>5. Stepped(s, r, t, c, u)
  BY <1>2, StepIs
<1> SUFFICES u = v
  BY DEF With
<1>6. /\ c \notin {"restoreBlock", "restoreClient"}
      /\ c = "setLive" \/ "setLive" \in did => "dropLive" \notin did /\ c # "dropLive"
      /\ c = "moveClient" => r.script \in {"add", "prepare"}
      /\ c = "removeClient" => r.script = "remove"
  BY <1>1 DEF Ordered, Scripts, With
<1> HIDE DEF u, v
<1>7. u.live = v.live
  <2>1. RouteTo(RouteTo(s.live, p), p) = RouteTo(s.live, p)
    BY DEF RouteTo
  <2>2. CASE c = "setLive"
    BY <1>3, <1>4, <1>5, <1>6, <2>1, <2>2 DEF Stepped
  <2>3. CASE c = "dropLive"
    BY <1>3, <1>4, <1>5, <1>6, <2>3 DEF Stepped
  <2>4. CASE c \notin {"setLive", "dropLive"}
    BY <1>3, <1>4, <1>5, <2>4 DEF Stepped
  <2> QED
    BY <2>2, <2>3, <2>4
<1>8. u.active = v.active /\ u.paused = v.paused
  <2>1. CASE c = "moveBlock"
    <3>1. /\ MovedTo(s, r.script, p, Moved(s, r.script, p))
          /\ MovedTo(t, r.script, p, Moved(t, r.script, p))
      BY <1>1, <1>2, MovedIs
    <3>2. /\ u.active = Moved(t, r.script, p).active /\ u.paused = Moved(t, r.script, p).paused
          /\ v.active = Moved(s, r.script, p).active /\ v.paused = Moved(s, r.script, p).paused
          /\ t.active \in {s.active, Moved(s, r.script, p).active}
          /\ t.paused \in {s.paused, Moved(s, r.script, p).paused}
      BY <1>3, <1>4, <1>5, <2>1 DEF Stepped
    <3> QED
      BY <1>1, <3>1, <3>2 DEF MovedTo, Scripts
  <2>2. CASE c # "moveBlock"
    BY <1>3, <1>4, <1>5, <1>6, <2>2 DEF Stepped
  <2> QED
    BY <2>1, <2>2
<1>9. u.conf = v.conf
  <2>1. CASE c = "moveClient"
    <3>1. ConfBy(s, r.script, p) = [s.conf EXCEPT ![p.dev] = p]
      BY <1>6, <2>1 DEF ConfBy
    <3>2. t.conf \in {s.conf, [s.conf EXCEPT ![p.dev] = p]}
      BY <1>3, <3>1
    <3>3. [t.conf EXCEPT ![p.dev] = p] = [s.conf EXCEPT ![p.dev] = p]
      BY <1>1, <3>2 DEF Stores
    <3> QED
      BY <1>4, <1>5, <2>1, <3>1, <3>3 DEF Stepped
  <2>2. CASE c = "removeClient"
    <3>1. ConfBy(s, r.script, p) = [s.conf EXCEPT ![p.dev] = NoPeer]
      BY <1>6, <2>2 DEF ConfBy
    <3>2. t.conf \in {s.conf, [s.conf EXCEPT ![p.dev] = NoPeer]}
      BY <1>3, <3>1
    <3>3. [t.conf EXCEPT ![p.dev] = NoPeer] = [s.conf EXCEPT ![p.dev] = NoPeer]
      BY <1>1, <3>2 DEF Stores
    <3> QED
      BY <1>4, <1>5, <2>2, <3>1, <3>3 DEF Stepped
  <2>3. CASE c \notin {"moveClient", "removeClient"}
    BY <1>3, <1>4, <1>5, <1>6, <2>3 DEF Stepped
  <2> QED
    BY <2>1, <2>2, <2>3
<1> QED
  BY <1>2, <1>7, <1>8, <1>9, SameStore DEF SameBlocks

-----------------------------------------------------------------------------
(* The trap *)

If(b, command) == IF b THEN <<command>> ELSE <<>>

\* Trap, as a function of the run and the store it reads.
TrapOf(r, t) ==
    CASE r.script \in {"add", "prepare"} ->
            If("moveBlock" \in r.did, "restoreBlock") \o If("setLive" \in r.did, "dropLive")
            \o <<"removeClient">>
      [] r.script = "remove" ->
            If("moveBlock" \in r.did, "restoreBlock")
            \o If("dropLive" \in r.did /\ r.seen /\ r.was = "active", "setLive")
            \o If(~HasConf(t, r.peer.dev), "restoreClient")
      [] r.script = "resume" -> If(r.was = "paused" /\ "moveBlock" \notin r.did, "dropLive")
      [] r.script = "pause"  -> <<>>

LEMMA InIf ==
    ASSUME NEW y \in Commands, NEW list, list = <<y>> \/ list = <<>>
    PROVE  /\ list \in Seq(Commands)
           /\ \A x : In(x, list) <=> list # <<>> /\ x = y
<1>1. CASE list = <<y>>
  <2>1. <<y>> \in Seq(Commands) /\ <<y>> # <<>>
    OBVIOUS
  <2>2. \A x : In(x, <<y>>) <=> x = y
    BY InOne
  <2> QED
    BY <1>1, <2>1, <2>2
<1>2. CASE list = <<>>
  <2>1. \A x : ~In(x, <<>>)
    BY InNone
  <2>2. <<>> \in Seq(Commands)
    OBVIOUS
  <2> QED
    BY <1>2, <2>1, <2>2
<1> QED
  BY <1>1, <1>2

\* Which commands the trap of a failed script will run.
InTrap(r, t, x) ==
    CASE r.script \in {"add", "prepare"} -> \/ "moveBlock" \in r.did /\ x = "restoreBlock"
                                            \/ "setLive" \in r.did /\ x = "dropLive"
                                            \/ x = "removeClient"
      [] r.script = "remove" -> \/ "moveBlock" \in r.did /\ x = "restoreBlock"
                                \/ /\ "dropLive" \in r.did /\ r.seen /\ r.was = "active"
                                   /\ x = "setLive"
                                \/ ~HasConf(t, r.peer.dev) /\ x = "restoreClient"
      [] r.script = "resume" -> r.was = "paused" /\ "moveBlock" \notin r.did /\ x = "dropLive"
      [] r.script = "pause"  -> FALSE

LEMMA TrapIs ==
    ASSUME NEW r \in Runs, NEW t
    PROVE  TrapOf(r, t) \in Seq(Commands) /\ (\A x : In(x, TrapOf(r, t)) <=> InTrap(r, t, x))
<1>1. r.script \in Scripts
  BY RunFields
<1>2. {"restoreBlock", "dropLive", "removeClient", "setLive", "restoreClient"} \subseteq Commands
  BY DEF Commands
<1>3. CASE r.script \in {"add", "prepare"}
  <2> DEFINE a == If("moveBlock" \in r.did, "restoreBlock")
             b == If("setLive" \in r.did, "dropLive")
             c == <<"removeClient">>
  <2> HIDE DEF c
  <2>0. /\ a = (IF "moveBlock" \in r.did THEN <<"restoreBlock">> ELSE <<>>)
        /\ b = (IF "setLive" \in r.did THEN <<"dropLive">> ELSE <<>>)
        /\ \A y : <<y>> # <<>>
    BY DEF If
  <2>1. /\ a \in Seq(Commands) /\ \A x : In(x, a) <=> "moveBlock" \in r.did /\ x = "restoreBlock"
        /\ b \in Seq(Commands) /\ \A x : In(x, b) <=> "setLive" \in r.did /\ x = "dropLive"
    <3> HIDE DEF a, b
    <3>1. /\ a \in Seq(Commands) /\ \A x : In(x, a) <=> a # <<>> /\ x = "restoreBlock"
          /\ b \in Seq(Commands) /\ \A x : In(x, b) <=> b # <<>> /\ x = "dropLive"
      BY <1>2, <2>0, InIf
    <3> QED
      BY <2>0, <3>1
  <2>2. c \in Seq(Commands) /\ \A x : In(x, c) <=> x = "removeClient"
    BY <1>2, InOne DEF c
  <2>3. TrapOf(r, t) = a \o b \o c
    BY <1>3 DEF TrapOf, c
  <2> HIDE DEF a, b
  <2>4. a \o b \in Seq(Commands) /\ a \o b \o c \in Seq(Commands)
    BY <2>1, <2>2
  <2>5. \A x : In(x, a \o b) <=> In(x, a) \/ In(x, b)
    BY <2>1, InConcat
  <2>6. \A x : In(x, a \o b \o c) <=> In(x, a \o b) \/ In(x, c)
    <3> DEFINE ab == a \o b
    <3>1. ab \in Seq(Commands) /\ c \in Seq(Commands)
      BY <2>2, <2>4
    <3> HIDE DEF ab
    <3>2. \A x : In(x, ab \o c) <=> In(x, ab) \/ In(x, c)
      BY <3>1, InConcat
    <3> QED
      BY <3>2 DEF ab
  <2>7. \A x : InTrap(r, t, x) <=> \/ "moveBlock" \in r.did /\ x = "restoreBlock"
                                   \/ "setLive" \in r.did /\ x = "dropLive"
                                   \/ x = "removeClient"
    BY <1>3 DEF InTrap
  <2> QED
    BY <2>1, <2>2, <2>3, <2>4, <2>5, <2>6, <2>7
<1>4. CASE r.script = "remove"
  <2> DEFINE a == If("moveBlock" \in r.did, "restoreBlock")
             b == If("dropLive" \in r.did /\ r.seen /\ r.was = "active", "setLive")
             c == If(~HasConf(t, r.peer.dev), "restoreClient")
  <2>0. /\ a = (IF "moveBlock" \in r.did THEN <<"restoreBlock">> ELSE <<>>)
        /\ b = (IF "dropLive" \in r.did /\ r.seen /\ r.was = "active" THEN <<"setLive">> ELSE <<>>)
        /\ c = (IF ~HasConf(t, r.peer.dev) THEN <<"restoreClient">> ELSE <<>>)
        /\ \A y : <<y>> # <<>>
    BY DEF If
  <2>1. /\ a \in Seq(Commands) /\ \A x : In(x, a) <=> "moveBlock" \in r.did /\ x = "restoreBlock"
        /\ b \in Seq(Commands) /\ \A x : In(x, b) <=> /\ "dropLive" \in r.did /\ r.seen
                                                      /\ r.was = "active" /\ x = "setLive"
        /\ c \in Seq(Commands) /\ \A x : In(x, c) <=> ~HasConf(t, r.peer.dev) /\ x = "restoreClient"
    <3> HIDE DEF a, b, c
    <3>1. /\ a \in Seq(Commands) /\ \A x : In(x, a) <=> a # <<>> /\ x = "restoreBlock"
          /\ b \in Seq(Commands) /\ \A x : In(x, b) <=> b # <<>> /\ x = "setLive"
          /\ c \in Seq(Commands) /\ \A x : In(x, c) <=> c # <<>> /\ x = "restoreClient"
      BY <1>2, <2>0, InIf
    <3> QED
      BY <2>0, <3>1
  <2>2. TrapOf(r, t) = a \o b \o c
    BY <1>4 DEF TrapOf
  <2> HIDE DEF a, b, c
  <2>3. a \o b \in Seq(Commands) /\ a \o b \o c \in Seq(Commands)
    BY <2>1
  <2>4. \A x : In(x, a \o b) <=> In(x, a) \/ In(x, b)
    BY <2>1, InConcat
  <2>5. \A x : In(x, a \o b \o c) <=> In(x, a \o b) \/ In(x, c)
    <3> DEFINE ab == a \o b
    <3>1. ab \in Seq(Commands) /\ c \in Seq(Commands)
      BY <2>1, <2>3
    <3> HIDE DEF ab
    <3>2. \A x : In(x, ab \o c) <=> In(x, ab) \/ In(x, c)
      BY <3>1, InConcat
    <3> QED
      BY <3>2 DEF ab
  <2>6. \A x : InTrap(r, t, x) <=> \/ "moveBlock" \in r.did /\ x = "restoreBlock"
                                   \/ /\ "dropLive" \in r.did /\ r.seen /\ r.was = "active"
                                      /\ x = "setLive"
                                   \/ ~HasConf(t, r.peer.dev) /\ x = "restoreClient"
    BY <1>4 DEF InTrap
  <2> QED
    BY <2>1, <2>2, <2>3, <2>4, <2>5, <2>6
<1>5. CASE r.script = "resume"
  <2>1. TrapOf(r, t) = IF r.was = "paused" /\ "moveBlock" \notin r.did THEN <<"dropLive">> ELSE <<>>
    BY <1>5 DEF TrapOf, If
  <2>2. \A x : InTrap(r, t, x) <=> r.was = "paused" /\ "moveBlock" \notin r.did /\ x = "dropLive"
    BY <1>5 DEF InTrap
  <2> DEFINE a == TrapOf(r, t)
  <2> HIDE DEF a
  <2>3. a \in Seq(Commands) /\ \A x : In(x, a) <=> a # <<>> /\ x = "dropLive"
    BY <1>2, <2>1, InIf DEF a
  <2>4. <<"dropLive">> # <<>>
    OBVIOUS
  <2> QED
    BY <2>1, <2>2, <2>3, <2>4 DEF a
<1>6. CASE r.script = "pause"
  <2>1. TrapOf(r, t) = <<>> /\ <<>> \in Seq(Commands)
    BY <1>6 DEF TrapOf
  <2>2. \A x : ~InTrap(r, t, x)
    BY <1>6 DEF InTrap
  <2> QED
    BY <2>1, <2>2, InNone
<1> QED
  BY <1>1, <1>3, <1>4, <1>5, <1>6 DEF Scripts

LEMMA InTrapAllowed ==
    ASSUME NEW r \in Runs, Ordered(r.script, r.was, r.did), NEW t, NEW x, InTrap(r, t, x)
    PROVE  x \in TrapCommands(r)
<1>1. CASE r.script = "add"
  BY <1>1 DEF InTrap, TrapCommands
<1>2. CASE r.script = "prepare"
  BY <1>2 DEF InTrap, TrapCommands, Ordered
<1>3. CASE r.script = "remove"
  BY <1>3 DEF InTrap, TrapCommands
<1>4. CASE r.script = "pause"
  BY <1>4 DEF InTrap
<1>5. CASE r.script = "resume"
  BY <1>5 DEF InTrap, TrapCommands
<1> QED
  BY <1>1, <1>2, <1>3, <1>4, <1>5, RunFields DEF Scripts

LEMMA TrapIsTrapOf == run \in Runs => Trap(run.did) = TrapOf(run, now)
BY RunFields DEF Trap, TrapOf, AddTrap, RemovalTrap, ResumeTrap, If, Scripts

\* A run keeps its peer and what its parser found.
SameRun(r, q) == /\ q \in Runs /\ q.script = r.script /\ q.peer = r.peer /\ q.was = r.was
                 /\ q.seen = r.seen

LEMMA SameRunSame ==
    ASSUME NEW r \in Runs, NEW q, SameRun(r, q), NEW s, NEW t, NEW w
    PROVE  /\ Chosen(s, r) => Chosen(s, q)
           /\ Shape(s, r, t, w) => Shape(s, q, t, w)
           /\ TrapCommands(q) = TrapCommands(r)
<1>1. Chosen(s, r) => Chosen(s, q)
  BY DEF SameRun, Chosen
<1>2. MovedBlocks(s, r, t) => MovedBlocks(s, q, t)
  BY DEF SameRun, MovedBlocks
<1>3. Routes(s, r) = Routes(s, q)
  BY DEF SameRun, Routes
<1>4. Shape(s, r, t, w) => Shape(s, q, t, w)
  BY <1>2, <1>3 DEF SameRun, Shape
<1>5. TrapCommands(q) = TrapCommands(r)
  BY DEF SameRun, TrapCommands
<1> QED
  BY <1>1, <1>4, <1>5

\* When the trap takes over, it still owes what the script had done.
LEMMA TrapOwes ==
    ASSUME NEW s, Quiet(s), NEW r \in Runs, Chosen(s, r), NEW t, NEW w,
           Following(s, r, t, w), NEW q, SameRun(r, q), q.todo = TrapOf(r, t)
    PROVE  Owed(s, q, t)
<1> DEFINE p == r.peer
<1>1. /\ s \in Stores /\ r.script \in Scripts /\ p \in Peers /\ p.dev \in Devices
      /\ r.was = "active" \/ r.was = "paused"
  BY RunFields DEF Quiet, Peers
<1>2. Ordered(r.script, r.was, r.did)
  BY <1>1, StandsOrdered DEF Following
<1>3. t \in Stores /\ (r.did = {} => t = s)
  <2>1. t \in Stores
    BY <1>1, DoneTyped DEF Following
  <2>2. r.did = {} => t = s
    BY <1>1, <2>1, SameStore DEF Following, Done, SameBlocks
  <2> QED
    BY <2>1, <2>2
<1>4. /\ t.conf = IF r.did \cap {"moveClient", "removeClient"} # {} THEN ConfBy(s, r.script, p) ELSE s.conf
      /\ "moveBlock" \in r.did => MovedBlocks(s, r, t)
      /\ "moveBlock" \notin r.did => SameBlocks(s, t)
      /\ t.live = IF "setLive" \in r.did THEN RouteTo(s.live, p)
                  ELSE IF "dropLive" \in r.did THEN s.live \ {p} ELSE s.live
  BY DEF Following, Done, MovedBlocks, SameBlocks
<1>5. \A x : In(x, q.todo) <=> InTrap(r, t, x)
  BY TrapIs
<1>6. q.script = r.script /\ q.peer = p /\ q.was = r.was /\ q.seen = r.seen
  BY DEF SameRun
<1>7. CASE r.script \in {"add", "prepare"}
  <2>1. p \notin s.live
    BY <1>1, <1>7, PickedNew
  <2>2. \A x : In(x, q.todo) <=> \/ "moveBlock" \in r.did /\ x = "restoreBlock"
                                 \/ "setLive" \in r.did /\ x = "dropLive"
                                 \/ x = "removeClient"
    BY <1>5, <1>7 DEF InTrap
  <2> QED
    BY <1>4, <1>6, <1>7, <2>1, <2>2 DEF Owed
<1>8. CASE r.script = "remove"
  <2>1. \A x : In(x, q.todo) <=> \/ "moveBlock" \in r.did /\ x = "restoreBlock"
                                 \/ /\ "dropLive" \in r.did /\ r.seen /\ r.was = "active"
                                    /\ x = "setLive"
                                 \/ ~HasConf(t, p.dev) /\ x = "restoreClient"
    BY <1>5, <1>8 DEF InTrap
  <2>2. t.conf = s.conf \/ In("restoreClient", q.todo)
    <3>1. CASE "removeClient" \in r.did
      <4>1. t.conf = [s.conf EXCEPT ![p.dev] = NoPeer]
        BY <1>4, <1>8, <3>1 DEF ConfBy
      <4>2. ~HasConf(t, p.dev)
        BY <1>1, <4>1 DEF HasConf, Stores
      <4> QED
        BY <2>1, <4>2
    <3>2. CASE "removeClient" \notin r.did
      BY <1>2, <1>4, <1>8, <3>2 DEF Ordered
    <3> QED
      BY <3>1, <3>2
  <2>3. r.was = "active" => t.live = s.live \/ In("setLive", q.todo)
    <3>1. r.seen = (p \in s.live)
      BY DEF Chosen
    <3>2. CASE "dropLive" \in r.did /\ p \in s.live
      BY <2>1, <3>1, <3>2
    <3>3. CASE "dropLive" \notin r.did \/ p \notin s.live
      BY <1>2, <1>4, <1>8, <3>3 DEF Ordered
    <3> QED
      BY <3>2, <3>3
  <2> QED
    BY <1>4, <1>6, <1>8, <2>1, <2>2, <2>3 DEF Owed
<1>9. CASE r.script = "pause"
  <2>1. r.was = "paused" => p \notin s.active
    BY <1>1, <1>9, PickedOld
  <2>2. "moveBlock" \in r.did => p \notin t.active
    <3>1. MovedTo(s, "pause", p, Moved(s, "pause", p))
      BY <1>1, MovedIs DEF Scripts
    <3> QED
      BY <1>4, <1>9, <3>1 DEF MovedTo, MovedBlocks
  <2>3. t = s \/ p \notin t.active
    BY <1>1, <1>2, <1>3, <1>4, <1>9, <2>1, <2>2 DEF Ordered, SameBlocks
  <2> QED
    BY <1>6, <1>9, <2>3 DEF Owed
<1>10. CASE r.script = "resume"
  <2>1. r.was = "active" => p \in s.active
    BY <1>1, <1>10, PickedOld
  <2>2. "moveBlock" \in r.did => p \in t.active
    <3>1. MovedTo(s, "resume", p, Moved(s, "resume", p))
      BY <1>1, MovedIs DEF Scripts
    <3> QED
      BY <1>4, <1>10, <3>1 DEF MovedTo, MovedBlocks
  <2>3. r.did # {} => p \in t.live
    BY <1>2, <1>4, <1>10 DEF Ordered, RouteTo
  <2>4. In("dropLive", q.todo) <=> r.was = "paused" /\ "moveBlock" \notin r.did
    BY <1>5, <1>10 DEF InTrap
  <2>5. \/ t = s
        \/ p \in t.active \cap t.live
        \/ r.was = "paused" /\ SameBlocks(s, t) /\ In("dropLive", q.todo)
    BY <1>1, <1>3, <1>4, <2>1, <2>2, <2>3, <2>4 DEF SameBlocks
  <2> QED
    BY <1>6, <1>10, <2>5 DEF Owed
<1> QED
  BY <1>1, <1>7, <1>8, <1>9, <1>10 DEF Scripts

\* Taking the route to an address that only its holder has changes nothing.
LEMMA RouteToOwn ==
    ASSUME NEW s, LiveDistinct(s), NEW p \in s.live
    PROVE  RouteTo(s.live, p) = s.live /\ RouteTo(s.live \ {p}, p) = s.live
BY DEF LiveDistinct, RouteTo

\* A command of the trap leaves a result of the script.
LEMMA TrapStepShape ==
    ASSUME NEW s, Quiet(s), NEW r \in Runs, Chosen(s, r), NEW t, NEW w, Shape(s, r, t, w),
           NEW c \in TrapCommands(r) \cap Commands, UsesWg(c) => w = "up",
           r.script = "resume" => SameBlocks(s, t)
    PROVE  Shape(s, r, Step(s, r, t, c), w)
<1> DEFINE p == r.peer
           u == Step(s, r, t, c)
<1>1. /\ s \in Stores /\ t \in Stores /\ r.script \in Scripts /\ p \in Peers /\ p.dev \in Devices
      /\ LiveDistinct(s)
  BY RunFields DEF Quiet, Peers, Shape
<1>2. u \in Stores /\ Stepped(s, r, t, c, u)
  BY <1>1, StepTyped, StepIs
<1> SUFFICES Shape(s, r, u, w)
  OBVIOUS
<1> HIDE DEF u
<1>3. CASE r.script \in {"add", "prepare"}
  <2>1. /\ p \notin s.live /\ s.conf[p.dev] = NoPeer
    BY <1>1, <1>3, PickedNew
  <2>2. /\ c \in {"restoreBlock", "dropLive", "removeClient"}
        /\ r.script = "prepare" => c # "dropLive"
    BY <1>3 DEF TrapCommands
  <2>3. u.conf \in {s.conf, ConfBy(s, r.script, p)}
    <3>1. t.conf \in {s.conf, [s.conf EXCEPT ![p.dev] = p]}
      BY <1>3 DEF Shape, ConfBy
    <3>2. [t.conf EXCEPT ![p.dev] = NoPeer] = s.conf
      BY <1>1, <2>1, <3>1 DEF Stores
    <3> QED
      BY <1>2, <1>3, <2>2, <3>1, <3>2 DEF Stepped, ConfBy
  <2>4. SameBlocks(s, u) \/ MovedBlocks(s, r, u)
    BY <1>2, <2>2 DEF Stepped, Shape, SameBlocks, MovedBlocks
  <2>5. u.live \in Routes(s, r)
    BY <1>2, <1>3, <2>1, <2>2 DEF Stepped, Shape, Routes
  <2>6. r.script = "add" => u = s \/ w = "up"
    <3>1. ASSUME r.script = "add", w # "up" PROVE u = s
      <4>1. t = s /\ c # "dropLive"
        BY <3>1 DEF Shape, UsesWg
      <4>2. [s.conf EXCEPT ![p.dev] = NoPeer] = s.conf
        BY <1>1, <2>1 DEF Stores
      <4>3. u.conf = s.conf /\ u.live = s.live /\ SameBlocks(s, u)
        BY <1>2, <2>2, <4>1, <4>2 DEF Stepped, SameBlocks
      <4> QED
        BY <1>1, <1>2, <4>3, SameStore
    <3> QED
      BY <3>1
  <2> QED
    BY <1>2, <1>3, <2>3, <2>4, <2>5, <2>6 DEF Shape
<1>4. CASE r.script = "remove"
  <2>1. /\ c \in {"restoreBlock", "restoreClient", "setLive"}
        /\ c = "setLive" => r.seen /\ r.was = "active"
    BY <1>4 DEF TrapCommands
  <2>2. c = "setLive" => p \in s.live
    BY <2>1 DEF Chosen
  <2>3. u.conf \in {s.conf, ConfBy(s, r.script, p)}
    <3>1. t.conf \in {s.conf, [s.conf EXCEPT ![p.dev] = NoPeer]}
      BY <1>4 DEF Shape, ConfBy
    <3>2. [t.conf EXCEPT ![p.dev] = s.conf[p.dev]] = s.conf
      BY <1>1, <3>1 DEF Stores
    <3> QED
      BY <1>2, <1>4, <2>1, <3>1, <3>2 DEF Stepped, ConfBy
  <2>4. SameBlocks(s, u) \/ MovedBlocks(s, r, u)
    BY <1>2, <2>1 DEF Stepped, Shape, SameBlocks, MovedBlocks
  <2>5. t.live \in {s.live, s.live \ {p}}
    BY <1>4 DEF Shape, Routes
  <2>6. u.live \in {s.live, s.live \ {p}} /\ (c # "setLive" => u.live = t.live)
    <3>1. CASE c = "setLive"
      BY <1>1, <1>2, <2>2, <2>5, <3>1, RouteToOwn DEF Stepped
    <3>2. CASE c # "setLive"
      BY <1>2, <2>1, <2>5, <3>2 DEF Stepped
    <3> QED
      BY <3>1, <3>2
  <2>7. c # "setLive" /\ t = s => u = s
    <3>1. ASSUME c # "setLive", t = s PROVE u = s
      <4>1. [s.conf EXCEPT ![p.dev] = s.conf[p.dev]] = s.conf
        BY <1>1 DEF Stores
      <4>2. u.conf = s.conf /\ u.live = s.live /\ SameBlocks(s, u)
        BY <1>2, <2>1, <3>1, <4>1 DEF Stepped, SameBlocks
      <4> QED
        BY <1>1, <1>2, <4>2, SameStore
    <3> QED
      BY <3>1
  <2>8. r.was = "active" \/ u = s \/ p \notin u.live
    BY <1>4, <2>1, <2>6, <2>7 DEF Shape
  <2>9. u = s \/ w = "up"
    BY <1>4, <2>7 DEF Shape, UsesWg
  <2> QED
    BY <1>2, <1>4, <2>3, <2>4, <2>6, <2>8, <2>9 DEF Shape, Routes
<1>5. CASE r.script = "pause"
  BY <1>5 DEF TrapCommands
<1>6. CASE r.script = "resume"
  <2>1. c = "dropLive" /\ r.was = "paused" /\ w = "up"
    BY <1>6 DEF TrapCommands, UsesWg
  <2>2. u.conf = t.conf /\ SameBlocks(s, u) /\ u.live = t.live \ {p}
    BY <1>2, <1>6, <2>1 DEF Stepped, SameBlocks
  <2>3. t.live \in {s.live, RouteTo(s.live, p), RouteTo(s.live, p) \ {p}}
    BY <1>6, <2>1 DEF Shape, Routes
  <2>4. s.live \ {p} \in {s.live, RouteTo(s.live, p) \ {p}}
    <3>1. CASE p \in s.live
      BY <1>1, <3>1, RouteToOwn
    <3>2. CASE p \notin s.live
      BY <3>2
    <3> QED
      BY <3>1, <3>2
  <2>5. u.live \in Routes(s, r)
    BY <1>6, <2>1, <2>2, <2>3, <2>4 DEF Routes
  <2> QED
    BY <1>2, <1>6, <2>1, <2>2, <2>5 DEF Shape
<1> QED
  BY <1>1, <1>3, <1>4, <1>5, <1>6 DEF Scripts

\* A command of the trap that works pays what was owed to it.
LEMMA TrapStepOwes ==
    ASSUME NEW s, Quiet(s), NEW r \in Runs, Chosen(s, r), NEW t, NEW w, Shape(s, r, t, w),
           Owed(s, r, t), r.script = "resume" => SameBlocks(s, t),
           NEW c \in TrapCommands(r) \cap Commands,
           r.todo # <<>>, c = Head(r.todo), NEW q, SameRun(r, q), q.todo = Tail(r.todo)
    PROVE  Owed(s, q, Step(s, r, t, c))
<1> DEFINE p == r.peer
           u == Step(s, r, t, c)
<1>1. /\ s \in Stores /\ t \in Stores /\ r.script \in Scripts /\ p \in Peers /\ p.dev \in Devices
      /\ LiveDistinct(s)
  BY RunFields DEF Quiet, Peers, Shape
<1>2. u \in Stores /\ Stepped(s, r, t, c, u)
  BY <1>1, StepTyped, StepIs
<1>3. \A x : In(x, r.todo) <=> x = c \/ In(x, q.todo)
  BY RunFields, InTail
<1>4. q.script = r.script /\ q.peer = p /\ q.was = r.was /\ q.seen = r.seen
  BY DEF SameRun
<1> SUFFICES Owed(s, q, u)
  OBVIOUS
<1> HIDE DEF u
<1>5. SameBlocks(s, t) \/ c = "restoreBlock" => SameBlocks(s, u)
  <2>1. c # "moveBlock"
    BY <1>1 DEF TrapCommands, Scripts
  <2> QED
    BY <1>2, <2>1 DEF Stepped, SameBlocks
<1>6. CASE r.script \in {"add", "prepare"}
  <2>1. /\ p \notin s.live /\ s.conf[p.dev] = NoPeer
    BY <1>1, <1>6, PickedNew
  <2>2. c \in {"restoreBlock", "dropLive", "removeClient"}
    BY <1>6 DEF TrapCommands
  <2>3. SameBlocks(s, u) \/ In("restoreBlock", q.todo)
    BY <1>3, <1>5, <1>6 DEF Owed
  <2>4. u.conf = s.conf \/ In("removeClient", q.todo)
    <3>1. t.conf \in {s.conf, [s.conf EXCEPT ![p.dev] = p]}
      BY <1>6 DEF Shape, ConfBy
    <3>2. [t.conf EXCEPT ![p.dev] = NoPeer] = s.conf
      BY <1>1, <2>1, <3>1 DEF Stores
    <3> QED
      BY <1>2, <1>3, <1>6, <2>2, <3>2 DEF Stepped, Owed
  <2>5. p \notin u.live \/ In("dropLive", q.todo)
    BY <1>2, <1>3, <1>6, <2>2 DEF Stepped, Owed
  <2> QED
    BY <1>4, <1>6, <2>3, <2>4, <2>5 DEF Owed
<1>7. CASE r.script = "remove"
  <2>1. /\ c \in {"restoreBlock", "restoreClient", "setLive"}
        /\ c = "setLive" => r.seen /\ r.was = "active"
    BY <1>7 DEF TrapCommands
  <2>2. c = "setLive" => p \in s.live
    BY <2>1 DEF Chosen
  <2>3. SameBlocks(s, u) \/ In("restoreBlock", q.todo)
    BY <1>3, <1>5, <1>7 DEF Owed
  <2>4. u.conf = s.conf \/ In("restoreClient", q.todo)
    <3>1. t.conf \in {s.conf, [s.conf EXCEPT ![p.dev] = NoPeer]}
      BY <1>7 DEF Shape, ConfBy
    <3>2. [t.conf EXCEPT ![p.dev] = s.conf[p.dev]] = s.conf
      BY <1>1, <3>1 DEF Stores
    <3> QED
      BY <1>2, <1>3, <1>7, <2>1, <3>2 DEF Stepped, Owed
  <2>5. r.was = "active" => u.live = s.live \/ In("setLive", q.todo)
    <3>1. t.live \in {s.live, s.live \ {p}}
      BY <1>7 DEF Shape, Routes
    <3>2. CASE c = "setLive"
      BY <1>1, <1>2, <2>2, <3>1, <3>2, RouteToOwn DEF Stepped
    <3>3. CASE c # "setLive"
      BY <1>2, <1>3, <1>7, <2>1, <3>3 DEF Stepped, Owed
    <3> QED
      BY <3>2, <3>3
  <2> QED
    BY <1>4, <1>7, <2>3, <2>4, <2>5 DEF Owed
<1>8. CASE r.script = "pause"
  BY <1>8 DEF TrapCommands
<1>9. CASE r.script = "resume"
  <2>1. c = "dropLive" /\ r.was = "paused"
    BY <1>9 DEF TrapCommands
  <2>2. u.conf = t.conf /\ u.active = t.active /\ u.paused = t.paused /\ u.live = t.live \ {p}
    BY <1>2, <2>1 DEF Stepped
  <2> QED
    BY <1>4, <1>5, <1>9, <2>1, <2>2 DEF Owed
<1> QED
  BY <1>1, <1>6, <1>7, <1>8, <1>9 DEF Scripts

-----------------------------------------------------------------------------
(* A running script *)

Advanced(r) == [r EXCEPT !.todo = Tail(@), !.did = @ \cup {Head(r.todo)}]

TrappedAs(r, t, torn) ==
    [r EXCEPT !.trapped = TRUE, !.torn = torn,
              !.todo = IF r.trapped THEN Tail(@) ELSE TrapOf(r, t)]

\* The next command, in the program or in the trap.
LEMMA NextCommand ==
    ASSUME NEW s, Quiet(s), NEW r, NEW t, NEW w, Working(s, r, t, w), r.todo # <<>>
    PROVE  LET c == Head(r.todo)
           IN  /\ r \in Runs /\ c \in Commands /\ Tail(r.todo) \in Seq(Commands)
               /\ ~r.trapped => /\ Stands(r.script, r.was, With(r.did, c), Tail(r.todo))
                                /\ Step(s, r, t, c) = Done(s, r.script, r.peer, With(r.did, c))
               /\ r.trapped => /\ c \in TrapCommands(r)
                               /\ \A x : In(x, Tail(r.todo)) => In(x, r.todo)
                               /\ r.script = "resume" => SameBlocks(s, t)
<1> DEFINE c == Head(r.todo)
<1>1. /\ r \in Runs /\ s \in Stores /\ r.todo \in Seq(Commands) /\ r.script \in Scripts
      /\ r.was \in {"active", "paused"}
  BY RunFields DEF Working, Quiet
<1>2. c \in Commands /\ Tail(r.todo) \in Seq(Commands)
  BY <1>1
<1>3. ASSUME ~r.trapped
      PROVE  /\ Stands(r.script, r.was, With(r.did, c), Tail(r.todo))
             /\ Step(s, r, t, c) = Done(s, r.script, r.peer, With(r.did, c))
  <2>1. Following(s, r, t, w)
    BY <1>3 DEF Working
  <2>2. Stands(r.script, r.was, With(r.did, c), Tail(r.todo))
    BY <1>1, <2>1, StandsNext DEF Following, With
  <2>3. Ordered(r.script, r.was, With(r.did, c))
    BY <1>1, <2>2, StandsOrdered
  <2>4. Step(s, r, t, c) = Done(s, r.script, r.peer, With(r.did, c))
    <3>1. t = Done(s, r.script, r.peer, r.did)
      BY <2>1 DEF Following
    <3> HIDE DEF c
    <3> QED
      BY <1>1, <1>2, <2>3, <3>1, DoneStep
  <2> QED
    BY <2>2, <2>4
<1>4. ASSUME r.trapped
      PROVE  /\ c \in TrapCommands(r)
             /\ \A x : In(x, Tail(r.todo)) => In(x, r.todo)
             /\ r.script = "resume" => SameBlocks(s, t)
  <2>1. Trapping(s, r, t)
    BY <1>4 DEF Working
  <2>2. \A x : In(x, r.todo) <=> x = c \/ In(x, Tail(r.todo))
    BY <1>1, InTail
  <2> QED
    BY <1>2, <2>1, <2>2 DEF Trapping
<1> QED
  BY <1>1, <1>2, <1>3, <1>4

LEMMA WorkSucceed ==
    ASSUME NEW s, Quiet(s), NEW r, NEW t, NEW w, Working(s, r, t, w), r.todo # <<>>,
           Needs(r.script, Head(r.todo)) => w = "up"
    PROVE  Working(s, Advanced(r), Step(s, r, t, Head(r.todo)), w)
<1> DEFINE c == Head(r.todo)
           q == Advanced(r)
           u == Step(s, r, t, c)
<1>1. /\ r \in Runs /\ c \in Commands /\ Tail(r.todo) \in Seq(Commands)
      /\ ~r.trapped => /\ Stands(r.script, r.was, With(r.did, c), Tail(r.todo))
                       /\ u = Done(s, r.script, r.peer, With(r.did, c))
      /\ r.trapped => /\ c \in TrapCommands(r)
                      /\ \A x : In(x, Tail(r.todo)) => In(x, r.todo)
                      /\ r.script = "resume" => SameBlocks(s, t)
  BY NextCommand
<1>2. /\ SameRun(r, q) /\ q.todo = Tail(r.todo) /\ q.did = With(r.did, c)
      /\ q.trapped = r.trapped /\ q.torn = r.torn
  BY <1>1 DEF Advanced, SameRun, Runs, With
<1>3. Chosen(s, r) /\ Shape(s, r, t, w)
  BY DEF Working
<1>4. q \in Runs /\ Chosen(s, q) /\ TrapCommands(q) = TrapCommands(r) /\ q.script = r.script
      /\ q.was = r.was /\ q.peer = r.peer
  BY <1>1, <1>2, <1>3, SameRunSame DEF SameRun
<1> SUFFICES Working(s, q, u, w)
  OBVIOUS
<1> HIDE DEF c, q, u
<1>5. CASE ~r.trapped
  <2>1. Following(s, r, t, w)
    BY <1>5 DEF Working
  <2>2. \A x \in q.did : Needs(q.script, x) => w = "up"
    BY <1>2, <1>4, <2>1 DEF Following, With, c
  <2>3. Following(s, q, u, w)
    BY <1>1, <1>2, <1>4, <1>5, <2>1, <2>2 DEF Following
  <2>4. Shape(s, q, u, w)
    BY <1>4, <2>3, DoneShape DEF Following
  <2> QED
    BY <1>2, <1>4, <1>5, <2>3, <2>4 DEF Working
<1>6. CASE r.trapped
  <2>1. Trapping(s, r, t)
    BY <1>6 DEF Working
  <2>2. Shape(s, q, u, w)
    <3>1. UsesWg(c) => w = "up"
      BY DEF Needs, c
    <3>2. Shape(s, r, u, w)
      BY <1>1, <1>3, <1>6, <3>1, TrapStepShape DEF u
    <3> QED
      BY <1>1, <1>2, <3>2, SameRunSame
  <2>3. \A x \in Commands : In(x, q.todo) => x \in TrapCommands(q)
    BY <1>1, <1>2, <1>4, <1>6, <2>1 DEF Trapping
  <2>4. q.script = "resume" => SameBlocks(s, u)
    <3>1. ASSUME r.script = "resume" PROVE SameBlocks(s, u)
      <4>1. c = "dropLive" /\ SameBlocks(s, t)
        BY <1>1, <1>6, <3>1 DEF TrapCommands
      <4>2. Stepped(s, r, t, c, u)
        BY <1>1, <1>3, StepIs DEF u, Quiet, Shape
      <4> QED
        BY <4>1, <4>2 DEF Stepped, SameBlocks
    <3> QED
      BY <1>4, <3>1
  <2>5. ~q.torn => Owed(s, q, u)
    BY <1>1, <1>2, <1>3, <1>6, <2>1, TrapStepOwes DEF Trapping, c, u
  <2> QED
    BY <1>2, <1>4, <1>6, <2>2, <2>3, <2>4, <2>5 DEF Working, Trapping
<1> QED
  BY <1>5, <1>6

\* A command fails: without an effect, or with that of a wg set.
LEMMA WorkFail ==
    ASSUME NEW s, Quiet(s), NEW r, NEW t, NEW w, Working(s, r, t, w), r.todo # <<>>
    PROVE  Working(s, TrappedAs(r, t, r.torn \/ r.trapped), t, w)
<1> DEFINE q == TrappedAs(r, t, r.torn \/ r.trapped)
<1>1. /\ r \in Runs /\ Tail(r.todo) \in Seq(Commands)
      /\ r.trapped => /\ \A x : In(x, Tail(r.todo)) => In(x, r.todo)
                      /\ r.script = "resume" => SameBlocks(s, t)
  BY NextCommand
<1>2. TrapOf(r, t) \in Seq(Commands) /\ (\A x : In(x, TrapOf(r, t)) <=> InTrap(r, t, x))
  BY <1>1, TrapIs
<1>3. r.trapped \in BOOLEAN /\ r.torn \in BOOLEAN
  BY <1>1, RunFields
<1>4. /\ SameRun(r, q) /\ q.todo = (IF r.trapped THEN Tail(r.todo) ELSE TrapOf(r, t))
      /\ q.did = r.did /\ q.trapped = TRUE /\ q.torn = (r.torn \/ r.trapped)
  BY <1>1, <1>2, <1>3 DEF TrappedAs, SameRun, Runs
<1>5. Chosen(s, r) /\ Shape(s, r, t, w)
  BY DEF Working
<1>6. /\ q \in Runs /\ Chosen(s, q) /\ Shape(s, q, t, w) /\ TrapCommands(q) = TrapCommands(r)
      /\ q.script = r.script /\ q.was = r.was /\ q.peer = r.peer
  BY <1>1, <1>4, <1>5, SameRunSame DEF SameRun
<1> SUFFICES Working(s, q, t, w)
  OBVIOUS
<1> HIDE DEF q
<1>7. CASE ~r.trapped
  <2>1. Following(s, r, t, w)
    BY <1>7 DEF Working
  <2>2. Owed(s, q, t)
    BY <1>1, <1>4, <1>5, <1>7, <2>1, TrapOwes
  <2>3. Ordered(r.script, r.was, r.did)
    BY <1>1, <2>1, RunFields, StandsOrdered DEF Following
  <2>4. \A x \in Commands : In(x, q.todo) => x \in TrapCommands(q)
    BY <1>1, <1>2, <1>4, <1>6, <1>7, <2>3, InTrapAllowed
  <2>5. q.script = "resume" /\ q.todo # <<>> => SameBlocks(s, t)
    <3>1. ASSUME r.script = "resume", "moveBlock" \in r.did PROVE q.todo = <<>>
      BY <1>4, <1>7, <3>1 DEF TrapOf, If
    <3>2. "moveBlock" \notin r.did => SameBlocks(s, t)
      BY <2>1 DEF Following, Done, SameBlocks
    <3> QED
      BY <1>6, <3>1, <3>2
  <2> QED
    BY <1>4, <1>6, <2>2, <2>4, <2>5 DEF Working, Trapping
<1>8. CASE r.trapped
  <2>1. Trapping(s, r, t)
    BY <1>8 DEF Working
  <2>2. \A x \in Commands : In(x, q.todo) => x \in TrapCommands(q)
    BY <1>1, <1>4, <1>6, <1>8, <2>1 DEF Trapping
  <2> QED
    BY <1>1, <1>4, <1>6, <1>8, <2>2 DEF Working, Trapping
<1> QED
  BY <1>7, <1>8

LEMMA WorkTorn ==
    ASSUME NEW s, Quiet(s), NEW r, NEW t, NEW w, Working(s, r, t, w), r.todo # <<>>,
           UsesWg(Head(r.todo)), w = "up"
    PROVE  Working(s, TrappedAs(r, t, TRUE), Step(s, r, t, Head(r.todo)), w)
<1> DEFINE c == Head(r.todo)
           q == TrappedAs(r, t, TRUE)
           u == Step(s, r, t, c)
<1>1. /\ r \in Runs /\ c \in Commands /\ Tail(r.todo) \in Seq(Commands)
      /\ ~r.trapped => /\ Stands(r.script, r.was, With(r.did, c), Tail(r.todo))
                       /\ u = Done(s, r.script, r.peer, With(r.did, c))
      /\ r.trapped => /\ c \in TrapCommands(r)
                      /\ \A x : In(x, Tail(r.todo)) => In(x, r.todo)
                      /\ r.script = "resume" => SameBlocks(s, t)
  BY NextCommand
<1>2. TrapOf(r, t) \in Seq(Commands) /\ (\A x : In(x, TrapOf(r, t)) <=> InTrap(r, t, x))
  BY <1>1, TrapIs
<1>3. r.trapped \in BOOLEAN /\ c \in {"setLive", "dropLive"}
  BY <1>1, RunFields DEF UsesWg
<1>4. /\ SameRun(r, q) /\ q.todo = (IF r.trapped THEN Tail(r.todo) ELSE TrapOf(r, t))
      /\ q.trapped = TRUE /\ q.torn = TRUE
  BY <1>1, <1>2, <1>3 DEF TrappedAs, SameRun, Runs
<1>5. Chosen(s, r) /\ Shape(s, r, t, w)
  BY DEF Working
<1>6. /\ q \in Runs /\ Chosen(s, q) /\ TrapCommands(q) = TrapCommands(r)
      /\ q.script = r.script /\ q.was = r.was /\ q.peer = r.peer
  BY <1>1, <1>4, <1>5, SameRunSame DEF SameRun
<1>7. SameBlocks(s, t) => SameBlocks(s, u)
  <2>1. Stepped(s, r, t, c, u)
    BY <1>1, <1>5, StepIs DEF Quiet, Shape
  <2> HIDE DEF u, c
  <2> QED
    BY <1>3, <2>1 DEF Stepped, SameBlocks
<1> SUFFICES Working(s, q, u, w)
  OBVIOUS
<1> HIDE DEF c, q, u
<1>8. CASE ~r.trapped
  <2>1. Following(s, r, t, w)
    BY <1>8 DEF Working
  <2>2. Shape(s, r, u, w)
    BY <1>1, <1>5, <1>8, DoneShape
  <2>3. Shape(s, q, u, w)
    BY <1>1, <1>4, <2>2, SameRunSame
  <2>4. Ordered(r.script, r.was, r.did)
    BY <1>1, <2>1, RunFields, StandsOrdered DEF Following
  <2>5. \A x \in Commands : In(x, q.todo) => x \in TrapCommands(q)
    BY <1>1, <1>2, <1>4, <1>6, <1>8, <2>4, InTrapAllowed
  <2>6. q.script = "resume" /\ q.todo # <<>> => SameBlocks(s, u)
    <3>1. ASSUME r.script = "resume", "moveBlock" \in r.did PROVE q.todo = <<>>
      BY <1>4, <1>8, <3>1 DEF TrapOf, If
    <3>2. "moveBlock" \notin r.did => SameBlocks(s, u)
      BY <1>7, <2>1 DEF Following, Done, SameBlocks
    <3> QED
      BY <1>6, <3>1, <3>2
  <2> QED
    BY <1>4, <1>6, <2>3, <2>5, <2>6 DEF Working, Trapping
<1>9. CASE r.trapped
  <2>1. Trapping(s, r, t)
    BY <1>9 DEF Working
  <2>2. Shape(s, r, u, w)
    BY <1>1, <1>5, <1>9, TrapStepShape DEF u
  <2>3. Shape(s, q, u, w)
    BY <1>1, <1>4, <2>2, SameRunSame
  <2>4. \A x \in Commands : In(x, q.todo) => x \in TrapCommands(q)
    BY <1>1, <1>4, <1>6, <1>9, <2>1 DEF Trapping
  <2> QED
    BY <1>1, <1>4, <1>6, <1>7, <1>9, <2>3, <2>4 DEF Working, Trapping
<1> QED
  BY <1>8, <1>9

\* A script that starts: nothing done, all its program to do.
Started(s, script, p) ==
    LET was == IF p \in s.active THEN "active" ELSE "paused"
    IN  [script |-> script, peer |-> p, was |-> was, seen |-> p \in s.live,
         todo |-> Program(script, was), did |-> {}, trapped |-> FALSE, torn |-> FALSE]

SubjectsOf(s, script, d) ==
    IF script \in {"add", "prepare"} THEN NewPeers(s, d, InfraAddrs)
    ELSE {p \in {s.conf[d]} : HasConf(s, d) /\ OneBlock(s, p)}

LEMMA WorkStart ==
    ASSUME NEW s, Quiet(s), NEW script \in Scripts, NEW d \in Devices,
           NEW p \in SubjectsOf(s, script, d), NEW w
    PROVE  Working(s, Started(s, script, p), s, w)
<1> DEFINE was == IF p \in s.active THEN "active" ELSE "paused"
           q == Started(s, script, p)
<1>1. s \in Stores /\ Distinct(s, InfraAddrs) /\ was \in {"active", "paused"}
  BY DEF Quiet
<1>2. p \in Peers /\ p.dev = d
  <2>1. CASE script \in {"add", "prepare"}
    BY <1>1, <2>1, NewPeerFresh DEF SubjectsOf
  <2>2. CASE script \notin {"add", "prepare"}
    <3>1. p = s.conf[d] /\ HasConf(s, d)
      BY <2>2 DEF SubjectsOf
    <3> QED
      BY <1>1, <3>1 DEF Distinct, HasConf, Stores
  <2> QED
    BY <2>1, <2>2
<1>3. Program(script, was) \in Seq(Commands)
  BY <1>1, ProgramTyped
<1>4. /\ q.script = script /\ q.peer = p /\ q.was = was /\ q.seen = (p \in s.live)
      /\ q.todo = Program(script, was) /\ q.did = {} /\ q.trapped = FALSE /\ q.torn = FALSE
  BY DEF Started
<1>5. q \in Runs
  BY <1>1, <1>2, <1>3 DEF Started, Runs
<1>6. Chosen(s, q)
  <2>1. (q.was = "active") = (q.peer \in s.active)
    BY <1>4
  <2>2. CASE script \in {"add", "prepare"}
    BY <1>2, <1>4, <2>1, <2>2 DEF Chosen, SubjectsOf
  <2>3. CASE script \notin {"add", "prepare"}
    BY <1>2, <1>4, <2>1, <2>3 DEF Chosen, SubjectsOf
  <2> QED
    BY <2>2, <2>3
<1> SUFFICES Working(s, q, s, w)
  OBVIOUS
<1> HIDE DEF q, was
<1>7. Following(s, q, s, w)
  <2>1. Stands(q.script, q.was, q.did, q.todo)
    BY <1>1, <1>4, StandsStart
  <2>2. s = Done(s, q.script, q.peer, q.did)
    <3>1. Done(s, q.script, q.peer, {}) \in Stores
      BY <1>1, <1>2, <1>4, DoneTyped
    <3>2. /\ Done(s, q.script, q.peer, {}).conf = s.conf
          /\ Done(s, q.script, q.peer, {}).live = s.live
          /\ SameBlocks(s, Done(s, q.script, q.peer, {}))
      BY DEF Done, SameBlocks
    <3> QED
      BY <1>1, <1>4, <3>1, <3>2, SameStore
  <2> QED
    BY <1>4, <2>1, <2>2 DEF Following
<1>8. Shape(s, q, s, w)
  BY <1>5, <1>6, <1>7, DoneShape DEF Following
<1> QED
  BY <1>4, <1>5, <1>6, <1>7, <1>8 DEF Working

-----------------------------------------------------------------------------
(* The invariant *)

LEMMA RunsRun == ASSUME NEW r \in Runs PROVE r # NoRun
BY DEF Runs, NoRun, Scripts

LEMMA EmptyQuiet == Quiet(EmptyStore)
BY DEF Quiet, EmptyStore, Stores, Distinct, LiveDistinct, Settled, ConfPeers, Configured, HasConf

LEMMA LiveQuiet ==
    ASSUME NEW s, Quiet(s), NEW live, live \subseteq s.active
    PROVE  Quiet([s EXCEPT !.live = live])
<1> DEFINE t == [s EXCEPT !.live = live]
<1>1. s \in Stores /\ Distinct(s, InfraAddrs)
  BY DEF Quiet
<1>2. t \in Stores /\ t.conf = s.conf /\ t.active = s.active /\ t.live = live
  BY <1>1 DEF Stores
<1> HIDE DEF t
<1>3. Settled(t) = Settled(s)
  BY <1>2 DEF Settled, ConfPeers, Configured, HasConf
<1>4. Distinct(t, InfraAddrs)
  BY <1>1, <1>2, <1>3, DistinctShrinks DEF Distinct, HasConf
<1>5. LiveDistinct(t)
  BY <1>1, <1>2 DEF LiveDistinct, Distinct, Settled
<1>6. Quiet(t)
  BY <1>2, <1>4, <1>5 DEF Quiet
<1> QED
  BY <1>6 DEF t

LEMMA ScriptInvInit == Init => ScriptInv
BY EmptyQuiet DEF Init, ScriptInv, Running

LEMMA ScriptInvNext == ScriptInv /\ [Next]_vars => ScriptInv'
<1> SUFFICES ASSUME ScriptInv, [Next]_vars PROVE ScriptInv'
  OBVIOUS
<1>1. /\ wg0 \in {"up", "down"} /\ Quiet(before)
      /\ Running => Working(before, run, now, wg0)
      /\ ~Running => now = before
  BY DEF ScriptInv
<1>2. ASSUME NEW script \in Scripts, NEW d \in Devices, Start(script, d) PROVE ScriptInv'
  <2>1. now = before
    BY <1>1, <1>2 DEF Start
  <2>2. PICK p \in SubjectsOf(before, script, d) : run' = Started(before, script, p)
    BY <1>2, <2>1 DEF Start, Subjects, SubjectsOf, Started
  <2>3. Working(before, Started(before, script, p), before, wg0)
    BY <1>1, WorkStart
  <2>4. run' # NoRun
    BY <2>2, <2>3, RunsRun DEF Working
  <2>5. now' = now /\ wg0' = wg0 /\ before' = before
    BY <1>2 DEF Start
  <2> QED
    BY <1>1, <2>1, <2>2, <2>3, <2>4, <2>5 DEF ScriptInv, Running
<1>3. ASSUME NEW script \in Scripts, NEW d \in Devices, Refuse(script, d) PROVE ScriptInv'
  BY <1>1, <1>3 DEF Refuse, Ends, ScriptInv, Running
<1>4. ASSUME Succeed PROVE ScriptInv'
  <2>1. Running /\ run.todo # <<>>
    BY <1>4 DEF Succeed
  <2>2. Working(before, run, now, wg0)
    BY <1>1, <2>1
  <2>3. Needs(run.script, Head(run.todo)) => wg0 = "up"
    BY <1>4 DEF Succeed, Needs
  <2>4. Working(before, Advanced(run), Step(before, run, now, Head(run.todo)), wg0)
    BY <1>1, <2>1, <2>2, <2>3, WorkSucceed
  <2>5. run' = Advanced(run) /\ now' = Step(before, run, now, Head(run.todo))
    BY <1>4, AfterIsStep DEF Succeed, Advanced
  <2>6. run' # NoRun
    BY <2>4, <2>5, RunsRun DEF Working
  <2>7. wg0' = wg0 /\ before' = before
    BY <1>4 DEF Succeed
  <2> QED
    BY <1>1, <2>4, <2>5, <2>6, <2>7 DEF ScriptInv, Running
<1>5. ASSUME Fail PROVE ScriptInv'
  <2>1. Running /\ run.todo # <<>> /\ wg0' = wg0 /\ before' = before
    BY <1>5 DEF Fail
  <2>2. Working(before, run, now, wg0)
    BY <1>1, <2>1
  <2>3. Trap(run.did) = TrapOf(run, now)
    BY <2>2, TrapIsTrapOf DEF Working
  <2>4. \/ now' = now /\ run' = TrappedAs(run, now, run.torn \/ run.trapped)
        \/ /\ UsesWg(Head(run.todo)) /\ wg0 = "up"
           /\ now' = Step(before, run, now, Head(run.todo))
           /\ run' = TrappedAs(run, now, TRUE)
    BY <1>5, <2>3, AfterIsStep DEF Fail, TrappedAs
  <2>5. Working(before, run', now', wg0)
    BY <1>1, <2>1, <2>2, <2>4, WorkFail, WorkTorn
  <2>6. run' # NoRun
    BY <2>5, RunsRun DEF Working
  <2> QED
    BY <1>1, <2>1, <2>5, <2>6 DEF ScriptInv, Running
<1>6. ASSUME Exit \/ Kill PROVE ScriptInv'
  <2>1. Working(before, run, now, wg0)
    BY <1>1, <1>6 DEF Exit, Kill
  <2>2. Quiet(now)
    BY <1>1, <2>1, ShapeQuiet DEF Working
  <2>3. now' = now /\ before' = now /\ run' = NoRun /\ wg0' = wg0
    BY <1>6 DEF Exit, Kill, Ends
  <2> QED
    BY <1>1, <2>2, <2>3 DEF ScriptInv, Running
<1>7. ASSUME Reboot PROVE ScriptInv'
  <2>1. ~Running /\ now' = [before EXCEPT !.live = {}] /\ before' = now' /\ wg0' = "down" /\ run' = run
    BY <1>1, <1>7 DEF Reboot
  <2>2. Quiet([before EXCEPT !.live = {}])
    BY <1>1, LiveQuiet
  <2> QED
    BY <2>1, <2>2 DEF ScriptInv, Running
<1>8. ASSUME WgQuickUp PROVE ScriptInv'
  <2>1. /\ ~Running /\ now' = [before EXCEPT !.live = before.active] /\ before' = now'
        /\ wg0' = "up" /\ run' = run
    BY <1>1, <1>8 DEF WgQuickUp
  <2>2. Quiet([before EXCEPT !.live = before.active])
    BY <1>1, LiveQuiet
  <2> QED
    BY <2>1, <2>2 DEF ScriptInv, Running
<1>9. ASSUME UNCHANGED vars PROVE ScriptInv'
  BY <1>1, <1>9 DEF vars, ScriptInv, Running
<1> QED
  BY <1>2, <1>3, <1>4, <1>5, <1>6, <1>7, <1>8, <1>9 DEF Next

\* Between the scripts and inside them, every state is one the programs and
\* the traps lead to.
THEOREM ScriptInvHolds == Spec => []ScriptInv
BY ScriptInvInit, ScriptInvNext, PTL DEF Spec

-----------------------------------------------------------------------------
(* The properties *)

LEMMA RoutesGiven ==
    ASSUME NEW s, Quiet(s), NEW r \in Runs, Chosen(s, r), NEW t, NEW w, Shape(s, r, t, w)
    PROVE  RoutesOf(t) \subseteq RoutesOf(s)
               \cup (IF r.script \in {"add", "resume"} THEN {r.peer} ELSE {})
<1> DEFINE p == r.peer
           more == IF r.script \in {"add", "resume"} THEN {p} ELSE {}
<1>1. s \in Stores /\ p \in Peers /\ r.script \in Scripts
  BY RunFields DEF Quiet
<1>2. t.live \subseteq s.live \cup more
  BY <1>1 DEF Shape, Routes, RouteTo, Scripts
<1>3. t.active \subseteq s.active \cup more
  <2>1. MovedTo(s, r.script, p, Moved(s, r.script, p))
    BY <1>1, MovedIs
  <2>2. Moved(s, r.script, p).active \subseteq s.active \cup more
    BY <1>1, <2>1 DEF MovedTo, Scripts
  <2> QED
    BY <2>2 DEF Shape, SameBlocks, MovedBlocks
<1> QED
  BY <1>2, <1>3 DEF RoutesOf

\* While a script runs, too, no route appears except the one it is asked for.
THEOREM NoStrayRoute == Spec => []NoRouteAppears
<1>1. ScriptInv => NoRouteAppears
  BY RoutesGiven DEF ScriptInv, Working, NoRouteAppears
<1> QED
  BY <1>1, ScriptInvHolds, PTL

\* A trap that has run to its end, its own commands working, owes nothing.
LEMMA NothingOwed ==
    ASSUME NEW s, Quiet(s), NEW r \in Runs, Chosen(s, r), NEW t, NEW w, Shape(s, r, t, w),
           Owed(s, r, t), r.todo = <<>>
    PROVE  \/ Undone(t, s)
           \/ r.script = "pause" /\ r.peer \notin t.active
           \/ r.script = "resume" /\ r.peer \in t.active \cap t.live
<1> DEFINE p == r.peer
<1>1. /\ s \in Stores /\ t \in Stores /\ p \in Peers /\ r.script \in Scripts
      /\ r.was = "active" \/ r.was = "paused"
  BY RunFields DEF Quiet, Shape
<1>2. \A x : ~In(x, r.todo)
  BY InNone
<1>3. t = s => Undone(t, s)
  BY DEF Undone
<1>4. \A q \in s.live \ RouteTo(s.live, p) : q.addr = p.addr
  BY DEF RouteTo
<1>5. s.active \subseteq Settled(s) /\ \A x, y \in Settled(s) : x.addr = y.addr => x = y
  BY DEF Settled, Quiet, Distinct
<1>6. CASE r.script \in {"add", "prepare"}
  <2>1. p \notin s.live /\ p \notin s.active /\ \A q \in Settled(s) : q.addr # p.addr
    BY <1>1, <1>6, PickedNew
  <2>2. SameBlocks(s, t) /\ t.conf = s.conf /\ p \notin t.live
    BY <1>2, <1>6 DEF Owed
  <2>3. t.live \in {s.live, RouteTo(s.live, p), RouteTo(s.live, p) \ {p}}
    BY <1>6 DEF Shape, Routes
  <2>4. t.live \subseteq s.live /\ \A q \in s.live \ t.live : q.addr = p.addr
    BY <1>4, <2>1, <2>2, <2>3 DEF RouteTo
  <2>5. (s.live \ t.live) \cap s.active = {}
    BY <1>5, <2>1, <2>4
  <2> QED
    BY <2>2, <2>4, <2>5 DEF Undone, SameBlocks
<1>7. CASE r.script = "remove"
  <2>1. SameBlocks(s, t) /\ t.conf = s.conf /\ (r.was = "active" => t.live = s.live)
    BY <1>2, <1>7 DEF Owed
  <2>2. r.was = "paused" => p \notin s.active
    BY <1>1, <1>7, PickedOld
  <2>3. t.live \in {s.live, s.live \ {p}}
    BY <1>7 DEF Shape, Routes
  <2> QED
    BY <1>1, <2>1, <2>2, <2>3 DEF Undone, SameBlocks
<1>8. CASE r.script = "pause"
  BY <1>3, <1>8 DEF Owed
<1>9. CASE r.script = "resume"
  <2>1. \/ t = s
        \/ p \in t.active \cap t.live
        \/ r.was = "paused" /\ SameBlocks(s, t) /\ p \notin t.live
    BY <1>2, <1>9 DEF Owed
  <2>2. CASE r.was = "paused" /\ SameBlocks(s, t) /\ p \notin t.live
    <3>1. p \notin s.active /\ p \in Settled(s)
      BY <1>1, <1>9, <2>2, PickedOld
    <3>2. t.conf = s.conf /\ t.live \in {s.live, RouteTo(s.live, p) \ {p}}
      BY <1>9, <2>2 DEF Shape, ConfBy, Routes, RouteTo
    <3>3. t.live \subseteq s.live /\ \A q \in s.live \ t.live : q = p \/ q.addr = p.addr
      BY <1>4, <3>2 DEF RouteTo
    <3>4. (s.live \ t.live) \cap s.active = {}
      BY <1>5, <3>1, <3>3
    <3> QED
      BY <2>2, <3>2, <3>3, <3>4 DEF Undone, SameBlocks
  <2> QED
    BY <1>3, <1>9, <2>1, <2>2
<1> QED
  BY <1>1, <1>6, <1>7, <1>8, <1>9 DEF Scripts

\* When its own commands work, the EXIT trap leaves a failed script undone.
THEOREM TrapUndoes == Spec => []RollbackRestores
<1>1. ScriptInv => RollbackRestores
  <2> SUFFICES ASSUME ScriptInv, Running, run.trapped, ~run.torn, run.todo = <<>>
               PROVE  \/ Undone(now, before)
                      \/ run.script = "pause" /\ run.peer \notin now.active
                      \/ run.script = "resume" /\ run.peer \in now.active \cap now.live
    BY DEF RollbackRestores
  <2>1. /\ Quiet(before) /\ run \in Runs /\ Chosen(before, run) /\ Shape(before, run, now, wg0)
        /\ Owed(before, run, now)
    BY DEF ScriptInv, Working, Trapping
  <2> QED
    BY <2>1, NothingOwed
<1> QED
  BY <1>1, ScriptInvHolds, PTL

LEMMA CallResults ==
    ASSUME NEW script \in Scripts, NEW d \in Devices
    PROVE  Calls!Results(script, d) = Results(before, script, d, wg0)
<1>1. Calls!AddClient(before, d, InfraAddrs, wg0) = AddClient(before, d, InfraAddrs, wg0)
  BY DEF Calls!AddClient, AddClient, Calls!Failed, Failed, Calls!AddPlain, AddPlain,
         Calls!Ok, Ok, Calls!Added, Added, Calls!RouteTo, RouteTo, Calls!NewPeers, NewPeers,
         Calls!Peers, Peers, Calls!HasConf, HasConf, Calls!FreshKeys, FreshKeys,
         Calls!ConfPeers, ConfPeers, Calls!Configured, Configured, Calls!Lowest, Lowest,
         Calls!FreeAddrs, FreeAddrs
<1>2. Calls!PrepareClient(before, d, InfraAddrs) = PrepareClient(before, d, InfraAddrs)
  BY DEF Calls!PrepareClient, PrepareClient, Calls!Failed, Failed, Calls!AddPrepared, AddPrepared,
         Calls!Ok, Ok, Calls!Added, Added, Calls!NewPeers, NewPeers,
         Calls!Peers, Peers, Calls!HasConf, HasConf, Calls!FreshKeys, FreshKeys,
         Calls!ConfPeers, ConfPeers, Calls!Configured, Configured, Calls!Lowest, Lowest,
         Calls!FreeAddrs, FreeAddrs
<1>3. Calls!RemoveClient(before, d, wg0) = RemoveClient(before, d, wg0)
  BY DEF Calls!RemoveClient, RemoveClient, Calls!Failed, Failed, Calls!Ok, Ok,
         Calls!HasConf, HasConf, Calls!OneBlock, OneBlock, Calls!Removed, Removed,
         Calls!AllParts, AllParts, Calls!TornRemovals, TornRemovals
<1>4. Calls!PauseClient(before, d, wg0) = PauseClient(before, d, wg0)
  BY DEF Calls!PauseClient, PauseClient, Calls!Failed, Failed, Calls!Ok, Ok,
         Calls!HasConf, HasConf, Calls!OneBlock, OneBlock, Calls!Enveloped, Enveloped
<1>5. Calls!ResumeClient(before, d, wg0) = ResumeClient(before, d, wg0)
  BY DEF Calls!ResumeClient, ResumeClient, Calls!Failed, Failed, Calls!Ok, Ok,
         Calls!HasConf, HasConf, Calls!OneBlock, OneBlock, Calls!Restored, Restored,
         Calls!RouteTo, RouteTo
<1>6. CASE script = "add"
  BY <1>1, <1>6 DEF Calls!Results, Results
<1>7. CASE script = "prepare"
  BY <1>2, <1>7 DEF Calls!Results, Results
<1>8. CASE script = "remove"
  BY <1>3, <1>8 DEF Calls!Results, Results
<1>9. CASE script = "pause"
  BY <1>4, <1>9 DEF Calls!Results, Results
<1>10. CASE script = "resume"
  BY <1>5, <1>10 DEF Calls!Results, Results
<1> QED
  BY <1>6, <1>7, <1>8, <1>9, <1>10 DEF Scripts

\* The scripts run command by command implement the one-step calls.
THEOREM ScriptsImplementCalls == Spec => CallsImplemented
<1>1. Init => Calls!Init
  BY DEF Init, Calls!Init, EmptyStore, Calls!EmptyStore, NoRun
<1>2. ScriptInv /\ [Next]_vars => [Calls!Next]_(Calls!vars)
  <2> SUFFICES ASSUME ScriptInv, [Next]_vars PROVE [Calls!Next]_(Calls!vars)
    OBVIOUS
  <2>1. /\ Quiet(before) /\ (Running => Working(before, run, now, wg0)) /\ (~Running => now = before)
    BY DEF ScriptInv
  <2>2. ASSUME NEW script \in Scripts, NEW d \in Devices, NEW t, NEW ok,
               [ok |-> ok, store |-> t] \in Results(before, script, d, wg0),
               before' = t, answer' = [script |-> script, dev |-> d, ok |-> ok], wg0' = wg0
        PROVE  Calls!Next
    <3>1. [ok |-> ok, store |-> t] \in Calls!Results(script, d)
      BY <2>2, CallResults
    <3>2. Calls!Call(script, d)
      BY <2>2, <3>1 DEF Calls!Call
    <3> QED
      BY <3>2 DEF Calls!Next, Calls!Scripts, Scripts
  <2>3. ASSUME Running, Exit \/ Kill PROVE Calls!Next
    <3> DEFINE d == run.peer.dev
    <3>1. run \in Runs /\ Chosen(before, run) /\ Shape(before, run, now, wg0)
      BY <2>1, <2>3 DEF Working
    <3>2. run.script \in Scripts /\ d \in Devices /\ run.trapped \in BOOLEAN
      BY <3>1, RunFields DEF Peers
    <3>3. before' = now /\ wg0' = wg0
      BY <2>3 DEF Exit, Kill, Ends
    <3>4. Failed(now) \in Results(before, run.script, d, wg0)
      BY <2>1, <3>1, ShapeResult
    <3>5. CASE answer' = [script |-> run.script, dev |-> d, ok |-> FALSE]
      BY <2>2, <3>2, <3>3, <3>4, <3>5 DEF Failed
    <3>6. CASE Exit /\ ~run.trapped
      <4>1. Following(before, run, now, wg0) /\ run.todo = <<>>
        BY <2>1, <2>3, <3>6 DEF Working, Exit
      <4>2. Ok(now) \in Results(before, run.script, d, wg0)
        BY <2>1, <3>1, <4>1, DoneResult DEF Following
      <4>3. answer' = [script |-> run.script, dev |-> d, ok |-> TRUE]
        BY <3>6 DEF Exit, Ends
      <4> QED
        BY <2>2, <3>2, <3>3, <4>2, <4>3 DEF Ok
    <3> QED
      BY <2>3, <3>2, <3>5, <3>6 DEF Exit, Kill, Ends
  <2>4. ASSUME NEW script \in Scripts, NEW d \in Devices, Refuse(script, d) PROVE Calls!Next
    <3>1. before' = before /\ wg0' = wg0 /\ answer' = [script |-> script, dev |-> d, ok |-> FALSE]
      BY <2>1, <2>4 DEF Refuse, Ends
    <3>2. Failed(before) \in Results(before, script, d, wg0)
      BY DEF Results, AddClient, PrepareClient, RemoveClient, PauseClient, ResumeClient, Scripts
    <3> QED
      BY <2>2, <3>1, <3>2 DEF Failed
  <2>5. ASSUME NEW script \in Scripts, NEW d \in Devices, Start(script, d) PROVE UNCHANGED Calls!vars
    BY <2>5 DEF Start, Calls!vars
  <2>6. ASSUME Succeed \/ Fail PROVE UNCHANGED Calls!vars
    BY <2>6 DEF Succeed, Fail, Calls!vars
  <2>7. ASSUME Reboot PROVE Calls!Next
    BY <2>1, <2>7 DEF Reboot, Calls!Reboot, Calls!Next
  <2>8. ASSUME WgQuickUp PROVE Calls!Next
    BY <2>1, <2>8 DEF WgQuickUp, Calls!WgQuickUp, Calls!Next
  <2>9. ASSUME UNCHANGED vars PROVE UNCHANGED Calls!vars
    BY <2>9 DEF vars, Calls!vars
  <2> QED
    BY <2>3, <2>4, <2>5, <2>6, <2>7, <2>8, <2>9 DEF Next, Exit, Kill
<1> QED
  BY <1>1, <1>2, ScriptInvHolds, PTL DEF Spec, CallsImplemented, Calls!Spec
=============================================================================
