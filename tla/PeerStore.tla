----------------------------- MODULE PeerStore -----------------------------
(***************************************************************************)
(* What the three root helpers (scripts/add-client.sh, remove-client.sh,   *)
(* set-client-state.sh) do to the server's WireGuard state.                *)
(*                                                                         *)
(* A store is everything that says which peer may use the tunnel:          *)
(*   conf[d]   the peer whose keys are in clients/<d>.conf, or NoPeer;     *)
(*   active    the [Peer] blocks of wg0.conf that wg-quick would load;     *)
(*   paused    the blocks wrapped in a WG-PANEL-PAUSED envelope;           *)
(*   live      the peers of the running wg0 interface that have a route.   *)
(* A peer is a public key together with the name and the address that      *)
(* were written beside it; both are fixed when the key is generated.       *)
(*                                                                         *)
(* A helper is one call here: the panel holds its lifecycle lock around it *)
(* and every helper holds flock .wg-panel.lock.  Its result is a record    *)
(* [ok, store].  The failed results are the stores an error, an EXIT trap  *)
(* whose own commands may fail, or the SIGKILL of subprocess.run's timeout *)
(* can leave.  Module HelperScripts runs the scripts command by command    *)
(* and checks that they end in one of these results.                       *)
(***************************************************************************)
EXTENDS Naturals, FiniteSets

CONSTANTS
    Devices,     \* generated client names, u<len>-<user>-<device>
    Addrs,       \* the address pool (10.0.0.2 .. 10.0.0.254), as octets
    Keys,        \* BOUND: how many key pairs may be in use at once
    NoPeer       \* "no such client configuration"

ASSUME AddrsAssumption == Addrs \subseteq Nat
ASSUME NoPeerAssumption == NoPeer \notin [key : Keys, dev : Devices, addr : Addrs]

Peers == [key : Keys, dev : Devices, addr : Addrs]

Stores == [conf   : [Devices -> Peers \cup {NoPeer}],
           active : SUBSET Peers,
           paused : SUBSET Peers,
           live   : SUBSET Peers]

EmptyStore == [conf   |-> [d \in Devices |-> NoPeer],
               active |-> {}, paused |-> {}, live |-> {}]

HasConf(s, d) == s.conf[d] # NoPeer

Configured(s) == {d \in Devices : HasConf(s, d)}

ConfPeers(s) == {s.conf[d] : d \in Configured(s)}

\* A key pair just generated is in no file and on no interface.
FreshKeys(s) ==
    Keys \ {p.key : p \in ConfPeers(s) \cup s.active \cup s.paused \cup s.live}

\* Addresses add-client.sh may hand out: not in a plain block of wg0.conf, not
\* in a client configuration, not claimed by infrastructure.  An envelope is
\* base64, so a paused block reserves nothing by itself.
\*
\* Mutant: the retained client configurations are forgotten.
FreeAddrsOfBlocks(s, reserved) ==
    Addrs \ (reserved \cup {p.addr : p \in s.active})

FreeAddrs(s, reserved) ==
    Addrs \ (reserved \cup {p.addr : p \in s.active \cup ConfPeers(s)})

\* The one address the allocator's loop stops at, or none.
Lowest(S) == {a \in S : \A b \in S : a =< b}

\* wg set ... allowed-ips moves the route: a peer that held it keeps no route.
RouteTo(live, p) == {q \in live : q.addr # p.addr} \cup {p}

\* The parsers accept exactly one block, plain or enveloped, for the key.
OneBlock(s, p) == (p \in s.active) # (p \in s.paused)

Ok(s)     == [ok |-> TRUE,  store |-> s]
Failed(s) == [ok |-> FALSE, store |-> s]

-----------------------------------------------------------------------------
(* add-client.sh NAME [--prepare] *)

\* The store after a run wrote some of its files and got as far as live.
Added(s, p, live, files) ==
    [conf   |-> IF "conf" \in files THEN [s.conf EXCEPT ![p.dev] = p] ELSE s.conf,
     active |-> IF "active" \in files THEN s.active \cup {p} ELSE s.active,
     paused |-> IF "paused" \in files THEN s.paused \cup {p} ELSE s.paused,
     live   |-> live]

\* Publish the peer: on the interface, in wg0.conf, then as a client file.
AddPlain(s, p) ==
    {Ok(Added(s, p, RouteTo(s.live, p), {"active", "conf"}))}
    \cup {Failed(Added(s, p, live, files)) :
             live \in {s.live, RouteTo(s.live, p), RouteTo(s.live, p) \ {p}},
             files \in SUBSET {"active", "conf"}}

\* Only the envelope and the client file: the peer stays off the interface.
AddPrepared(s, p) ==
    {Ok(Added(s, p, s.live, {"paused", "conf"}))}
    \cup {Failed(Added(s, p, s.live, files)) : files \in SUBSET {"paused", "conf"}}

\* The key and the address a new client of the name d may be given.
NewPeers(s, d, reserved) ==
    {p \in Peers : /\ p.dev = d /\ ~HasConf(s, d)
                   /\ p.key \in FreshKeys(s)
                   /\ p.addr \in Lowest(FreeAddrs(s, reserved))}

AddClient(s, d, reserved, wg0) ==
    {Failed(s)} \cup
    IF wg0 = "up" THEN UNION {AddPlain(s, p) : p \in NewPeers(s, d, reserved)} ELSE {}

PrepareClient(s, d, reserved) ==
    {Failed(s)} \cup UNION {AddPrepared(s, p) : p \in NewPeers(s, d, reserved)}

-----------------------------------------------------------------------------
(* remove-client.sh NAME *)

\* What is left when the named parts of the peer of d are gone.
Removed(s, d, parts) ==
    LET p == s.conf[d]
    IN  [conf   |-> IF "conf" \in parts THEN [s.conf EXCEPT ![d] = NoPeer] ELSE s.conf,
         active |-> IF "block" \in parts THEN s.active \ {p} ELSE s.active,
         paused |-> IF "block" \in parts THEN s.paused \ {p} ELSE s.paused,
         live   |-> IF "live" \in parts THEN s.live \ {p} ELSE s.live]

AllParts == {"conf", "block", "live"}

\* The trap puts a live peer back only if its block was an active one.
TornRemovals(s, p) ==
    {parts \in SUBSET AllParts : p \in s.active \/ "live" \in parts}

RemoveClient(s, d, wg0) ==
    {Failed(s)} \cup
    IF HasConf(s, d) /\ OneBlock(s, s.conf[d]) /\ wg0 = "up"
    THEN {Ok(Removed(s, d, AllParts))}
         \cup {Failed(Removed(s, d, parts)) : parts \in TornRemovals(s, s.conf[d])}
    ELSE {}

-----------------------------------------------------------------------------
(* set-client-state.sh NAME pause | resume *)

\* The block moves as a whole into its envelope, and back.
\*
\* Mutant: the envelope keeps the name of the peer only.
EnvelopedName(s, p) == [s EXCEPT !.active = @ \ {p}, !.paused = @ \cup {p.dev}]

Enveloped(s, p) == [s EXCEPT !.active = @ \ {p}, !.paused = @ \cup {p}]
Restored(s, p)  == [s EXCEPT !.active = @ \cup {p}, !.paused = @ \ {p}]

\* The block is enveloped first, so a torn pause cannot outlive a reboot.
PauseClient(s, d, wg0) ==
    LET p == s.conf[d]
        off(t) == [t EXCEPT !.live = @ \ {p}]
    IN  {Failed(s)} \cup
        IF HasConf(s, d) /\ OneBlock(s, p)
        THEN {Failed(Enveloped(s, p)), Failed(off(Enveloped(s, p)))}
             \cup (IF wg0 = "up" THEN {Ok(off(Enveloped(s, p)))} ELSE {})
        ELSE {}

\* The peer goes live first; the trap takes it off again while the block it
\* found is still enveloped.
ResumeClient(s, d, wg0) ==
    LET p == s.conf[d]
        on(t)  == [t EXCEPT !.live = RouteTo(@, p)]
        off(t) == [t EXCEPT !.live = RouteTo(@, p) \ {p}]
    IN  {Failed(s)} \cup
        IF HasConf(s, d) /\ OneBlock(s, p) /\ wg0 = "up"
        THEN {Ok(on(Restored(s, p))), Failed(on(s)), Failed(on(Restored(s, p)))}
             \cup (IF p \in s.paused THEN {Failed(off(s))} ELSE {})
        ELSE {}
=============================================================================
