-------------------------- MODULE PeerStoreProofs --------------------------
(***************************************************************************)
(* What a run of a root helper can change, whatever it ends with: one      *)
(* theorem for each script, cited wherever a caller's step is proved.      *)
(***************************************************************************)
EXTENDS PeerStore, TLAPS

\* What gives a peer a route, now or when wg0 comes up.
Routed(s) == s.live \cup s.active

\* A store keeps its type when one peer takes over a route.
LEMMA RouteToType ==
    ASSUME NEW live \in SUBSET Peers, NEW p \in Peers
    PROVE  RouteTo(live, p) \in SUBSET Peers /\ RouteTo(live, p) \subseteq live \cup {p}
BY DEF RouteTo

\* A fresh key belongs to no peer the server knows of.
LEMMA FreshPeer ==
    ASSUME NEW s \in Stores, NEW p, p.key \in FreshKeys(s)
    PROVE  p \notin Routed(s) /\ \A e \in Devices : HasConf(s, e) => p # s.conf[e]
BY DEF FreshKeys, Routed, ConfPeers, Configured, HasConf

LEMMA AddedType ==
    ASSUME NEW s \in Stores, NEW p \in Peers, NEW live \in SUBSET Peers, NEW files
    PROVE  Added(s, p, live, files) \in Stores
BY DEF Added, Stores, Peers

LEMMA NewPeerFresh ==
    ASSUME NEW s \in Stores, NEW d \in Devices, NEW reserved,
           NEW p \in NewPeers(s, d, reserved)
    PROVE  /\ p \in Peers /\ p.dev = d /\ ~HasConf(s, d)
           /\ p \notin Routed(s)
           /\ \A e \in Devices : HasConf(s, e) => p # s.conf[e]
BY FreshPeer DEF NewPeers

\* add-client.sh touches the new name only, and gives a route to no peer that
\* the server knew of.
THEOREM AddClientChanges ==
    ASSUME NEW s \in Stores, NEW d \in Devices, NEW reserved, NEW wg0,
           NEW r \in AddClient(s, d, reserved, wg0)
    PROVE  /\ r.store \in Stores
           /\ \A e \in Devices \ {d} : r.store.conf[e] = s.conf[e]
           /\ \A e \in Devices : HasConf(s, e) /\ s.conf[e] \in Routed(r.store)
                                     => s.conf[e] \in Routed(s)
           /\ r.store.conf[d] # s.conf[d] => ~HasConf(s, d)
<1>1. CASE r = Failed(s)
  BY <1>1 DEF Failed, Routed
<1>2. CASE r # Failed(s)
  <2>1. PICK p \in NewPeers(s, d, reserved) : r \in AddPlain(s, p)
    BY <1>2 DEF AddClient
  <2>2. /\ p \in Peers /\ p.dev = d /\ ~HasConf(s, d)
        /\ \A e \in Devices : HasConf(s, e) => p # s.conf[e]
    BY NewPeerFresh
  <2> DEFINE lives == {s.live, RouteTo(s.live, p), RouteTo(s.live, p) \ {p}}
  <2>3. \/ r = Ok(Added(s, p, RouteTo(s.live, p), {"active", "conf"}))
        \/ \E live \in lives, files \in SUBSET {"active", "conf"} :
              r = Failed(Added(s, p, live, files))
    BY <2>1 DEF AddPlain
  <2>4. \A live \in lives : live \in SUBSET Peers /\ live \subseteq s.live \cup {p}
    BY <2>2, RouteToType DEF Stores
  <2>5. RouteTo(s.live, p) \in lives
    OBVIOUS
  <2> HIDE DEF lives
  <2>6. PICK live \in lives, files \in SUBSET {"active", "conf"} :
           r.store = Added(s, p, live, files)
    BY <2>3, <2>5 DEF Ok, Failed
  <2>7. live \in SUBSET Peers /\ live \subseteq s.live \cup {p}
    BY <2>4, <2>6
  <2>8. r.store \in Stores
    BY <2>2, <2>6, <2>7, AddedType
  <2>9. Routed(r.store) \subseteq Routed(s) \cup {p}
    BY <2>6, <2>7 DEF Added, Routed
  <2>10. \A e \in Devices \ {d} : r.store.conf[e] = s.conf[e]
    BY <2>2, <2>6 DEF Added, Stores
  <2> QED
    BY <2>2, <2>8, <2>9, <2>10
<1> QED
  BY <1>1, <1>2

\* add-client.sh --prepare gives a route to nobody, the new peer included.
THEOREM PrepareClientChanges ==
    ASSUME NEW s \in Stores, NEW d \in Devices, NEW reserved,
           NEW r \in PrepareClient(s, d, reserved)
    PROVE  /\ r.store \in Stores
           /\ \A e \in Devices \ {d} : r.store.conf[e] = s.conf[e]
           /\ Routed(r.store) = Routed(s)
           /\ r.store.conf[d] # s.conf[d] =>
                 ~HasConf(s, d) /\ r.store.conf[d] \notin Routed(s)
           /\ r.ok => r.store.conf[d] # s.conf[d]
<1>1. CASE r = Failed(s)
  BY <1>1 DEF Failed, Routed
<1>2. CASE r # Failed(s)
  <2>1. PICK p \in NewPeers(s, d, reserved) : r \in AddPrepared(s, p)
    BY <1>2 DEF PrepareClient
  <2>2. p \in Peers /\ p.dev = d /\ ~HasConf(s, d) /\ p \notin Routed(s)
    BY NewPeerFresh
  <2>3. PICK files \in SUBSET {"paused", "conf"} :
           /\ r.store = Added(s, p, s.live, files)
           /\ r.ok => "conf" \in files
    BY <2>1 DEF AddPrepared, Ok, Failed
  <2>4. s.live \in SUBSET Peers
    BY DEF Stores
  <2>5. r.store \in Stores
    BY <2>2, <2>3, <2>4, AddedType
  <2>6. Routed(r.store) = Routed(s)
    BY <2>3 DEF Added, Routed
  <2>7. /\ \A e \in Devices \ {d} : r.store.conf[e] = s.conf[e]
        /\ r.store.conf[d] = IF "conf" \in files THEN p ELSE s.conf[d]
    BY <2>2, <2>3 DEF Added, Stores
  <2>8. p # s.conf[d]
    BY <2>2, NoPeerAssumption DEF HasConf, Peers
  <2> QED
    BY <2>2, <2>3, <2>5, <2>6, <2>7, <2>8
<1> QED
  BY <1>1, <1>2

\* remove-client.sh touches one name only and gives no peer a route; when it
\* reports success the client configuration is gone.
THEOREM RemoveClientChanges ==
    ASSUME NEW s \in Stores, NEW d \in Devices, NEW wg0,
           NEW r \in RemoveClient(s, d, wg0)
    PROVE  /\ r.store \in Stores
           /\ \A e \in Devices \ {d} : r.store.conf[e] = s.conf[e]
           /\ r.store.conf[d] \in {s.conf[d], NoPeer}
           /\ r.ok => ~HasConf(r.store, d)
           /\ Routed(r.store) \subseteq Routed(s)
<1>1. CASE r = Failed(s)
  BY <1>1 DEF Failed, Routed
<1>2. CASE r # Failed(s)
  <2>1. PICK parts \in SUBSET AllParts :
           /\ r.store = Removed(s, d, parts)
           /\ r.ok => "conf" \in parts
    BY <1>2 DEF RemoveClient, TornRemovals, AllParts, Ok, Failed
  <2>2. r.store \in Stores
    BY <2>1 DEF Removed, Stores
  <2> QED
    BY <2>1, <2>2 DEF Removed, Stores, Routed, HasConf
<1> QED
  BY <1>1, <1>2

\* A pause keeps every client configuration and gives no peer a route.
THEOREM PauseClientChanges ==
    ASSUME NEW s \in Stores, NEW d \in Devices, NEW wg0,
           NEW r \in PauseClient(s, d, wg0)
    PROVE  /\ r.store \in Stores
           /\ r.store.conf = s.conf
           /\ Routed(r.store) \subseteq Routed(s)
<1>1. CASE r = Failed(s)
  BY <1>1 DEF Failed, Routed
<1>2. CASE r # Failed(s)
  <2> DEFINE p == s.conf[d]
             t == Enveloped(s, p)
  <2>1. p \in Peers
    BY <1>2 DEF PauseClient, HasConf, Stores
  <2>2. r.store \in {t, [t EXCEPT !.live = @ \ {p}]}
    BY <1>2 DEF PauseClient, Ok, Failed
  <2>3. t \in Stores /\ t.conf = s.conf /\ Routed(t) \subseteq Routed(s)
    BY <2>1 DEF Enveloped, Stores, Routed
  <2> HIDE DEF t, p
  <2> QED
    BY <2>2, <2>3 DEF Stores, Routed
<1> QED
  BY <1>1, <1>2

\* A resume keeps every client configuration and routes nothing but the peer
\* of the client it was called for.
THEOREM ResumeClientChanges ==
    ASSUME NEW s \in Stores, NEW d \in Devices, NEW wg0,
           NEW r \in ResumeClient(s, d, wg0)
    PROVE  /\ r.store \in Stores
           /\ r.store.conf = s.conf
           /\ Routed(r.store) \subseteq Routed(s) \cup {s.conf[d]}
<1>1. CASE r = Failed(s)
  BY <1>1 DEF Failed, Routed
<1>2. CASE r # Failed(s)
  <2> DEFINE p == s.conf[d]
             t == Restored(s, p)
  <2>1. p \in Peers
    BY <1>2 DEF ResumeClient, HasConf, Stores
  <2>2. r.store \in {[s EXCEPT !.live = RouteTo(@, p)], [t EXCEPT !.live = RouteTo(@, p)],
                     [s EXCEPT !.live = RouteTo(@, p) \ {p}]}
    BY <1>2 DEF ResumeClient, Ok, Failed
  <2>3. t \in Stores /\ t.conf = s.conf /\ Routed(t) \subseteq Routed(s) \cup {p}
    BY <2>1 DEF Restored, Stores, Routed
  <2>4. /\ RouteTo(s.live, p) \in SUBSET Peers /\ RouteTo(s.live, p) \subseteq s.live \cup {p}
        /\ RouteTo(t.live, p) \in SUBSET Peers /\ RouteTo(t.live, p) \subseteq t.live \cup {p}
    BY <2>1, <2>3, RouteToType DEF Stores
  <2> HIDE DEF t, p
  <2> QED
    BY <2>2, <2>3, <2>4 DEF Stores, Routed, p
<1> QED
  BY <1>1, <1>2

-----------------------------------------------------------------------------
(* Addresses *)

\* The peers that hold an address: those with a client file or a plain block.
Settled(s) == ConfPeers(s) \cup s.active

\* A client file lies under its peer's name, and every settled peer has an
\* address of its own, none of them a reserved one.
Distinct(s, reserved) ==
    /\ \A d \in Devices : HasConf(s, d) => s.conf[d].dev = d
    /\ \A p, q \in Settled(s) : p.addr = q.addr => p = q
    /\ \A p \in Settled(s) : p.addr \notin reserved

\* The allocator's address belongs to no settled peer and is not reserved.
LEMMA NewPeerAddress ==
    ASSUME NEW s \in Stores, NEW d \in Devices, NEW reserved,
           NEW p \in NewPeers(s, d, reserved)
    PROVE  p.addr \notin reserved /\ \A q \in Settled(s) : q.addr # p.addr
BY DEF NewPeers, Lowest, FreeAddrs, Settled

\* A store whose settled peers are those of another, or one new peer.
LEMMA DistinctGrows ==
    ASSUME NEW s, NEW t, NEW reserved, Distinct(s, reserved), NEW p,
           p.addr \notin reserved, \A q \in Settled(s) : q.addr # p.addr,
           Settled(t) \subseteq Settled(s) \cup {p},
           \A d \in Devices : HasConf(t, d) => t.conf[d].dev = d
    PROVE  Distinct(t, reserved)
BY DEF Distinct

LEMMA DistinctShrinks ==
    ASSUME NEW s, NEW t, NEW reserved, Distinct(s, reserved),
           Settled(t) \subseteq Settled(s),
           \A d \in Devices : HasConf(t, d) => t.conf[d].dev = d
    PROVE  Distinct(t, reserved)
BY DEF Distinct

\* Whatever files a run of add-client.sh wrote.
LEMMA AddedDistinct ==
    ASSUME NEW s \in Stores, NEW d \in Devices, NEW reserved, Distinct(s, reserved),
           NEW p \in NewPeers(s, d, reserved), NEW live, NEW files
    PROVE  Distinct(Added(s, p, live, files), reserved)
<1> DEFINE t == Added(s, p, live, files)
<1>1. p \in Peers /\ p.dev = d
  BY NewPeerFresh
<1>2. \A e \in Devices : t.conf[e] = s.conf[e] \/ (e = d /\ t.conf[e] = p)
  BY <1>1 DEF Added, Stores
<1>3. t.active \subseteq s.active \cup {p}
  BY DEF Added
<1> HIDE DEF t
<1>4. Settled(t) \subseteq Settled(s) \cup {p}
  BY <1>2, <1>3 DEF Settled, ConfPeers, Configured, HasConf
<1>5. \A e \in Devices : HasConf(t, e) => t.conf[e].dev = e
  BY <1>1, <1>2 DEF Distinct, HasConf
<1>6. Distinct(t, reserved)
  BY <1>4, <1>5, NewPeerAddress, DistinctGrows
<1> QED
  BY <1>6 DEF t

\* add-client.sh, published or prepared, finished or torn, leaves every
\* settled peer with an address of its own.
THEOREM AddClientDistinct ==
    ASSUME NEW s \in Stores, NEW d \in Devices, NEW reserved, NEW wg0,
           Distinct(s, reserved),
           NEW r \in AddClient(s, d, reserved, wg0) \cup PrepareClient(s, d, reserved)
    PROVE  Distinct(r.store, reserved)
<1>1. CASE r = Failed(s)
  BY <1>1 DEF Failed
<1>2. CASE r # Failed(s)
  <2>1. PICK p \in NewPeers(s, d, reserved) : r \in AddPlain(s, p) \cup AddPrepared(s, p)
    BY <1>2 DEF AddClient, PrepareClient
  <2>2. \E live, files : r.store = Added(s, p, live, files)
    BY <2>1 DEF AddPlain, AddPrepared, Ok, Failed
  <2> QED
    BY <2>2, AddedDistinct
<1> QED
  BY <1>1, <1>2

\* A peer add-client.sh puts on the interface has an address that was free.
THEOREM AddClientAddress ==
    ASSUME NEW s \in Stores, NEW d \in Devices, NEW reserved, NEW wg0,
           NEW r \in AddClient(s, d, reserved, wg0), NEW p \in r.store.live \ s.live
    PROVE  p.addr \notin reserved /\ \A q \in Settled(s) : q.addr # p.addr
<1>1. r # Failed(s)
  BY DEF Failed
<1>2. PICK n \in NewPeers(s, d, reserved) : r \in AddPlain(s, n)
  BY <1>1 DEF AddClient
<1>3. \E live \in {s.live, RouteTo(s.live, n), RouteTo(s.live, n) \ {n}} : \E files :
         r.store = Added(s, n, live, files)
  BY <1>2 DEF AddPlain, Ok, Failed
<1>4. r.store.live \subseteq s.live \cup {n}
  BY <1>3 DEF Added, RouteTo
<1>5. p = n
  BY <1>4
<1> QED
  BY <1>5, NewPeerAddress

\* So does every run of the other two scripts.
THEOREM RemoveClientDistinct ==
    ASSUME NEW s \in Stores, NEW d \in Devices, NEW wg0, NEW reserved,
           Distinct(s, reserved), NEW r \in RemoveClient(s, d, wg0)
    PROVE  Distinct(r.store, reserved)
<1>1. /\ \A e \in Devices \ {d} : r.store.conf[e] = s.conf[e]
      /\ r.store.conf[d] \in {s.conf[d], NoPeer}
  BY RemoveClientChanges
<1>2. r.store.active \subseteq s.active
  BY DEF RemoveClient, Removed, Ok, Failed
<1>3. Settled(r.store) \subseteq Settled(s)
  BY <1>1, <1>2 DEF Settled, ConfPeers, Configured, HasConf
<1>4. \A e \in Devices : HasConf(r.store, e) => r.store.conf[e].dev = e
  BY <1>1 DEF Distinct, HasConf
<1> QED
  BY <1>3, <1>4, DistinctShrinks

THEOREM SetClientStateDistinct ==
    ASSUME NEW s \in Stores, NEW d \in Devices, NEW wg0, NEW reserved,
           Distinct(s, reserved),
           NEW r \in PauseClient(s, d, wg0) \cup ResumeClient(s, d, wg0)
    PROVE  Distinct(r.store, reserved)
<1>1. r.store.conf = s.conf
  BY PauseClientChanges, ResumeClientChanges
<1>2. r.store.active \subseteq s.active \cup ConfPeers(s)
  <2>1. CASE r = Failed(s)
    BY <2>1 DEF Failed
  <2>2. CASE r # Failed(s)
    <3>1. HasConf(s, d)
      BY <2>2 DEF PauseClient, ResumeClient
    <3>2. s.conf[d] \in ConfPeers(s)
      BY <3>1 DEF ConfPeers, Configured
    <3> DEFINE p == s.conf[d]
    <3>3. \A t \in {s, Enveloped(s, p), Restored(s, p)} : \A live :
             /\ t.active \subseteq s.active \cup {p}
             /\ [t EXCEPT !.live = live].active = t.active
      BY DEF Enveloped, Restored, Stores
    <3>4. \E t \in {s, Enveloped(s, p), Restored(s, p)} : \E live :
             r.store \in {t, [t EXCEPT !.live = live]}
      BY <2>2 DEF PauseClient, ResumeClient, Ok, Failed
    <3>5. r.store.active \subseteq s.active \cup {p}
      BY <3>3, <3>4, ZenonT(40)
    <3> QED
      BY <3>2, <3>5
  <2> QED
    BY <2>1, <2>2
<1>3. Settled(r.store) \subseteq Settled(s)
  BY <1>1, <1>2 DEF Settled, ConfPeers, Configured, HasConf
<1>4. \A e \in Devices : HasConf(r.store, e) => r.store.conf[e].dev = e
  BY <1>1 DEF Distinct, HasConf
<1> QED
  BY <1>3, <1>4, DistinctShrinks

\* A pause that reports success has taken the peer off.
THEOREM PauseClientOff ==
    ASSUME NEW s \in Stores, NEW d \in Devices, NEW wg0,
           NEW r \in PauseClient(s, d, wg0), r.ok
    PROVE  s.conf[d] \notin Routed(r.store)
<1> DEFINE p == s.conf[d]
           t == Enveloped(s, p)
<1>1. r.store = [t EXCEPT !.live = @ \ {p}]
  BY DEF PauseClient, Ok, Failed
<1>2. p \notin t.active /\ t \in [conf : {t.conf}, active : {t.active}, paused : {t.paused}, live : {t.live}]
  BY DEF Enveloped, Stores
<1> HIDE DEF t, p
<1>3. r.store.active = t.active /\ r.store.live = t.live \ {p}
  BY <1>1, <1>2
<1> QED
  BY <1>2, <1>3 DEF Routed, p
-----------------------------------------------------------------------------
(* Envelopes *)

\* The peer of d is kept in an envelope.
Boxed(s, d) == HasConf(s, d) /\ s.conf[d] \in s.paused

\* Whatever add-client.sh wrote, no other client is enveloped by it, and its
\* own only with --prepare.
LEMMA AddedBoxes ==
    ASSUME NEW s \in Stores, NEW d \in Devices, NEW reserved,
           NEW p \in NewPeers(s, d, reserved), NEW live, NEW files, NEW e \in Devices,
           e # d \/ "paused" \notin files, Boxed(Added(s, p, live, files), e)
    PROVE  Boxed(s, e)
<1> DEFINE t == Added(s, p, live, files)
<1>1. /\ p.dev = d /\ p \notin s.paused
      /\ \A c \in Devices : HasConf(s, c) => p # s.conf[c]
  BY NewPeerFresh DEF NewPeers, FreshKeys
<1>2. /\ t.conf[e] = s.conf[e] \/ (e = d /\ t.conf[e] = p)
      /\ t.paused = IF "paused" \in files THEN s.paused \cup {p} ELSE s.paused
  BY <1>1 DEF Added, Stores
<1>3. HasConf(t, e) /\ t.conf[e] \in t.paused
  BY DEF Boxed
<1> HIDE DEF t
<1> QED
  BY <1>1, <1>2, <1>3 DEF Boxed, HasConf

THEOREM AddClientBoxes ==
    ASSUME NEW s \in Stores, NEW d \in Devices, NEW reserved, NEW wg0,
           NEW r \in AddClient(s, d, reserved, wg0), NEW e \in Devices, Boxed(r.store, e)
    PROVE  Boxed(s, e) /\ (r.ok => e # d)
<1>1. CASE r = Failed(s)
  BY <1>1 DEF Failed
<1>2. CASE r # Failed(s)
  <2>1. PICK p \in NewPeers(s, d, reserved) : r \in AddPlain(s, p)
    BY <1>2 DEF AddClient
  <2>2. \/ r = Ok(Added(s, p, RouteTo(s.live, p), {"active", "conf"}))
        \/ \E live, files : /\ files \in SUBSET {"active", "conf"}
                            /\ r = Failed(Added(s, p, live, files))
    BY <2>1 DEF AddPlain
  <2>3. PICK live, files : "paused" \notin files /\ r.store = Added(s, p, live, files)
    BY <2>2 DEF Ok, Failed
  <2>4. ~HasConf(s, d)
    BY <2>1 DEF NewPeers
  <2>5. Boxed(s, e)
    BY <2>3, AddedBoxes
  <2> QED
    BY <2>4, <2>5 DEF Boxed
<1> QED
  BY <1>1, <1>2

THEOREM PrepareClientBoxes ==
    ASSUME NEW s \in Stores, NEW d \in Devices, NEW reserved,
           NEW r \in PrepareClient(s, d, reserved), NEW e \in Devices \ {d}, Boxed(r.store, e)
    PROVE  Boxed(s, e)
<1>1. CASE r = Failed(s)
  BY <1>1 DEF Failed
<1>2. CASE r # Failed(s)
  <2>1. PICK p \in NewPeers(s, d, reserved) : \E files : r.store = Added(s, p, s.live, files)
    BY <1>2 DEF PrepareClient, AddPrepared, Ok, Failed
  <2> QED
    BY <2>1, AddedBoxes
<1> QED
  BY <1>1, <1>2

THEOREM RemoveClientBoxes ==
    ASSUME NEW s \in Stores, NEW d \in Devices, NEW wg0,
           NEW r \in RemoveClient(s, d, wg0), NEW e \in Devices, Boxed(r.store, e)
    PROVE  Boxed(s, e)
<1>1. CASE r = Failed(s)
  BY <1>1 DEF Failed
<1>2. CASE r # Failed(s)
  <2>1. PICK parts \in SUBSET AllParts : r.store = Removed(s, d, parts)
    BY <1>2 DEF RemoveClient, TornRemovals, Ok, Failed
  <2> DEFINE t == Removed(s, d, parts)
  <2>2. t.conf[e] \in {s.conf[e], NoPeer} /\ t.paused \subseteq s.paused
    BY DEF Removed, Stores
  <2>3. HasConf(t, e) /\ t.conf[e] \in t.paused
    BY <2>1 DEF Boxed
  <2> HIDE DEF t
  <2> QED
    BY <2>2, <2>3 DEF Boxed, HasConf
<1> QED
  BY <1>1, <1>2

\* A pause envelopes the peer it was called for.
THEOREM PauseClientBoxes ==
    ASSUME NEW s \in Stores, NEW d \in Devices, NEW wg0, NEW reserved, Distinct(s, reserved),
           NEW r \in PauseClient(s, d, wg0), NEW e \in Devices \ {d}, Boxed(r.store, e)
    PROVE  Boxed(s, e)
<1>1. CASE r = Failed(s)
  BY <1>1 DEF Failed
<1>2. CASE r # Failed(s)
  <2> DEFINE p == s.conf[d]
             t == Enveloped(s, p)
  <2>1. HasConf(s, d)
    BY <1>2 DEF PauseClient
  <2>2. r.store \in {t, [t EXCEPT !.live = @ \ {p}]}
    BY <1>2 DEF PauseClient, Ok, Failed
  <2>3. /\ t.conf = s.conf /\ t.paused = s.paused \cup {p}
        /\ t \in [conf : {t.conf}, active : {t.active}, paused : {t.paused}, live : {t.live}]
    BY DEF Enveloped, Stores
  <2>4. HasConf(s, e) => s.conf[e] # p
    BY <2>1 DEF Distinct
  <2> HIDE DEF t, p
  <2>5. r.store.conf = t.conf /\ r.store.paused = t.paused
    BY <2>2, <2>3
  <2> QED
    BY <2>3, <2>4, <2>5 DEF Boxed, HasConf
<1> QED
  BY <1>1, <1>2

\* A resume envelopes nothing, and frees its own peer if it succeeds.
THEOREM ResumeClientBoxes ==
    ASSUME NEW s \in Stores, NEW d \in Devices, NEW wg0,
           NEW r \in ResumeClient(s, d, wg0), NEW e \in Devices, Boxed(r.store, e)
    PROVE  Boxed(s, e) /\ (r.ok => e # d)
<1>1. CASE r = Failed(s)
  BY <1>1 DEF Failed
<1>2. CASE r # Failed(s)
  <2> DEFINE p == s.conf[d]
             t == Restored(s, p)
  <2>1. /\ r.store \in {[t EXCEPT !.live = RouteTo(@, p)], [s EXCEPT !.live = RouteTo(@, p)],
                        [s EXCEPT !.live = RouteTo(@, p) \ {p}]}
        /\ r.ok => r.store = [t EXCEPT !.live = RouteTo(@, p)]
    BY <1>2 DEF ResumeClient, Ok, Failed
  <2>2. /\ t.conf = s.conf /\ t.paused = s.paused \ {p}
        /\ t \in [conf : {t.conf}, active : {t.active}, paused : {t.paused}, live : {t.live}]
        /\ s \in [conf : {s.conf}, active : {s.active}, paused : {s.paused}, live : {s.live}]
    BY DEF Restored, Stores
  <2>3. s.conf[d] = p
    OBVIOUS
  <2> HIDE DEF t, p
  <2>4. /\ r.store.conf = s.conf /\ r.store.paused \subseteq s.paused
        /\ r.ok => r.store.paused = s.paused \ {p}
    BY <2>1, <2>2
  <2> QED
    BY <2>3, <2>4 DEF Boxed, HasConf
<1> QED
  BY <1>1, <1>2
=============================================================================
