------------------------------ MODULE ConnMan ------------------------------
(* ConnectionManager: accepting, dialling, evicting and dropping peers.      *)
(* Every await of the code ends an action: a connection is checked before    *)
(* its handshake and registered after it, and a disconnecting one keeps its  *)
(* table entries until its socket has closed.  Scores are left open: where   *)
(* the code compares them, either outcome is possible.  That should_connect  *)
(* or the authority chain refuses a connection changes nothing, so that such *)
(* refusals need no action.                                                  *)
EXTENDS NetBase

CONSTANTS Conn,            \* Peer objects
          MaxConnections, MaxInboundPerHost, MaxInboundPerGroup,
          MaxOutbound, MaxOutboundPerGroup,
          MinOutboundGroups, TargetAnchors, TargetBlockRelay, MinAnchorGroups,
          MaxAccepting     \* bound: inbound connections not yet admitted

\* A Peer object is not None; the limits are counts, and something is accepted.
ASSUME ConnAssumption ==
    /\ None \notin Conn
    /\ MaxInboundPerHost \in Nat /\ MaxAccepting \in Nat \ {0}
    /\ MaxOutbound \in Nat /\ MaxOutboundPerGroup \in Nat

VARIABLES conn,        \* Conn -> [addr, dir, stage, by, victim], and (history) whether
                       \* another connection had the same address meanwhile
          peers, outbound_peers, inbound_peers,   \* Address -> Conn or None
          klass,       \* outbound_classes: Address -> class or None
          pending,     \* _pending_outbound_class
          maint,       \* locals of _maintain_connections and _connect_outbound
          running

connVars == <<conn, peers, outbound_peers, inbound_peers, klass, pending,
              maint, running>>
tables == <<peers, outbound_peers, inbound_peers, klass>>

Idle == [plan |-> <<>>, groups |-> [g \in Group |-> 0], busy |-> FALSE]
Free == [addr |-> None, dir |-> None, stage |-> "free", by |-> None, victim |-> None,
         shared |-> FALSE]

Registered(t) == {a \in Address : t[a] # None}
Size(t) == Cardinality(Registered(t))
InStage(s) == {c \in Conn : conn[c].stage = s}
Live(c) == conn[c].stage = "live"
Accepting == InStage("evicting") \cup InStage("shaking")

OfHost(a) == Cardinality({b \in Registered(inbound_peers) : HostOf[b] = HostOf[a]})
OfGroup(t, g) == Cardinality({b \in Registered(t) : GroupOf[b] = g})
-----------------------------------------------------------------------------
ConnInit ==
    /\ conn = [c \in Conn |-> Free]
    /\ peers = [a \in Address |-> None] /\ outbound_peers = peers
    /\ inbound_peers = peers /\ klass = peers /\ pending = peers
    /\ maint = Idle /\ running = TRUE

(* Peer.disconnect of a connected peer, up to the await of wait_closed *)
Closing(c) == [conn[c] EXCEPT !.stage = "closing"]

(* The checks accept_connection makes after the connection limit *)
MayAccept(a) ==
    /\ OfHost(a) < MaxInboundPerHost
    /\ OfGroup(inbound_peers, GroupOf[a]) < MaxInboundPerGroup
    /\ peers[a] = None

Shaking(a) == [addr |-> a, dir |-> "in", stage |-> "shaking", by |-> "remote",
               victim |-> None, shared |-> FALSE]

(* accept_connection below the connection limit, up to the handshake *)
AcceptConnection(c, a) ==
    /\ running /\ c \in InStage("free") /\ Cardinality(Accepting) < MaxAccepting
    /\ Size(peers) < MaxConnections /\ MayAccept(a)
    /\ conn' = [conn EXCEPT ![c] = Shaking(a)]
    /\ UNCHANGED <<tables, pending, maint, running>>

(* The peers _evict_worst_inbound_for may pick: those of the fullest netgroup *)
Worst ==
    LET in == Registered(inbound_peers)
        count(b) == OfGroup(inbound_peers, GroupOf[b])
        redundant == {b \in in : count(b) > 1}
        pool == IF redundant # {} THEN redundant ELSE in
    IN  {b \in pool : \A d \in pool : count(b) >= count(d)}

(* accept_connection at the limit: the victim is told to disconnect and its  *)
(* socket awaited; one that is already closing is awaited no longer          *)
EvictForInbound(c, a) ==
    /\ running /\ c \in InStage("free") /\ Cardinality(Accepting) < MaxAccepting
    /\ Size(peers) >= MaxConnections
    /\ \E b \in Worst :
        LET v == inbound_peers[b]
            mine == Live(v)
        IN  conn' = [conn EXCEPT ![v] = IF mine THEN Closing(v) ELSE @,
                ![c] = [addr |-> a, dir |-> "in", stage |-> "evicting", by |-> "remote",
                        victim |-> IF mine THEN v ELSE None, shared |-> FALSE]]
    /\ UNCHANGED <<tables, pending, maint, running>>

(* the eviction is over and the other checks run; the connection limit is    *)
(* not looked at again                                                       *)
EvictionDone(c) ==
    LET a == conn[c].addr
    IN  /\ c \in InStage("evicting")
        /\ conn[c].victim # None => conn[conn[c].victim].stage # "closing"
        /\ conn' = [conn EXCEPT ![c] = IF MayAccept(a) THEN Shaking(a) ELSE Free]
        /\ UNCHANGED <<tables, pending, maint, running>>

(* Fault: an outbound peer is not entered among all peers *)
Fault_add_peer(c, a) ==
    /\ peers' = IF conn[c].dir = "out" THEN peers ELSE [peers EXCEPT ![a] = c]
    /\ IF conn[c].dir = "out"
       THEN /\ outbound_peers' = [outbound_peers EXCEPT ![a] = c]
            /\ klass' = [klass EXCEPT ![a] = IF pending[a] # None THEN pending[a] ELSE "full-relay"]
            /\ pending' = [pending EXCEPT ![a] = None]
            /\ UNCHANGED inbound_peers
       ELSE /\ inbound_peers' = [inbound_peers EXCEPT ![a] = c]
            /\ UNCHANGED <<outbound_peers, klass, pending>>
    /\ conn' = [conn EXCEPT ![c].stage = "live"]

(* _add_peer: the entry of the address is overwritten whoever holds it *)
add_peer(c, a) ==
    /\ peers' = [peers EXCEPT ![a] = c]
    /\ IF conn[c].dir = "out"
       THEN /\ outbound_peers' = [outbound_peers EXCEPT ![a] = c]
            /\ klass' = [klass EXCEPT ![a] = IF pending[a] # None THEN pending[a] ELSE "full-relay"]
            /\ pending' = [pending EXCEPT ![a] = None]
            /\ UNCHANGED inbound_peers
       ELSE /\ inbound_peers' = [inbound_peers EXCEPT ![a] = c]
            /\ UNCHANGED <<outbound_peers, klass, pending>>
    /\ conn' = LET sharers == {d \in InStage("live") \cup InStage("closing") : conn[d].addr = a}
               IN  [d \in Conn |->
                      IF d = c THEN [conn[c] EXCEPT !.stage = "live", !.shared = sharers # {}]
                      ELSE IF d \in sharers THEN [conn[d] EXCEPT !.shared = TRUE] ELSE conn[d]]

(* the loop's slot is filled; its own count of the netgroup goes up *)
SlotFilled(c) ==
    IF conn[c].by # "loop" THEN maint
    ELSE [plan |-> Tail(maint.plan), busy |-> FALSE,
          groups |-> [maint.groups EXCEPT ![GroupOf[conn[c].addr]] = @ + 1]]
LoopFree(c) == IF conn[c].by = "loop" THEN [maint EXCEPT !.busy = FALSE] ELSE maint

(* the handshake of an inbound or outbound connection succeeds *)
HandshakeDone(c) ==
    LET a == conn[c].addr
    IN  /\ c \in InStage("shaking") \cup InStage("dialling") /\ conn[c].dir # "feeler"
        /\ add_peer(c, a)
        /\ maint' = SlotFilled(c)
        /\ UNCHANGED running

(* it fails, times out, or is answered by a malformed or oversized message *)
HandshakeFails(c) ==
    LET a == conn[c].addr
    IN  /\ c \in InStage("shaking") \cup InStage("dialling")
        /\ conn' = [conn EXCEPT ![c] = Free]
        /\ pending' = IF conn[c].dir = "out" THEN [pending EXCEPT ![a] = None] ELSE pending
        /\ maint' = LoopFree(c)
        /\ UNCHANGED <<tables, running>>

(* _run_feeler of an address that answers: no table ever holds it *)
FeelerDone(c) ==
    /\ c \in InStage("dialling") /\ conn[c].dir = "feeler"
    /\ conn' = [conn EXCEPT ![c] = Free]
    /\ maint' = LoopFree(c)
    /\ UNCHANGED <<tables, pending, running>>
-----------------------------------------------------------------------------
(* _desired_outbound_classes for the free outbound slots *)
DesiredClasses ==
    LET free == MaxOutbound - Size(outbound_peers)
        have(k) == Cardinality({a \in Address : klass[a] = k})
        need(k, target) == MaxOf({0, target - have(k)})
        anchors == MinOf({free, need("anchor", TargetAnchors)})
        blocks == MinOf({free - anchors, need("block-relay-only", TargetBlockRelay)})
    IN  [i \in 1..free |-> IF i <= anchors THEN "anchor"
                           ELSE IF i <= anchors + blocks THEN "block-relay-only"
                           ELSE "full-relay"]

(* Fault: the slots are counted without the peers already there *)
FaultMaintain ==
    /\ running /\ maint = Idle /\ Size(outbound_peers) < MaxOutbound
    /\ maint' = [plan |-> [i \in 1..MaxOutbound |-> "full-relay"], busy |-> FALSE,
                 groups |-> [g \in Group |-> 0]]
    /\ UNCHANGED <<conn, tables, pending, running>>

(* a round of _maintain_connections: slots and netgroups are counted once *)
Maintain ==
    /\ running /\ maint = Idle /\ Size(outbound_peers) < MaxOutbound
    /\ maint' = [plan |-> DesiredClasses, busy |-> FALSE,
                 groups |-> [g \in Group |-> OfGroup(outbound_peers, g)]]
    /\ UNCHANGED <<conn, tables, pending, running>>

(* _connect_outbound_address, up to the await of connect() *)
Dial(c, a, class, by) ==
    /\ c \in InStage("free")
    /\ conn' = [conn EXCEPT ![c] = [addr |-> a, dir |-> "out", stage |-> "dialling",
                                    by |-> by, victim |-> None, shared |-> FALSE]]
    /\ pending' = [pending EXCEPT ![a] = class]
    /\ UNCHANGED <<tables, running>>

(* _connect_outbound tries an address for the class of its next slot *)
DialNext(c, a) ==
    /\ running /\ maint.plan # <<>> /\ ~maint.busy
    /\ peers[a] = None /\ maint.groups[GroupOf[a]] < MaxOutboundPerGroup
    /\ Dial(c, a, Head(maint.plan), "loop")
    /\ maint' = [maint EXCEPT !.busy = TRUE]

(* the candidates for a slot ran out; with the last slot the round is over *)
SlotSkipped ==
    /\ running /\ maint # Idle /\ ~maint.busy
    /\ maint' = IF Len(maint.plan) <= 1 THEN Idle ELSE [maint EXCEPT !.plan = Tail(@)]
    /\ UNCHANGED <<conn, tables, pending, running>>

(* the RPC addnode "connect": no limit and no table is looked at *)
RpcConnect(c, a) == running /\ Dial(c, a, "full-relay", "rpc") /\ UNCHANGED maint

RunFeeler(c, a) ==
    /\ running /\ maint = Idle /\ peers[a] = None /\ c \in InStage("free")
    /\ conn' = [conn EXCEPT ![c] = [addr |-> a, dir |-> "feeler", stage |-> "dialling",
                                    by |-> "loop", victim |-> None, shared |-> FALSE]]
    /\ maint' = [maint EXCEPT !.busy = TRUE]
    /\ UNCHANGED <<tables, pending, running>>

(* The sets _protected_outbound_addresses may return: the best of every      *)
(* netgroup, more up to the minimum, the best anchors                        *)
Protections ==
    LET out == Registered(outbound_peers)
        inGroup(S, g) == {a \in S : GroupOf[a] = g}
        anchors == {a \in out : klass[a] = "anchor"}
        groups == {GroupOf[a] : a \in out}
        first == {P \in SUBSET out : \A g \in groups :
                    Cardinality(inGroup(P, g)) = 1}
        filled(P) == {Q \in SUBSET out : P \subseteq Q /\ Cardinality(Q) =
                        MaxOf({Cardinality(P), MinOf({MinOutboundGroups, Cardinality(out)})})}
        held(Q) == {R \in SUBSET anchors :
                      /\ Cardinality({GroupOf[a] : a \in R}) = Cardinality(R)
                      /\ Cardinality(R) = MinOf({MinAnchorGroups,
                                            Cardinality({GroupOf[a] : a \in anchors})})}
    IN  UNION {UNION {{Q \cup R : R \in held(Q)} : Q \in filled(P)} : P \in first}

(* the loop closes a peer and waits for its socket *)
CloseOutbound(a) ==
    /\ Live(outbound_peers[a])
    /\ conn' = [conn EXCEPT ![outbound_peers[a]] = Closing(outbound_peers[a])]
    /\ UNCHANGED <<tables, pending, maint, running>>

(* _maybe_rotate_outbound with all slots in use *)
RotateOutbound(a) ==
    /\ running /\ maint = Idle /\ Size(outbound_peers) >= MaxOf({2, MaxOutbound})
    /\ \E P \in Protections : a \in Registered(outbound_peers) \ P
    /\ CloseOutbound(a)

(* _evict_bad_outbound: one should_evict names, a protected one if need be *)
EvictBadOutbound(a) ==
    /\ running /\ maint = Idle
    /\ a \in Registered(outbound_peers)
    /\ CloseOutbound(a)
-----------------------------------------------------------------------------
(* The remote end closes, a read or a write times out, the peer idles, or    *)
(* breaks the protocol: Peer._handle_messages ends in disconnect()           *)
PeerEnds(c) ==
    LET a == conn[c].addr
    IN  /\ Live(c)
        /\ conn' = [conn EXCEPT ![c] = Closing(c)]
        /\ UNCHANGED <<tables, pending, maint, running>>

(* the socket has closed: _on_peer_disconnect clears what its address holds *)
PeerGone(c) ==
    LET a == conn[c].addr
    IN  /\ c \in InStage("closing")
        /\ conn' = [conn EXCEPT ![c] = Free]
        /\ peers' = [peers EXCEPT ![a] = None]
        /\ outbound_peers' = [outbound_peers EXCEPT ![a] = None]
        /\ inbound_peers' = [inbound_peers EXCEPT ![a] = None]
        /\ klass' = [klass EXCEPT ![a] = None]
        /\ pending' = [pending EXCEPT ![a] = None]
        /\ UNCHANGED <<maint, running>>

(* stop(): the loop's dial is cancelled, every registered peer closed.       *)
(* Handshakes of inbound connections go on.                                  *)
Stop ==
    /\ running /\ running' = FALSE /\ maint' = Idle
    /\ conn' = [c \in Conn |->
         IF conn[c].stage = "dialling" /\ conn[c].by = "loop" THEN Free
         ELSE IF Live(c) /\ peers[conn[c].addr] = c THEN Closing(c) ELSE conn[c]]
    /\ UNCHANGED <<tables, pending>>

(* the Peer object that the next connection gets; which one is immaterial *)
NewPeer == {CHOOSE c \in F : TRUE : F \in {InStage("free")} \ {{}}}

(* connections come from some addresses, and some are in the book *)
ConnNext(Source, Dialable) ==
    \/ \E c \in NewPeer :
        \/ \E a \in Source : AcceptConnection(c, a) \/ EvictForInbound(c, a)
        \/ \E a \in Dialable : DialNext(c, a) \/ RpcConnect(c, a) \/ RunFeeler(c, a)
    \/ \E c \in Conn :
        \/ EvictionDone(c) \/ HandshakeDone(c) \/ FeelerDone(c) \/ PeerGone(c)
        \/ HandshakeFails(c) \/ PeerEnds(c)
    \/ \E a \in Address : RotateOutbound(a) \/ EvictBadOutbound(a)
    \/ Maintain \/ SlotSkipped \/ Stop

(* connections come from and go to every address *)
ConnSpec == ConnInit /\ [][ConnNext(Address, Address)]_connVars
-----------------------------------------------------------------------------
(* The three tables and the class table tell the same story: an address is a *)
(* peer when it is an inbound or an outbound one, and every outbound peer    *)
(* has a class, through every order of handshakes, evictions and closes.     *)
TablesAgree ==
    \A a \in Address :
        /\ peers[a] # None <=> inbound_peers[a] # None \/ outbound_peers[a] # None
        /\ peers[a] # None => peers[a] \in {inbound_peers[a], outbound_peers[a]}
        /\ klass[a] # None <=> outbound_peers[a] # None

(* The limit per host is checked before the handshake is awaited and the     *)
(* peer entered after it, so that it may be overrun, but by no more than the *)
(* handshakes that ran at the same time.                                     *)
HostOverrunBounded ==
    \A h \in Host :
        Cardinality({a \in Registered(inbound_peers) : HostOf[a] = h})
            <= MaxInboundPerHost + MaxAccepting - 1

(* A live connection is missing from the peer table only when two            *)
(* connections had its address (the RPC connect, or two handshakes at once)  *)
(* and the end of the other one took its entry away.                         *)
LostOnlyByClash ==
    \A c \in Conn : Live(c) /\ ~conn[c].shared => peers[conn[c].addr] = c

(* The maintenance loop keeps to the outbound slots and to the limit per     *)
(* netgroup, although it counts both once and dials for a long time.         *)
LoopWithinBudget ==
    LET mine == {a \in Registered(outbound_peers) : conn[outbound_peers[a]].by = "loop"}
    IN  /\ Cardinality(mine) <= MaxOutbound
        /\ \A g \in Group : Cardinality({a \in mine : GroupOf[a] = g}) <= MaxOutboundPerGroup

(* The tables of the connection manager tell which connections it has.       *)
TablesTrackConnections == TablesAgree /\ LostOnlyByClash

(* Limits that are checked before an await and used after it are overrun     *)
(* only as far as the awaits of that moment allow.                           *)
LimitsBounded == HostOverrunBounded /\ LoopWithinBudget
=============================================================================
