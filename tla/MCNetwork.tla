----------------------------- MODULE MCNetwork ------------------------------
(***************************************************************************)
(* The peer-to-peer components around two hosts: scores and bans, the      *)
(* address book on top of them, the admission of nodes, and the connection *)
(* manager.  Each behaviour exercises one of them; a gossip batch is one   *)
(* message of many addresses, so it has a part of its own, and a node that *)
(* comes back with another key needs one challenge more than two that join *)
(* at the same time.                                                       *)
(***************************************************************************)
EXTENDS AddrMan, Authority, ConnMan

VARIABLE part

netVars == <<now, part, scoreVars, addrVars, authVars, connVars>>

TheAddress == {"a1", "a2", "a3", "b1"}
TheHostOf == [a1 |-> "a", a2 |-> "a", a3 |-> "a", b1 |-> "b"]
TheGroupOf == [a1 |-> "g", a2 |-> "g", a3 |-> "g", b1 |-> "k"]
ThePenalty == [addr_spam |-> 10]
ScoreOfTempBan == -30
ScoreOfLongBan == -45
ScoreOfPermBan == -60
TheRetryBackoff == <<1, 2>>
TheConfigured == [b1 |-> 0]
TheIdAt == [a1 |-> "n1", a2 |-> "n2", a3 |-> "n2", b1 |-> "n2"]
\* A node id "node:<hex>" loses what follows its colon, like a port.
TheNormOf == [n1 |-> "node", n2 |-> "node", a1 |-> "a", a2 |-> "a", a3 |-> "a", b1 |-> "b"]

NetInit ==
    /\ part \in {"scores", "book", "gossip", "strict", "rejoin", "assisted", "listening", "dialling"}
    /\ now = 0 /\ ScoreInit /\ AddrInit /\ AuthInit /\ ConnInit
    /\ mode = CASE part \in {"strict", "rejoin"} -> "strict"
               [] part = "assisted" -> "assisted" [] OTHER -> "open"

TimePasses ==
    /\ part \in {"scores", "book", "gossip", "strict", "assisted"}
    /\ (part # "scores" => now = 0)
    /\ Tick
    /\ UNCHANGED <<part, scoreVars, addrVars, authVars, connVars>>

Scores ==
    /\ part = "scores" /\ ScoreNext({"a1", "a2"})
    /\ UNCHANGED <<now, part, addrVars, authVars, connVars>>

Book ==
    /\ part = "book" /\ BookNext({"a1", "a2", "b1"})
    /\ UNCHANGED <<now, part, authVars, connVars>>

Gossip ==
    /\ part = "gossip" /\ GossipNext({"a1", "a2", "b1"}, "b1")
    /\ UNCHANGED <<now, part, authVars, connVars>>

Admission ==
    /\ \/ part = "strict" /\ AuthNext({"a1", "a2"}) /\ nextId' <= 2 /\ UNCHANGED lag
       \/ part = "rejoin" /\ AuthNext({"a1"})
       \/ part = "assisted" /\ AuthNext({"a1"}) /\ nextId' <= 2
    /\ UNCHANGED <<now, part, scoreVars, addrVars, connVars>>

Listening ==
    /\ part = "listening" /\ ConnNext({"a1", "a2", "a3"}, {"a1"})
    /\ UNCHANGED <<now, part, scoreVars, addrVars, authVars>>

Dialling ==
    /\ part = "dialling" /\ ConnNext({}, {"a1", "a2", "b1"})
    /\ UNCHANGED <<now, part, scoreVars, addrVars, authVars>>

NetNext == TimePasses \/ Scores \/ Book \/ Gossip \/ Admission \/ Listening \/ Dialling

NetSpec == NetInit /\ [][NetNext]_netVars
=============================================================================
