------------------------------ MODULE MCRelay -------------------------------
(***************************************************************************)
(* Three nodes that all know each other.  Level: they share the genesis    *)
(* block and one mines b1, with a transaction under way; wide: it mines a  *)
(* block of which a compact block leaves more open than a node may ask     *)
(* for; behind: one node is a block behind when the next one is mined.     *)
(* Beside them, the handshake of a pair of connections.                    *)
(***************************************************************************)
EXTENDS BlockRelay, Handshake

VARIABLE part

TheNode == {"a", "b", "c"}
TheLinks == {{"a", "b"}, {"b", "c"}, {"a", "c"}}
TheBlock == {"g", "b1", "b2", "w"}
ThePathTo == [g |-> <<"g">>, b1 |-> <<"g", "b1">>, b2 |-> <<"g", "b1", "b2">>, w |-> <<"g", "w">>]
TheTxs == [g |-> <<>>, b1 |-> <<"t1">>, b2 |-> <<>>, w |-> <<"t1", "t2">>]

AllAtGenesis == [n \in TheNode |-> "g"]
TipsIn == [level |-> AllAtGenesis, wide |-> AllAtGenesis, shaking |-> AllAtGenesis,
           behind |-> [a |-> "b1", b |-> "b1", c |-> "g"]]

Init ==
    /\ part \in DOMAIN TipsIn
    /\ RelayInit(TipsIn[part], part # "level")
    /\ IF part = "shaking" THEN ShakeInit(Configs({"main", "test"}), "new")
       ELSE ShakeInit({[net |-> [e \in End |-> "main"], old |-> {}]}, "closed")

Relaying ==
    /\ \/ part = "level" /\ RelayNext("a", {"t1"}, {"b1"})
       \/ part = "wide" /\ RelayNext("a", {"t1"}, {"w"}) /\ UNCHANGED faults
       \/ part = "behind" /\ RelayNext("a", {}, {"b2"}) /\ UNCHANGED faults
    /\ UNCHANGED <<part, shakeVars>>

Shaking ==
    /\ part = "shaking" /\ ShakeNext
    /\ UNCHANGED <<part, relayVars>>

\* In each part the fair actions of the other component are never enabled.
Next == Relaying \/ Shaking
vars == <<part, relayVars, shakeVars>>

Spec == Init /\ [][Next]_vars /\ RelayFairness /\ ShakeFairness
=============================================================================
