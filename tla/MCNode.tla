------------------------------- MODULE MCNode -------------------------------
(***************************************************************************)
(* What a node does besides following the chain: it stores it and rebuilds *)
(* its state at start-up, indexes it, mines on it, keeps a wallet and      *)
(* answers requests.  Each behaviour exercises one of these; the store and *)
(* the indexes work on one block tree.                                     *)
(***************************************************************************)
EXTENDS Miner, Wallet, RpcServer, NodeStore, Indexes, TLC

CONSTANTS g, p1, a2, a3, a4, b2, b3

VARIABLE part

vars == <<part, minerVars, walletVars, rpcVars, storeVars, indexVars>>

\* p1 is mined first; ta spends its coinbase, tc spends ta; tb and td wait in
\* the pool, tb in conflict with ta.
NodeParent == p1 :> g @@ a2 :> p1 @@ a3 :> a2 @@ a4 :> a3 @@ b2 :> p1 @@ b3 :> b2
NodeAnc == g :> {g} @@ p1 :> {g, p1} @@ a2 :> {g, p1, a2} @@ a3 :> {g, p1, a2, a3}
           @@ a4 :> {g, p1, a2, a3, a4} @@ b2 :> {g, p1, b2} @@ b3 :> {g, p1, b2, b3}
NodeBlock == DOMAIN NodeAnc
NodeWork == [b \in NodeBlock |-> 1]
NodeTotal == [b \in NodeBlock |-> Cardinality(NodeAnc[b]) - 1]
NodeTxSeq == g :> <<"cg">> @@ p1 :> <<"cp1">> @@ a2 :> <<"ca2", "ta">> @@ a3 :> <<"ca3", "tc">>
             @@ a4 :> <<"ca4">> @@ b2 :> <<"cb2">> @@ b3 :> <<"cb3">>
NodeTx == {"cg", "cp1", "ca2", "ta", "ca3", "tc", "ca4", "cb2", "cb3", "tb", "td"}
NodeTxIn == [t \in NodeTx |-> CASE t \in {"ta", "tb"} -> {"cp1"} [] t = "tc" -> {"ta"}
                                [] t = "td" -> {"tb"} [] OTHER -> {}]
NodeTxOut == [t \in NodeTx |-> {t}]
TheDelivered == NodeBlock \ {g}
TheHolderOf == [o \in NodeTx |-> CASE o = "ta" -> "C" [] o \in {"cp1", "ca3", "cb3"} -> "A" [] OTHER -> "B"]
TheAmountOf == [o \in NodeTx |-> IF o \in {"ta", "tb"} THEN 1 ELSE 2]

\* The miner's pool: p spends a coin of the chain, q spends p.
TheInputs == [p |-> {"c1"}, q |-> {"p"}]
TheOutValue == [p |-> 8, q |-> 7]

\* Three coins of the wallet of seed s1 and one of an imported key.
CoinFor(to, value, coinbase) == [to |-> to, value |-> value, height |-> 1, coinbase |-> coinbase]
TheFirstCoins == {CoinFor(<<"s1", 0>>, 5, FALSE), CoinFor(<<"s1", 0>>, 9, TRUE),
                  CoinFor(<<"s1", 0>>, 3, FALSE), CoinFor(<<"r", 0>>, 7, FALSE)}

\* Batches in which a request fails before, between or after others.
Req(i, shape, outcome) == [id |-> i, shape |-> shape, outcome |-> outcome, code |-> -5]
TheBodies == {Garbage, <<>>,
              <<Req(1, "call", "otherError"), Req(2, "call", "ok")>>,
              <<Req(1, "noMethod", "ok"), Req(2, "call", "rpcError"), Req(2, "call", "typeError")>>,
              <<Req(1, "unknownMethod", "ok")>>,
              <<Req(1, "call", "ok"), Req(2, "call", "notJson")>>}

Init ==
    /\ part \in {"store", "indexes", "control", "work", "keys", "pay", "rpc"}
    /\ MinerInit /\ WalletInit /\ RpcInit /\ StoreInit /\ IndexInit
    /\ (part # "store" => genesisBody /\ mode = "fast")
    /\ (part \notin {"control", "work"} => wallet = "x")
    /\ (part \notin {"keys", "pay"} => pass = "p")

Storing  == part = "store" /\ StoreNext /\ UNCHANGED <<part, minerVars, walletVars, rpcVars, indexVars>>
Indexing == part = "indexes" /\ IndexNext /\ UNCHANGED <<part, minerVars, walletVars, rpcVars, storeVars>>
Serving  == part = "rpc" /\ RpcNext /\ UNCHANGED <<part, minerVars, walletVars, storeVars, indexVars>>

Mining ==
    /\ \/ part \in {"control", "work"} /\ (SetGenerateOn \/ LoopNext)
       \/ part = "control" /\ ControlNext
       \/ part = "work" /\ WorkNext
    /\ UNCHANGED <<part, walletVars, rpcVars, storeVars, indexVars>>

Paying ==
    /\ \/ part = "keys" /\ (KeyNext \/ CrashInSave)
       \/ /\ part = "pay"
          /\ \/ PayNext \/ create_wallet("s1") \/ wallet_lock
             \/ \E k \in {<<"r", 0>>, <<"s1", 0>>} : activate_wallet(k)
    /\ UNCHANGED <<part, minerVars, rpcVars, storeVars, indexVars>>

Next == Storing \/ Indexing \/ Serving \/ Mining \/ Paying

\* A mine loop exists in the miner's parts only, so nothing else is constrained.
Spec == Init /\ [][Next]_vars /\ MinerFairness
=============================================================================
