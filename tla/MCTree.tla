------------------------------- MODULE MCTree --------------------------------
(***************************************************************************)
(* A block tree with two competing branches above a common block:          *)
(*                                                                         *)
(*        +-- a2 -+- a3         a2 and b2 spend the coinbase of p1         *)
(*   g - p1       +- x3         x3 carries b2's transaction: a double      *)
(*        +-- b2 --- b3 --- b4  spend on its own branch and a txid that    *)
(*                              two blocks share                           *)
(*                                                                         *)
(* b4 spends an output that only a2 creates: side-branch validation        *)
(* resolves it, full validation does not.                                  *)
(***************************************************************************)
EXTENDS Integers, Sequences, FiniteSets, TLC

CONSTANTS g, p1, a2, a3, x3, b2, b3, b4

TheParent ==
    p1 :> g @@ a2 :> p1 @@ a3 :> a2 @@ x3 :> a2 @@ b2 :> p1 @@ b3 :> b2 @@ b4 :> b3

TheAnc ==
    g :> {g} @@ p1 :> {g, p1} @@ a2 :> {g, p1, a2} @@ a3 :> {g, p1, a2, a3}
    @@ x3 :> {g, p1, a2, x3} @@ b2 :> {g, p1, b2} @@ b3 :> {g, p1, b2, b3}
    @@ b4 :> {g, p1, b2, b3, b4}

TheTxSeq ==
    g :> <<"cg">> @@ p1 :> <<"cp1">> @@ a2 :> <<"ca2", "ta">> @@ a3 :> <<"ca3">>
    @@ x3 :> <<"cx3", "tb">> @@ b2 :> <<"cb2", "tb">> @@ b3 :> <<"cb3", "tc">>
    @@ b4 :> <<"cb4", "td">>


TheBlock == DOMAIN TheAnc

TheTx == UNION {{TheTxSeq[b][i] : i \in 1..Len(TheTxSeq[b])} : b \in TheBlock}

TheTxIn ==
    [t \in TheTx |-> CASE t \in {"ta", "tb"} -> {"cp1"}
                       [] t = "tc" -> {"tb"}
                       [] t = "td" -> {"ta"}
                       [] OTHER -> {}]

\* A transaction has one output, named after it.
TheTxOut == [t \in TheTx |-> {t}]

\* Equal difficulty on every branch.
UnitWork == [b \in TheBlock |-> 1]
UnitTotal == [b \in TheBlock |-> Cardinality(TheAnc[b]) - 1]
=============================================================================
