------------------------------- MODULE MCPool --------------------------------
(***************************************************************************)
(* A mempool over two branches above a common block p1, whose coinbase has *)
(* the outputs o1 and o2:                                                  *)
(*                                                                         *)
(*        +-- m2 (R) --- x3 (R)     A, R spend o1, R replaces A            *)
(*   g - p1                         B, C spend the outputs of A            *)
(*        +-- n2 ------- n3 (A)     D spends o2, E spends the output of D  *)
(*                                  S spends o1 and an output of A: it     *)
(* x3 repeats a txid of its         would replace its own parent           *)
(* own branch.                      H spends o2 and fits in no small pool  *)
(*                                  Q spends the output of R and pays no   *)
(*                                  fee                                    *)
(***************************************************************************)
EXTENDS Integers, FiniteSets, TLC

TheBlock == {"g", "p1", "m2", "x3", "n2", "n3"}

TheParent == "p1" :> "g" @@ "m2" :> "p1" @@ "x3" :> "m2" @@ "n2" :> "p1" @@ "n3" :> "n2"

TheAnc ==
    "g" :> {"g"} @@ "p1" :> {"g", "p1"} @@ "m2" :> {"g", "p1", "m2"}
    @@ "x3" :> {"g", "p1", "m2", "x3"} @@ "n2" :> {"g", "p1", "n2"}
    @@ "n3" :> {"g", "p1", "n2", "n3"}

TheTxSeq ==
    "g" :> <<"cg">> @@ "p1" :> <<"cp1">> @@ "m2" :> <<"cm2", "R">>
    @@ "x3" :> <<"cx3", "R">> @@ "n2" :> <<"cn2">> @@ "n3" :> <<"cn3", "A">>

Coinbases == {"cg", "cp1", "cm2", "cx3", "cn2", "cn3"}

TheTx == Coinbases \cup {"A", "B", "C", "D", "E", "H", "Q", "R", "S"}

TheTxIn ==
    [t \in TheTx |-> CASE t \in {"A", "R"} -> {"o1"}
                       [] t = "B" -> {"a1"}
                       [] t = "C" -> {"a2"}
                       [] t = "D" -> {"o2"}
                       [] t = "E" -> {"d1"}
                       [] t = "H" -> {"o2"}
                       [] t = "Q" -> {"R"}
                       [] t = "S" -> {"o1", "a1"}
                       [] OTHER -> {}]

TheTxOut ==
    [t \in TheTx |-> CASE t = "cp1" -> {"o1", "o2"}
                       [] t = "A" -> {"a1", "a2"}
                       [] t = "D" -> {"d1"}
                       [] OTHER -> {t}]

TheOutpoint == UNION {TheTxOut[t] \cup TheTxIn[t] : t \in TheTx}

UnitWork == [b \in TheBlock |-> 1]

UnitTotal == [b \in TheBlock |-> Cardinality(TheAnc[b]) - 1]

\* D pays less than the relay fee and needs E to be admitted with it.
TheFee ==
    [t \in TheTx |-> CASE t = "A" -> 4 [] t = "B" -> 3 [] t = "C" -> 2
                       [] t = "D" -> 1 [] t = "E" -> 2 [] t = "R" -> 9
                       [] t = "S" -> 20 [] t = "H" -> 32
                       [] OTHER -> 0]

TheVSize == 
    [t \in TheTx |-> CASE t \in {"A", "D", "R"} -> 2 [] t = "H" -> 8 [] OTHER -> 1]

TheIdOrder ==
    "A" :> 1 @@ "B" :> 2 @@ "C" :> 3 @@ "D" :> 4 @@ "E" :> 5 @@ "R" :> 6 @@ "S" :> 7
    @@ "H" :> 14 @@ "Q" :> 15
    @@ "cg" :> 8 @@ "cp1" :> 9 @@ "cm2" :> 10 @@ "cx3" :> 11 @@ "cn2" :> 12 @@ "cn3" :> 13

\* A version gate refuses C above n2.
TheUnfit == [b \in TheBlock |-> Coinbases \cup (IF b = "n2" THEN {"C"} ELSE {})]
=============================================================================
