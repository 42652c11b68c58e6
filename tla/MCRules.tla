------------------------------ MODULE MCRules -------------------------------
(***************************************************************************)
(* The rules a block and its transactions are held to: the two script      *)
(* engines fed with the same bytes, the verification of a spend, and the   *)
(* difficulty and soft-fork rules on a growing tree of headers.            *)
(***************************************************************************)
EXTENDS ScriptVM, Spending, Retarget

VARIABLE part

vars == <<part, scriptVars, spendVars, retargetVars>>

\* Script bytes by what they exercise, and the length of the scripts.
Alphabet ==
    [control |-> {0, 81, 99, 100, 103, 104, 105, 117},
     pushes  |-> {0, 1, 2, 76, 77, 81, 82, 99, 103, 104},
     stack   |-> {0, 81, 97} \cup (106..125) \cup {130, 135, 136, 168},
     sigs    |-> {0, 79, 80, 81, 98, 105, 117, 145, 146, 147, 148, 154, 155, 156, 157, 171, 172,
                  173, 174, 175, 176, 177, 178, 186, 255}]
Longest == [control |-> 8, pushes |-> 6, stack |-> 4, sigs |-> 4]
TheFlagSets == {{"MINIMALIF", "CLEANSTACK", "NULLFAIL", "NULLDUMMY", "DISCOURAGE_NOPS", "CLTV", "CSV"},
                {"CLTV"}}
TheInitialStacks == {<<>>, << <<1>>, <<>>, <<1>> >>}
TheValidSigs == {<< <<1>>, <<1>> >>, << <<1>>, <<2>> >>}

\* One owner with a compressed and an uncompressed form of her key, and another.
KeyA == [id |-> 1, compressed |-> TRUE]
KeyB == [id |-> 2, compressed |-> TRUE]
KeyU == [id |-> 1, compressed |-> FALSE]
TheKeys == {KeyA, KeyB, KeyU}
LeafOf(k) == [kind |-> "leaf", key |-> k]
TheLeaves == {LeafOf(KeyA), LeafOf(KeyB)}
\* A tree of three leaves: the owner's is two branches below the root.
Sibling == [other |-> 1]
Uncle == [other |-> 2]
TapOutput == [kind |-> "p2tr", parity |-> 0,
              key |-> Tweak(KeyA, TapBranch(Uncle, TapBranch(TapLeaf(LeafOf(KeyA)), Sibling)))]
Pkh(k) == [kind |-> "p2pkh", hash |-> Hash160(k)]
Wpkh(k) == [kind |-> "p2wpkh", hash |-> Hash160(k)]
Single(k) == [kind |-> "checksig", key |-> k]
ShOf(script) == [kind |-> "p2sh", hash |-> Hash160(script)]
TheOutputs == {Pkh(KeyA), Pkh(KeyU), Wpkh(KeyA), TapOutput, ShOf(Wpkh(KeyA)), ShOf(Single(KeyA)),
               ShOf(TapOutput)}
TheRedeemScripts == {Wpkh(KeyA), Wpkh(KeyB), Single(KeyA), Single(KeyB), TapOutput}
Control(path, parity) == [internal |-> KeyA, path |-> path, parity |-> parity, version |-> 192]
TheControlBlocks == {Control(<<Sibling, Uncle>>, 0), Control(<<Sibling>>, 0), Control(<<>>, 0),
                     Control(<<Sibling, Uncle>>, 1)}
In(prev, seq) == [prev |-> prev, seq |-> seq]
Spends(ins, outs, lock) == [ins |-> ins, outs |-> outs, lock |-> lock]
TheTransactions ==
    {Spends(<<In("o", 0)>>, <<"x">>, 0),
     Spends(<<In("o", 0), In("p", 1)>>, <<"x", "y">>, 0),
     Spends(<<In("o", 0), In("q", 0)>>, <<"x", "z">>, 0),
     Spends(<<In("p", 0), In("o", 0)>>, <<"x", "y">>, 0),
     Spends(<<In("p", 0), In("o", 0)>>, <<"y">>, 1),
     Spends(<<In("p", 1), In("o", 0)>>, <<"y", "y">>, 0)}
TheSighashTypes == [base : {"ALL", "NONE", "SINGLE", "DEFAULT"}, acp : BOOLEAN]

Init ==
    /\ part \in DOMAIN Longest \cup {"spend", "retarget"}
    /\ ScriptInit /\ SpendInit /\ RetargetInit
    /\ (part # "spend" => output = TapOutput)
    /\ (part \notin DOMAIN Longest => flags = {"CLTV"} /\ tap.stack = <<>>)

Interpreting ==
    /\ part \in DOMAIN Longest /\ fed < Longest[part]
    /\ ScriptNext(Alphabet[part])
    /\ UNCHANGED <<part, spendVars, retargetVars>>

SpendingCoins == part = "spend" /\ SpendNext /\ UNCHANGED <<part, scriptVars, retargetVars>>
Retargeting == part = "retarget" /\ RetargetNext /\ UNCHANGED <<part, scriptVars, spendVars>>

Next == Interpreting \/ SpendingCoins \/ Retargeting

Spec == Init /\ [][Next]_vars
=============================================================================
