----------------------------- MODULE ForkChoice ------------------------------
(***************************************************************************)
(* What the acceptance pipeline promises to the rest of the node: a tip    *)
(* and the ledger that goes with it, which change together and only from   *)
(* a fully valid branch to a fully valid branch with more work.            *)
(***************************************************************************)
EXTENDS BlockTree

VARIABLES tip, ledger

choiceVars == <<tip, ledger>>

ChoiceInit == tip = Genesis /\ ledger = {}

\* Extend the tip or reorganise to another branch.
Adopt(b) ==
    /\ ValidBranch(b)
    /\ TotalWork[b] > TotalWork[tip]
    /\ tip' = b
    /\ ledger' = UtxoOf(b)

\* The process starts over from an empty database.
StartOver == tip' = Genesis /\ ledger' = {}

ChoiceNext == StartOver \/ \E b \in NonGenesis : Adopt(b)

ChoiceSpec == ChoiceInit /\ [][ChoiceNext]_choiceVars
=============================================================================
