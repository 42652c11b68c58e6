-------------------------- MODULE BlockTreeProofs ----------------------------
(***************************************************************************)
(* Facts about branches, and the ledger a branch leaves, for every block   *)
(* tree.  The proofs about ChainState and NodeStore rest on them.          *)
(***************************************************************************)
EXTENDS BlockTree, TLAPS

-----------------------------------------------------------------------------
(* The block tree.                                                         *)

\* A block is on its own branch, and so is the branch of its parent.
LEMMA BranchStep ==
    ASSUME NEW b \in NonGenesis
    PROVE  /\ Parent[b] \in Block
           /\ b \in Block
           /\ b # Genesis
           /\ Anc[b] = {b} \cup Anc[Parent[b]]
           /\ b \notin Anc[Parent[b]]
           /\ Anc[Parent[b]] \subseteq Block
  BY TreeAssumption DEF TreeAssumption, NonGenesis

\* Genesis is on every branch, and each block on its own.
LEMMA OnOwnBranch ==
    ASSUME NEW b \in Block
    PROVE  b \in Anc[b] /\ Anc[b] \subseteq Block
<1>1. CASE b = Genesis
  BY <1>1, TreeAssumption DEF TreeAssumption
<1>2. CASE b \in NonGenesis
  BY <1>2, BranchStep
<1>. QED BY <1>1, <1>2 DEF NonGenesis

\* Each block above genesis on a branch has its parent on the branch too.
LEMMA BranchClosed ==
    ASSUME NEW b \in Block, NEW a \in Anc[b] \ {Genesis}
    PROVE  /\ a \in NonGenesis
           /\ Parent[a] \in Anc[b]
           /\ Anc[Parent[a]] \subseteq Anc[b]
<1>1. a \in NonGenesis
  BY OnOwnBranch DEF NonGenesis
<1>2. Anc[a] \subseteq Anc[b]
  BY TreeAssumption DEF TreeAssumption
<1>3. Parent[a] \in Anc[a] /\ Anc[Parent[a]] \subseteq Anc[a]
  BY <1>1, BranchStep, OnOwnBranch
<1>. QED BY <1>1, <1>2, <1>3

-----------------------------------------------------------------------------
(* The ledger of a branch.                                                 *)

\* On a valid branch every outpoint that is spent was created there.
LEMMA SpentWasCreated ==
    ASSUME NEW b \in Block, ValidBranch(b)
    PROVE  Spent(Anc[b]) \subseteq Created(Anc[b])
<1>. SUFFICES ASSUME NEW a \in Anc[b] \ {Genesis}
     PROVE  Ins(a) \subseteq Created(Anc[b])
  BY DEF Spent
<1>1. Ins(a) \subseteq UtxoOf(Parent[a])
  BY DEF ValidBranch, StatefulOK
<1>2. Anc[Parent[a]] \subseteq Anc[b]
  BY BranchClosed
<1>3. Created(Anc[Parent[a]]) \subseteq Created(Anc[b])
  BY <1>2 DEF Created
<1>. QED BY <1>1, <1>3 DEF UtxoOf

\* Adding a block to a branch adds its outputs and its inputs.
LEMMA CreatedSpentStep ==
    ASSUME NEW c \in NonGenesis
    PROVE  /\ Created(Anc[c]) = Created(Anc[Parent[c]]) \cup Outs(c)
           /\ Spent(Anc[c]) = Spent(Anc[Parent[c]]) \cup Ins(c)
<1>1. Anc[c] \ {Genesis} = (Anc[Parent[c]] \ {Genesis}) \cup {c}
  BY BranchStep
<1>. QED BY <1>1 DEF Created, Spent

\* A valid block takes the ledger of its parent to its own, provided its
\* outputs are new on the branch.
LEMMA LedgerExtends ==
    ASSUME NEW c \in NonGenesis,
           ValidBranch(Parent[c]),
           StatefulOK(c, UtxoOf(Parent[c])),
           Outs(c) \cap Created(Anc[Parent[c]]) = {}
    PROVE  /\ (UtxoOf(Parent[c]) \ Ins(c)) \cup Outs(c) = UtxoOf(c)
           /\ (UtxoOf(c) \cup Ins(c)) \ Outs(c) = UtxoOf(Parent[c])
           /\ ValidBranch(c)
<1>1. Spent(Anc[Parent[c]]) \subseteq Created(Anc[Parent[c]])
  BY BranchStep, SpentWasCreated
<1>2. Ins(c) \subseteq Created(Anc[Parent[c]]) \ Spent(Anc[Parent[c]])
  BY DEF StatefulOK, UtxoOf
<1>3. (UtxoOf(Parent[c]) \ Ins(c)) \cup Outs(c) = UtxoOf(c)
  BY <1>1, <1>2, CreatedSpentStep DEF UtxoOf
<1>4. (UtxoOf(c) \cup Ins(c)) \ Outs(c) = UtxoOf(Parent[c])
  BY <1>1, <1>2, CreatedSpentStep DEF UtxoOf
<1>5. ValidBranch(c)
  BY BranchStep DEF ValidBranch
<1>. QED BY <1>3, <1>4, <1>5

\* A valid branch is valid at every block of it.
LEMMA PrefixValid ==
    ASSUME NEW c \in NonGenesis, ValidBranch(c)
    PROVE  ValidBranch(Parent[c]) /\ StatefulOK(c, UtxoOf(Parent[c]))
  BY BranchStep DEF ValidBranch

\* The transactions of a block, its inputs and its outputs are what the tables
\* hold.
LEMMA BlockData ==
    ASSUME NEW b \in Block
    PROVE  /\ BlockTxs(b) \subseteq Tx
           /\ Ins(b) \subseteq Outpoint
           /\ Outs(b) \subseteq Outpoint
<1>1. BlockTxs(b) \subseteq Tx
  BY DataAssumption DEF DataAssumption, BlockTxs
<1>. QED BY <1>1, DataAssumption DEF DataAssumption, Ins, Outs

\* Blocks without a common transaction create different outpoints.
LEMMA OutsDisjoint ==
    ASSUME NEW a \in Block, NEW b \in Block,
           BlockTxs(a) \cap BlockTxs(b) = {}
    PROVE  Outs(a) \cap Outs(b) = {}
<1>1. BlockTxs(a) \subseteq Tx /\ BlockTxs(b) \subseteq Tx
  BY DataAssumption DEF DataAssumption, BlockTxs
<1>2. \A t \in BlockTxs(a), u \in BlockTxs(b) : TxOut[t] \cap TxOut[u] = {}
  BY <1>1, DataAssumption DEF DataAssumption
<1>. QED BY <1>2 DEF Outs
=============================================================================
