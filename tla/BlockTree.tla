------------------------------ MODULE BlockTree ------------------------------
(***************************************************************************)
(* The immutable data every chain component works on: the tree of blocks   *)
(* that peers may deliver, the transactions in them and the outpoints      *)
(* those spend and create.  Blocks and transactions are named by their     *)
(* hash in the code, so a block's parent and contents never change: they   *)
(* are constants here.  Nothing in this module is state.                   *)
(***************************************************************************)
EXTENDS Integers, Sequences, FiniteSets

CONSTANTS
    Block,      \* block hashes
    Genesis,    \* the height-0 block imported by ChainState.initialize
    Parent,     \* header.prev_block_hash
    Anc,        \* Anc[b]: b and every block reached by following Parent
    Work,       \* ChainWork.calculate_block_work of the header
    TotalWork,  \* the sum of Work over the branch of a block, genesis excluded
    Tx,         \* transaction ids, coinbases included
    Outpoint,   \* txid:index pairs
    TxSeq,      \* block.transactions, the coinbase first
    TxIn,       \* outpoints a transaction spends ({} for a coinbase)
    TxOut,      \* spendable outpoints a transaction creates
    RuleBad,    \* blocks ConsensusRules.validate_block refuses for a reason
                \* other than unresolved inputs
    TipBad      \* blocks BlockValidator refuses on their branch for a reason
                \* other than their inputs (header, size, merkle root, maturity,
                \* subsidy, sigops, timestamps)

NonGenesis == Block \ {Genesis}

BlockTxs(b) == {TxSeq[b][i] : i \in 1..Len(TxSeq[b])}

Ins(b) == UNION {TxIn[t] : t \in BlockTxs(b)}

Outs(b) == UNION {TxOut[t] : t \in BlockTxs(b)}

\* Hashing makes the graph of blocks a tree rooted at Genesis: walking
\* prev_block_hash from b visits Anc[b].
ASSUME TreeAssumption ==
    /\ Genesis \in Block
    /\ Parent \in [NonGenesis -> Block]
    /\ Anc \in [Block -> SUBSET Block]
    /\ Anc[Genesis] = {Genesis}
    /\ \A b \in NonGenesis : Anc[b] = {b} \cup Anc[Parent[b]]
    /\ \A b \in NonGenesis : b \notin Anc[Parent[b]]
    /\ \A b \in Block : Genesis \in Anc[b]
    /\ \A b \in Block : \A a \in Anc[b] : Anc[a] \subseteq Anc[b]
    /\ \A b \in Block : \A a \in Anc[b] :
          a # b => \E c \in Anc[b] \ {Genesis} : Parent[c] = a

\* Work adds up along a branch, starting from the genesis row, which
\* write_block stores with chainwork "0".
ASSUME WorkAssumption ==
    /\ Work \in [Block -> Nat \ {0}]
    /\ TotalWork \in [Block -> Nat]
    /\ TotalWork[Genesis] = 0
    /\ \A b \in NonGenesis : TotalWork[b] = TotalWork[Parent[b]] + Work[b]

\* An outpoint names the one transaction that creates it.
ASSUME DataAssumption ==
    /\ TxSeq \in [Block -> Seq(Tx)]
    /\ TxIn \in [Tx -> SUBSET Outpoint]
    /\ TxOut \in [Tx -> SUBSET Outpoint]
    /\ \A t, u \in Tx : t # u => TxOut[t] \cap TxOut[u] = {}
    /\ RuleBad \subseteq Block
    /\ TipBad \subseteq Block

-----------------------------------------------------------------------------
(* What a set of connected blocks leaves in the utxo table.  The genesis   *)
(* block is only written to storage, never connected, so its outputs do    *)
(* not count.                                                              *)

Created(S) == UNION {Outs(b) : b \in S \ {Genesis}}

Spent(S) == UNION {Ins(b) : b \in S \ {Genesis}}

UtxoOf(b) == Created(Anc[b]) \ Spent(Anc[b])

\* No outpoint is spent, and no txid listed, twice inside one block
\* (validate_transactions' block_spent and txids sets).
DupFree(b) ==
    \A i, j \in 1..Len(TxSeq[b]) :
        i # j => /\ TxSeq[b][i] # TxSeq[b][j]
                 /\ TxIn[TxSeq[b][i]] \cap TxIn[TxSeq[b][j]] = {}

\* BlockValidator.validate_block on top of the rows in the utxo table u:
\* every input of the block must be a row already, so a transaction cannot
\* spend an output of the same block.
StatefulOK(b, u) ==
    /\ b \notin TipBad
    /\ DupFree(b)
    /\ Ins(b) \subseteq u

\* Every block of the branch ending in b passes full validation in its
\* place.
ValidBranch(b) ==
    \A a \in Anc[b] \ {Genesis} : StatefulOK(a, UtxoOf(Parent[a]))

\* ReorgManager._find_common_ancestor
ForkPoint(a, b) ==
    CHOOSE f \in Anc[a] \cap Anc[b] : Anc[f] = Anc[a] \cap Anc[b]

-----------------------------------------------------------------------------
(* The transactions table, whose primary keys are rows.                    *)

\* INSERT INTO transactions keeps every txid once.
StoreOK(b, rows) ==
    /\ BlockTxs(b) \cap rows = {}
    /\ \A i, j \in 1..Len(TxSeq[b]) : i # j => TxSeq[b][i] # TxSeq[b][j]

\* The rows inserted before the first collision.  They stay: the write runs
\* inside a transaction that write_block did not begin.
StoredPrefix(b, rows) ==
    {TxSeq[b][k] : k \in {k \in 1..Len(TxSeq[b]) :
        \A i \in 1..k : /\ TxSeq[b][i] \notin rows
                        /\ \A j \in 1..(i-1) : TxSeq[b][j] # TxSeq[b][i]}}

\* ConsensusRules.validate_block, the only check of a side-branch block:
\* get_total_fees resolves inputs in the outputs table, whichever branch put
\* them there, or among the earlier transactions of the block.
SideOK(b, rows) ==
    /\ b \notin RuleBad
    /\ \A i \in 1..Len(TxSeq[b]) : \A o \in TxIn[TxSeq[b][i]] :
          \/ \E t \in rows : o \in TxOut[t]
          \/ \E j \in 2..(i-1) : o \in TxOut[TxSeq[b][j]]
=============================================================================
