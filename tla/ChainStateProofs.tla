-------------------------- MODULE ChainStateProofs ---------------------------
(***************************************************************************)
(* Proofs about ChainState, for every block tree, every set of handlers    *)
(* and every limit.                                                        *)
(***************************************************************************)
EXTENDS ChainState, BlockTreeProofs, SequenceTheorems, FiniteSetTheorems, WellFoundedInduction

-----------------------------------------------------------------------------
(* The ledger of a branch as connecting and disconnecting keep it.         *)

\* Connecting a valid block takes the ledger of its parent to its own, and
\* disconnecting takes it back, provided its outputs are new on the branch.
LEMMA ConnectDisconnect ==
    ASSUME NEW c \in NonGenesis,
           ValidBranch(Parent[c]),
           StatefulOK(c, UtxoOf(Parent[c])),
           Outs(c) \cap Created(Anc[Parent[c]]) = {}
    PROVE  /\ ConnectUtxo(c, UtxoOf(Parent[c])) = UtxoOf(c)
           /\ DisconnectUtxo(c, UtxoOf(c)) = UtxoOf(Parent[c])
           /\ ValidBranch(c)
  BY LedgerExtends DEF ConnectUtxo, DisconnectUtxo

\* The undo rows of a branch follow connects and disconnects.
LEMMA UndoStep ==
    ASSUME NEW c \in NonGenesis
    PROVE  /\ ConnectUndo(c, BranchUndo(Parent[c])) = BranchUndo(c)
           /\ DisconnectUndo(c, BranchUndo(c)) = BranchUndo(Parent[c])
           /\ CanDisconnect(c, BranchUndo(c))
<1>1. Anc[c] \ {Genesis} = (Anc[Parent[c]] \ {Genesis}) \cup {c}
  BY BranchStep
<1>2. c \notin Anc[Parent[c]]
  BY BranchStep
<1>3. BranchUndo(c) = BranchUndo(Parent[c]) \cup UndoRows(c)
  BY <1>1 DEF BranchUndo
<1>4. \A r \in BranchUndo(Parent[c]) : r[1] # c
  BY <1>2 DEF BranchUndo, UndoRows
<1>5. \A r \in UndoRows(c) : r[1] = c
  BY DEF UndoRows
<1>. QED BY <1>3, <1>4, <1>5 DEF ConnectUndo, DisconnectUndo, CanDisconnect

-----------------------------------------------------------------------------
(* The index: what holds whether or not block data can be read.            *)

\* Every indexed block has its branch indexed and its transactions stored,
\* no two share a transaction, and chainwork adds up.
IndexInv ==
    /\ indexed \subseteq Block
    /\ Genesis \in indexed
    /\ \A b \in indexed : Anc[b] \subseteq indexed
    /\ \A b \in indexed : BlockTxs(b) \subseteq txrows
    /\ \A a, b \in indexed : a # b => BlockTxs(a) \cap BlockTxs(b) = {}
    /\ chainwork \in [Block -> Nat]
    /\ \A b \in indexed : chainwork[b] = TotalWork[b]

\* The tip, the flags and the job of ReorgManager.
TipInv ==
    /\ best \in indexed
    /\ bestwork = TotalWork[best]
    /\ phase \in {"idle", "preflight", "reorg"}
    /\ cand \in indexed
    /\ cur \in indexed
    /\ Idle => /\ cur = best
               /\ ibest = best
               /\ main = Anc[best]
               /\ hidx = Anc[best]
    /\ ~Idle => TotalWork[cand] > TotalWork[best]

\* Storing a block keeps the index in order.
LEMMA AddBlockIndex ==
    ASSUME IndexInv, NEW b \in NonGenesis, b \notin indexed,
           Parent[b] \in indexed, StoreOK(b, txrows), AddBlock(b)
    PROVE  IndexInv' /\ chainwork'[b] = WorkOf(b) /\ WorkOf(b) = TotalWork[b]
<1>1. WorkOf(b) = TotalWork[b] /\ WorkOf(b) \in Nat
  BY WorkAssumption, BranchStep DEF WorkAssumption, WorkOf, IndexInv, NonGenesis
<1>2. chainwork' \in [Block -> Nat] /\ chainwork'[b] = WorkOf(b)
  BY <1>1, BranchStep DEF AddBlock, IndexInv
<1>3. \A a \in indexed' : chainwork'[a] = TotalWork[a]
  BY <1>1, <1>2 DEF AddBlock, IndexInv
<1>4. \A a \in indexed' : Anc[a] \subseteq indexed'
  BY BranchStep DEF AddBlock, IndexInv
<1>5. \A a \in indexed' : BlockTxs(a) \subseteq txrows'
  BY DEF AddBlock, IndexInv
<1>6. \A a \in indexed : BlockTxs(a) \cap BlockTxs(b) = {}
  BY DEF StoreOK, IndexInv
<1>7. \A a, c \in indexed' : a # c => BlockTxs(a) \cap BlockTxs(c) = {}
  BY <1>6 DEF AddBlock, IndexInv
<1>. QED BY <1>1, <1>2, <1>3, <1>4, <1>5, <1>7, BranchStep DEF AddBlock, IndexInv

\* A failed write only adds rows.
LEMMA MoreRowsIndex ==
    ASSUME IndexInv, UNCHANGED indexVars, txrows \subseteq txrows'
    PROVE  IndexInv'
  BY DEF IndexInv, indexVars

\* on_block with an indexed parent keeps the index and the tip in order.
LEMMA ProcessIndex ==
    ASSUME IndexInv, TipInv, Idle,
           NEW p, NEW b \in NonGenesis, NEW q, NEW stk,
           Process(p, b, q, stk)
    PROVE  IndexInv' /\ TipInv'
<1>. USE DEF TipInv, Idle
<1>0. b \notin indexed /\ Parent[b] \in indexed
  BY DEF Process
<1>1. CASE TipInvalid(p, b, q, stk)
  BY <1>1, MoreRowsIndex DEF TipInvalid, indexVars, flagVars, tipVars, reorgVars
<1>2. CASE SideInvalid(p, b, q, stk)
  BY <1>2, MoreRowsIndex DEF SideInvalid, indexVars, flagVars, tipVars, reorgVars
<1>3. CASE StoreFails(p, b, q)
  BY <1>3, MoreRowsIndex DEF StoreFails, indexVars, flagVars, tipVars, reorgVars
<1>4. CASE ConnectTip(p, b, q, stk)
  <2>1. IndexInv' /\ WorkOf(b) = TotalWork[b]
    BY <1>0, <1>4, AddBlockIndex DEF ConnectTip
  <2>2. best' = b /\ cur' = b /\ b \in indexed' /\ cand' = cand /\ phase' = "idle"
    BY <1>4 DEF ConnectTip, AddBlock, reorgVars
  <2>3. indexed \subseteq indexed'
    BY <1>4 DEF ConnectTip, AddBlock
  <2>. QED BY <1>4, <2>1, <2>2, <2>3 DEF ConnectTip, SetBestChainTip
<1>5. CASE StoreFork(p, b, q, stk) \/ TooDeep(p, b, q, stk)
  <2>1. IndexInv' /\ indexed \subseteq indexed'
    BY <1>0, <1>5, AddBlockIndex DEF StoreFork, TooDeep, AddBlock
  <2>. QED BY <1>5, <2>1 DEF StoreFork, TooDeep, flagVars, tipVars, reorgVars
<1>6. CASE StartPreflight(p, b, q, stk)
  <2>1. IndexInv' /\ WorkOf(b) = TotalWork[b]
    BY <1>0, <1>6, AddBlockIndex DEF StartPreflight
  <2>2. indexed \subseteq indexed' /\ b \in indexed'
    BY <1>6 DEF StartPreflight, AddBlock
  <2>3. TotalWork[b] > TotalWork[best]
    BY <1>6, <2>1 DEF StartPreflight, Heavier
  <2>. QED BY <1>6, <2>1, <2>2, <2>3 DEF StartPreflight, flagVars, tipVars
<1>. QED BY <1>1, <1>2, <1>3, <1>4, <1>5, <1>6 DEF Process

\* The walk of ReorgManager stays on indexed blocks.
LEMMA WalkOnIndex ==
    ASSUME IndexInv, TipInv
    PROVE  /\ cur \notin Anc[cand] => cur \in NonGenesis /\ Parent[cur] \in indexed
           /\ \A c \in NonGenesis : NextConnect(c) => c \in indexed
<1>1. Genesis \in Anc[cand] /\ cand \in Block /\ cur \in Block
  BY TreeAssumption DEF TreeAssumption, IndexInv, TipInv
<1>2. cur \notin Anc[cand] => cur \in NonGenesis
  BY <1>1 DEF NonGenesis
<1>3. cur \in NonGenesis => Parent[cur] \in Anc[cur]
  BY BranchStep, OnOwnBranch
<1>. QED BY <1>2, <1>3 DEF IndexInv, TipInv, NextConnect

\* Every step keeps the index and the tip in order.
LEMMA IndexTipStep ==
    ASSUME IndexInv, TipInv, [Next]_vars
    PROVE  IndexInv' /\ TipInv'
<1>1. CASE UNCHANGED vars
  BY <1>1 DEF IndexInv, TipInv, Idle, vars, indexVars, flagVars, tipVars, reorgVars
<1>2. ASSUME NEW p \in Peer, NEW b \in NonGenesis, NEW n \in 0..Len(orphans),
             DeliverBlock(p, b, n)
      PROVE  IndexInv' /\ TipInv'
  BY <1>2, ProcessIndex DEF DeliverBlock
<1>3. ASSUME NEW p \in Peer, NEW b \in NonGenesis, NEW n \in 0..Len(orphans),
             DeliverOrphan(p, b, n)
      PROVE  IndexInv' /\ TipInv'
  BY <1>3 DEF DeliverOrphan, IndexInv, TipInv, Idle, indexVars, flagVars,
              tipVars, reorgVars
<1>4. ASSUME NEW p \in Peer, HandlerStep(p)
      PROVE  IndexInv' /\ TipInv'
  <2>1. ASSUME NEW c \in NonGenesis, NEW n \in 0..Len(RemoveOrphan(orphans, c)),
               RetryOrphan(p, c, n)
        PROVE  IndexInv' /\ TipInv'
    BY <2>1, ProcessIndex DEF RetryOrphan, Pending
  <2>2. ASSUME NEW c \in NonGenesis, RetryKnown(p, c)
        PROVE  IndexInv' /\ TipInv'
    BY <2>2 DEF RetryKnown, IndexInv, TipInv, Idle, indexVars, flagVars,
                tipVars, reorgVars
  <2>3. CASE OrphanLoop(p)
    BY <2>3 DEF OrphanLoop, IndexInv, TipInv, Idle, indexVars, flagVars,
                tipVars, reorgVars
  <2>. QED BY <1>4, <2>1, <2>2, <2>3 DEF HandlerStep
<1>5. CASE DisconnectStep
  <2>1. IndexInv'
    BY <1>5, MoreRowsIndex DEF DisconnectStep
  <2>2. cur' \in indexed
    BY <1>5, WalkOnIndex DEF DisconnectStep
  <2>. QED BY <1>5, <2>1, <2>2
           DEF DisconnectStep, Moving, TipInv, Idle, indexVars, tipVars, reorgVars
<1>6. ASSUME NEW c \in NonGenesis, ConnectStep(c)
      PROVE  IndexInv' /\ TipInv'
  <2>1. IndexInv'
    BY <1>6, MoreRowsIndex DEF ConnectStep
  <2>2. c \in indexed
    BY <1>6, WalkOnIndex DEF ConnectStep
  <2>. QED BY <1>6, <2>1, <2>2
           DEF ConnectStep, Moving, TipInv, Idle, indexVars, tipVars, reorgVars
<1>7. CASE PreflightFails \/ ReorgFails
  <2>1. IndexInv'
    BY <1>7, MoreRowsIndex DEF PreflightFails, ReorgFails
  <2>. QED BY <1>7, <2>1
           DEF PreflightFails, ReorgFails, RollBack, SetBestChainTip, EndJob,
               TipInv, IndexInv, Idle, indexVars, tipVars
<1>8. CASE PreflightPasses
  <2>1. IndexInv'
    BY <1>8, MoreRowsIndex DEF PreflightPasses
  <2>. QED BY <1>8, <2>1
           DEF PreflightPasses, RollBack, SetBestChainTip, TipInv, Idle,
               indexVars, tipVars
<1>9. CASE ReorgSucceeds
  <2>1. IndexInv'
    BY <1>9, MoreRowsIndex DEF ReorgSucceeds
  <2>2. chainwork[cand] = TotalWork[cand]
    BY DEF IndexInv, TipInv
  <2>. QED BY <1>9, <2>1, <2>2
           DEF ReorgSucceeds, SetBestChainTip, EndJob, TipInv, IndexInv, Idle,
               indexVars
<1>10. CASE Restart
  <2>1. IndexInv'
    BY <1>10, TreeAssumption, WorkAssumption
    DEF Restart, IndexInv, TreeAssumption, WorkAssumption
  <2>. QED BY <1>10, <2>1, TreeAssumption, WorkAssumption
           DEF Restart, SetBestChainTip, EndJob, TipInv, Idle, TreeAssumption,
               WorkAssumption
<1>. QED BY <1>1, <1>2, <1>3, <1>4, <1>5, <1>6, <1>7, <1>8, <1>9, <1>10
         DEF Next, ReorgStep

\* An empty data directory starts with an index in order.
LEMMA IndexTipInit == Init => IndexInv /\ TipInv
  BY TreeAssumption, WorkAssumption
  DEF Init, NoJob, IndexInv, TipInv, Idle, TreeAssumption, WorkAssumption

\* Between handlers the MAIN_CHAIN flags, the height index, the index tip and
\* the chain state's own best pointers describe the same branch, whatever
\* failed: BlockIndex.set_best_chain_tip and ReorgManager's restore paths.
THEOREM IndexCorrect == Spec => []IndexMatchesTip
<1>1. IndexInv /\ TipInv => IndexMatchesTip
  BY DEF IndexInv, TipInv, IndexMatchesTip
<1>. QED BY <1>1, IndexTipInit, IndexTipStep, PTL DEF Spec

\* The tip extended by one block gains work.
LEMMA ExtendGainsWork ==
    \A b \in NonGenesis : TotalWork[b] > TotalWork[Parent[b]]
  BY WorkAssumption, TreeAssumption DEF WorkAssumption, TreeAssumption, NonGenesis

\* A step that moves the tip connects a block to it, finishes a
\* reorganisation or restarts the process.
LEMMA TipMoves ==
    ASSUME IndexInv, TipInv, [Next]_vars, best' # best
    PROVE  Restart \/ bestwork' > bestwork
<1>. DEFINE Gains == best' = best \/ bestwork' > bestwork
<1>1. bestwork = TotalWork[best] /\ best \in Block /\ cand \in Block
  BY DEF IndexInv, TipInv
<1>2. ASSUME NEW p, NEW b \in NonGenesis, NEW q, NEW stk, Process(p, b, q, stk)
      PROVE  Gains
  <2>1. CASE ConnectTip(p, b, q, stk)
    <3>1. Parent[b] = best /\ bestwork' = chainwork[best] + Work[b] /\ b \in Block
      BY <2>1 DEF ConnectTip, ExtendsTip, WorkOf, NonGenesis
    <3>2. chainwork[best] = bestwork /\ bestwork \in Nat /\ Work[b] \in Nat \ {0}
      BY <1>1, <3>1, WorkAssumption DEF IndexInv, TipInv, WorkAssumption
    <3>. QED BY <3>1, <3>2
  <2>. QED BY <1>2, <2>1 DEF Process, TipInvalid, SideInvalid, StoreFails, StoreFork,
                            TooDeep, StartPreflight, tipVars
<1>3. CASE ReorgSucceeds
  BY <1>1, <1>3 DEF ReorgSucceeds, TipInv, IndexInv, Idle
<1>4. ASSUME NEW p \in Peer, NEW b \in NonGenesis, NEW n \in 0..Len(orphans),
             DeliverBlock(p, b, n) \/ DeliverOrphan(p, b, n)
      PROVE  Gains
  BY <1>2, <1>4 DEF DeliverBlock, DeliverOrphan, tipVars
<1>5. ASSUME NEW p \in Peer, HandlerStep(p)
      PROVE  Gains
  BY <1>2, <1>5 DEF HandlerStep, RetryOrphan, RetryKnown, OrphanLoop, tipVars
<1>6. CASE ReorgStep
  BY <1>3, <1>6 DEF ReorgStep, DisconnectStep, ConnectStep, PreflightFails,
                    PreflightPasses, ReorgFails, tipVars
<1>. QED BY <1>4, <1>5, <1>6 DEF Next, vars, tipVars

\* The tip moves only to a branch with strictly more work, whether or not
\* block data can be read.
THEOREM TipAlwaysGainsWork == Spec => TipGainsWork
<1>1. IndexInv /\ TipInv /\ [Next]_vars
         => [best' # best => bestwork' > bestwork \/ Restart]_vars
  BY TipMoves
<1>. QED BY <1>1, IndexTipInit, IndexTipStep, PTL DEF Spec, TipGainsWork

-----------------------------------------------------------------------------
(* The ledger, when block data can always be read back.                    *)

\* The tables are those of the block the walk has reached, the savepoint
\* holds those of the tip, and a candidate past its preflight is valid.
LedgerInv ==
    /\ ValidBranch(best)
    /\ ValidBranch(cur)
    /\ utxo = UtxoOf(cur)
    /\ undo = BranchUndo(cur)
    /\ ~Idle => saved.utxo = UtxoOf(best) /\ saved.undo = BranchUndo(best)
    /\ phase = "reorg" => ValidBranch(cand)

\* A stored block creates outpoints that no other stored block creates.
LEMMA FreshOuts ==
    ASSUME IndexInv, NEW c \in NonGenesis, Parent[c] \in indexed,
           \A a \in indexed : a # c => BlockTxs(a) \cap BlockTxs(c) = {}
    PROVE  Outs(c) \cap Created(Anc[Parent[c]]) = {}
<1>1. \A a \in Anc[Parent[c]] : a \in Block /\ a # c /\ a \in indexed
  BY BranchStep DEF IndexInv
<1>2. \A a \in Anc[Parent[c]] : Outs(a) \cap Outs(c) = {}
  BY <1>1, OutsDisjoint, BranchStep
<1>. QED BY <1>2 DEF Created

\* A connect from the tables of the parent gives the tables of the block.
LEMMA ConnectLedger ==
    ASSUME IndexInv, NEW c \in NonGenesis, Parent[c] \in indexed,
           \A a \in indexed : a # c => BlockTxs(a) \cap BlockTxs(c) = {},
           ValidBranch(Parent[c]), StatefulOK(c, UtxoOf(Parent[c]))
    PROVE  /\ ConnectUtxo(c, UtxoOf(Parent[c])) = UtxoOf(c)
           /\ ConnectUndo(c, BranchUndo(Parent[c])) = BranchUndo(c)
           /\ ValidBranch(c)
  BY FreshOuts, ConnectDisconnect, UndoStep

\* A disconnect gives the tables of the parent.
LEMMA DisconnectLedger ==
    ASSUME IndexInv, NEW c \in NonGenesis, c \in indexed, ValidBranch(c)
    PROVE  /\ DisconnectUtxo(c, UtxoOf(c)) = UtxoOf(Parent[c])
           /\ DisconnectUndo(c, BranchUndo(c)) = BranchUndo(Parent[c])
           /\ ValidBranch(Parent[c])
<1>1. Parent[c] \in indexed
  BY BranchStep, OnOwnBranch DEF IndexInv
<1>2. \A a \in indexed : a # c => BlockTxs(a) \cap BlockTxs(c) = {}
  BY DEF IndexInv
<1>3. ValidBranch(Parent[c]) /\ StatefulOK(c, UtxoOf(Parent[c]))
  BY PrefixValid
<1>. QED BY <1>1, <1>2, <1>3, FreshOuts, ConnectDisconnect, UndoStep

\* Past the preflight, every step of reorganize can be made.
LEMMA NoStepFails ==
    ASSUME ~ReadsMayFail, IndexInv, TipInv, LedgerInv, phase = "reorg"
    PROVE  ~StepFails
<1>1. cur \notin Anc[cand] => CanDisconnect(cur, undo)
  BY WalkOnIndex, UndoStep DEF LedgerInv
<1>2. ASSUME NEW c \in NonGenesis, NextConnect(c)
      PROVE  StatefulOK(c, utxo)
  BY <1>2 DEF LedgerInv, NextConnect, ValidBranch
<1>. QED BY <1>1, <1>2 DEF StepFails

\* on_block with an indexed parent keeps the ledger in order.
LEMMA ProcessLedger ==
    ASSUME IndexInv, TipInv, LedgerInv, Idle,
           NEW p, NEW b \in NonGenesis, NEW q, NEW stk,
           Process(p, b, q, stk)
    PROVE  LedgerInv'
<1>. USE DEF Idle, LedgerInv
<1>0. b \notin indexed /\ Parent[b] \in indexed /\ cur = best
  BY DEF Process, TipInv
<1>1. CASE TipInvalid(p, b, q, stk) \/ SideInvalid(p, b, q, stk) \/ StoreFails(p, b, q)
           \/ StoreFork(p, b, q, stk) \/ TooDeep(p, b, q, stk)
  BY <1>1 DEF TipInvalid, SideInvalid, StoreFails, StoreFork, TooDeep, tipVars, reorgVars
<1>2. CASE ConnectTip(p, b, q, stk)
  <2>1. \A a \in indexed : a # b => BlockTxs(a) \cap BlockTxs(b) = {}
    BY <1>2 DEF ConnectTip, StoreOK, IndexInv
  <2>2. Parent[b] = cur /\ StatefulOK(b, UtxoOf(Parent[b]))
    BY <1>0, <1>2 DEF ConnectTip, ExtendsTip
  <2>3. /\ ConnectUtxo(b, utxo) = UtxoOf(b)
        /\ ConnectUndo(b, undo) = BranchUndo(b)
        /\ ValidBranch(b)
    BY <1>0, <2>1, <2>2, ConnectLedger
  <2>. QED BY <1>2, <2>3 DEF ConnectTip, reorgVars
<1>3. CASE StartPreflight(p, b, q, stk)
  BY <1>0, <1>3 DEF StartPreflight, tipVars
<1>. QED BY <1>1, <1>2, <1>3 DEF Process

\* Every step keeps the ledger in order.
LEMMA LedgerStep ==
    ASSUME ~ReadsMayFail, IndexInv, TipInv, LedgerInv, [Next]_vars
    PROVE  LedgerInv'
<1>1. CASE UNCHANGED vars
  BY <1>1 DEF LedgerInv, Idle, vars, tipVars, reorgVars
<1>2. ASSUME NEW p \in Peer, NEW b \in NonGenesis, NEW n \in 0..Len(orphans),
             DeliverBlock(p, b, n)
      PROVE  LedgerInv'
  BY <1>2, ProcessLedger DEF DeliverBlock
<1>3. ASSUME NEW p \in Peer, NEW b \in NonGenesis, NEW n \in 0..Len(orphans),
             DeliverOrphan(p, b, n)
      PROVE  LedgerInv'
  BY <1>3 DEF DeliverOrphan, LedgerInv, Idle, tipVars, reorgVars
<1>4. ASSUME NEW p \in Peer, HandlerStep(p)
      PROVE  LedgerInv'
  <2>1. ASSUME NEW c \in NonGenesis, NEW n \in 0..Len(RemoveOrphan(orphans, c)),
               RetryOrphan(p, c, n)
        PROVE  LedgerInv'
    BY <2>1, ProcessLedger DEF RetryOrphan, Pending
  <2>2. ASSUME NEW c \in NonGenesis, RetryKnown(p, c)
        PROVE  LedgerInv'
    BY <2>2 DEF RetryKnown, LedgerInv, Idle, tipVars, reorgVars
  <2>3. CASE OrphanLoop(p)
    BY <2>3 DEF OrphanLoop, LedgerInv, Idle, tipVars, reorgVars
  <2>. QED BY <1>4, <2>1, <2>2, <2>3 DEF HandlerStep
<1>5. CASE DisconnectStep
  <2>1. cur \in NonGenesis /\ cur \in indexed
    BY <1>5, WalkOnIndex DEF DisconnectStep, TipInv
  <2>2. /\ DisconnectUtxo(cur, utxo) = UtxoOf(Parent[cur])
        /\ DisconnectUndo(cur, undo) = BranchUndo(Parent[cur])
        /\ ValidBranch(Parent[cur])
    BY <2>1, DisconnectLedger DEF LedgerInv
  <2>. QED BY <1>5, <2>2 DEF DisconnectStep, Moving, LedgerInv, Idle, tipVars, reorgVars
<1>6. ASSUME NEW c \in NonGenesis, ConnectStep(c)
      PROVE  LedgerInv'
  <2>1. c \in indexed /\ Parent[c] = cur /\ cur \in indexed
    BY <1>6, WalkOnIndex DEF ConnectStep, NextConnect, TipInv
  <2>2. \A a \in indexed : a # c => BlockTxs(a) \cap BlockTxs(c) = {}
    BY <2>1 DEF IndexInv
  <2>3. ValidBranch(Parent[c]) /\ StatefulOK(c, UtxoOf(Parent[c]))
    BY <1>6, <2>1 DEF ConnectStep, LedgerInv
  <2>4. /\ ConnectUtxo(c, utxo) = UtxoOf(c)
        /\ ConnectUndo(c, undo) = BranchUndo(c)
        /\ ValidBranch(c)
    BY <2>1, <2>2, <2>3, ConnectLedger DEF LedgerInv
  <2>. QED BY <1>6, <2>4 DEF ConnectStep, Moving, LedgerInv, Idle, tipVars, reorgVars
<1>7. CASE PreflightFails
  BY <1>7 DEF PreflightFails, RollBack, EndJob, LedgerInv, Idle, tipVars
<1>8. CASE PreflightPasses
  BY <1>8 DEF PreflightPasses, RollBack, LedgerInv, Idle, tipVars
<1>9. CASE ReorgFails
  BY <1>9, NoStepFails DEF ReorgFails
<1>10. CASE ReorgSucceeds
  BY <1>10 DEF ReorgSucceeds, EndJob, LedgerInv, Idle
<1>11. CASE Restart
  <2>1. ValidBranch(Genesis) /\ UtxoOf(Genesis) = {} /\ BranchUndo(Genesis) = {}
    BY TreeAssumption
    DEF TreeAssumption, ValidBranch, UtxoOf, Created, Spent, BranchUndo
  <2>. QED BY <1>11, <2>1 DEF Restart, EndJob, LedgerInv, Idle
<1>. QED BY <1>1, <1>2, <1>3, <1>4, <1>5, <1>6, <1>7, <1>8, <1>9, <1>10, <1>11
         DEF Next, ReorgStep

\* An empty data directory starts with an empty ledger in order.
LEMMA LedgerInit == Init => LedgerInv
<1>1. ValidBranch(Genesis) /\ UtxoOf(Genesis) = {} /\ BranchUndo(Genesis) = {}
  BY TreeAssumption
  DEF TreeAssumption, ValidBranch, UtxoOf, Created, Spent, BranchUndo
<1>. QED BY <1>1 DEF Init, NoJob, LedgerInv, Idle

\* The three inductive invariants hold throughout every run of the node
\* whose block data can be read.
LEMMA LedgerAlways ==
    ASSUME ~ReadsMayFail
    PROVE  Spec => [](IndexInv /\ TipInv /\ LedgerInv)
  BY IndexTipInit, IndexTipStep, LedgerInit, LedgerStep, PTL DEF Spec

\* With readable block data, after any sequence of connects, preflights,
\* rollbacks and reorganisations by any number of handlers, the utxo table is
\* what the active branch leaves unspent (ConnectBlock, DisconnectBlock,
\* ReorgManager).
THEOREM LedgerCorrect ==
    ASSUME ~ReadsMayFail
    PROVE  Spec => []UtxoMatchesActiveChain
<1>1. TipInv /\ LedgerInv => UtxoMatchesActiveChain
  BY DEF TipInv, LedgerInv, UtxoMatchesActiveChain
<1>. QED BY <1>1, LedgerAlways, PTL

\* Likewise the block_undo table holds the rows of the active branch and no
\* others, so every active block can be disconnected.
THEOREM UndoCorrect ==
    ASSUME ~ReadsMayFail
    PROVE  Spec => []UndoCoversActiveChain
<1>1. TipInv /\ LedgerInv => UndoCoversActiveChain
  BY DEF TipInv, LedgerInv, UndoCoversActiveChain
<1>. QED BY <1>1, LedgerAlways, PTL

\* The active branch is fully valid, block by block, though side blocks are
\* indexed on ConsensusRules alone.
THEOREM ActiveChainAlwaysValid ==
    ASSUME ~ReadsMayFail
    PROVE  Spec => []ActiveChainValid
<1>1. LedgerInv => ActiveChainValid
  BY DEF LedgerInv, ActiveChainValid
<1>. QED BY <1>1, LedgerAlways, PTL

\* A candidate that passed can_reorganize cannot fail in reorganize.
THEOREM PreflightAlwaysConclusive ==
    ASSUME ~ReadsMayFail
    PROVE  Spec => []PreflightConclusive
<1>1. IndexInv /\ TipInv /\ LedgerInv => PreflightConclusive
  BY NoStepFails DEF PreflightConclusive
<1>. QED BY <1>1, LedgerAlways, PTL

-----------------------------------------------------------------------------
(* Refinement of ForkChoice.                                               *)

\* ForkChoice is instantiated over the same block tree.
LEMMA SameTree ==
    /\ Choice!NonGenesis = NonGenesis
    /\ \A b : Choice!UtxoOf(b) = UtxoOf(b)
    /\ \A b : Choice!ValidBranch(b) <=> ValidBranch(b)
<1>1. \A b : Choice!Ins(b) = Ins(b) /\ Choice!Outs(b) = Outs(b)
  BY DEF Choice!Ins, Ins, Choice!Outs, Outs, Choice!BlockTxs, BlockTxs
<1>2. \A b : Choice!UtxoOf(b) = UtxoOf(b)
  BY <1>1 DEF Choice!UtxoOf, UtxoOf, Choice!Created, Created, Choice!Spent, Spent
<1>3. \A b, u : Choice!StatefulOK(b, u) <=> StatefulOK(b, u)
  BY <1>1 DEF Choice!StatefulOK, StatefulOK, Choice!DupFree, DupFree
<1>4. \A b : Choice!ValidBranch(b) <=> ValidBranch(b)
  BY <1>2, <1>3 DEF Choice!ValidBranch, ValidBranch
<1>. QED BY <1>2, <1>4 DEF Choice!NonGenesis, NonGenesis

\* Every step of the pipeline is a step of ForkChoice or leaves its
\* variables alone.
LEMMA RefinementStep ==
    ASSUME ~ReadsMayFail, IndexInv, TipInv, LedgerInv, [Next]_vars
    PROVE  [Choice!ChoiceNext]_(Choice!choiceVars)
<1>. DEFINE view == IF Idle THEN utxo ELSE saved.utxo
<1>. USE DEF Choice!choiceVars
<1>0. LedgerInv' /\ TipInv' /\ IndexInv'
  BY LedgerStep, IndexTipStep
<1>1. view = UtxoOf(best)
  BY DEF LedgerInv, TipInv
<1>2. view' = UtxoOf(best)'
  BY <1>0 DEF LedgerInv, TipInv
<1>3. CASE best' = best
  BY <1>1, <1>2, <1>3
<1>4. ASSUME NEW p, NEW b \in NonGenesis, NEW q, NEW stk, ConnectTip(p, b, q, stk)
      PROVE  Choice!ChoiceNext
  <2>1. best' = b /\ TotalWork[b] > TotalWork[best]
    BY <1>4, ExtendGainsWork DEF ConnectTip, ExtendsTip
  <2>2. ValidBranch(b) /\ view' = UtxoOf(b)
    BY <1>0, <1>2, <2>1 DEF LedgerInv
  <2>3. Choice!Adopt(b)
    BY <2>1, <2>2, SameTree DEF Choice!Adopt
  <2>. QED BY <2>3, SameTree DEF Choice!ChoiceNext
<1>5. CASE ReorgSucceeds
  <2>1. best' = cand /\ TotalWork[cand] > TotalWork[best] /\ cand \in NonGenesis
    BY <1>5, TreeAssumption, WorkAssumption
    DEF ReorgSucceeds, TipInv, IndexInv, Idle, NonGenesis, TreeAssumption, WorkAssumption
  <2>2. ValidBranch(cand) /\ view' = UtxoOf(cand)
    BY <1>0, <1>2, <2>1 DEF LedgerInv
  <2>3. Choice!Adopt(cand)
    BY <2>1, <2>2, SameTree DEF Choice!Adopt
  <2>. QED BY <2>1, <2>3, SameTree DEF Choice!ChoiceNext
<1>6. CASE Restart
  BY <1>6 DEF Restart, EndJob, Idle, Choice!ChoiceNext, Choice!StartOver
<1>7. ASSUME NEW p, NEW b \in NonGenesis, NEW q, NEW stk, Process(p, b, q, stk),
             ~ConnectTip(p, b, q, stk)
      PROVE  best' = best
  BY <1>7 DEF Process, TipInvalid, SideInvalid, StoreFails, StoreFork, TooDeep,
              StartPreflight, tipVars
<1>8. ASSUME NEW p \in Peer, NEW b \in NonGenesis, NEW n \in 0..Len(orphans),
             DeliverBlock(p, b, n) \/ DeliverOrphan(p, b, n)
      PROVE  [Choice!ChoiceNext]_(Choice!choiceVars)
  BY <1>3, <1>4, <1>7, <1>8 DEF DeliverBlock, DeliverOrphan, tipVars
<1>9. ASSUME NEW p \in Peer, HandlerStep(p)
      PROVE  [Choice!ChoiceNext]_(Choice!choiceVars)
  BY <1>3, <1>4, <1>7, <1>9 DEF HandlerStep, RetryOrphan, RetryKnown, OrphanLoop, tipVars
<1>10. CASE ReorgStep
  BY <1>3, <1>5, <1>10
  DEF ReorgStep, DisconnectStep, ConnectStep, PreflightFails, PreflightPasses,
      ReorgFails, tipVars
<1>. QED BY <1>3, <1>6, <1>8, <1>9, <1>10 DEF Next, vars, tipVars

\* The pipeline implements ForkChoice: to the rest of the node, tip and
\* ledger change together and only towards valid branches with more work.
THEOREM Refinement ==
    ASSUME ~ReadsMayFail
    PROVE  Spec => RefinesForkChoice
<1>1. Init => Choice!ChoiceInit
  BY DEF Init, NoJob, Idle, Choice!ChoiceInit
<1>. QED BY <1>1, LedgerAlways, RefinementStep, PTL
         DEF Spec, RefinesForkChoice, Choice!ChoiceSpec
-----------------------------------------------------------------------------
(* Which branch is active, when block data can always be read back.        *)

\* A branch with more work is never the shorter one: so it is where every
\* block has the same work, between two adjustments of the difficulty.
WorkFollowsLength ==
    \A a, b \in Block :
        TotalWork[a] > TotalWork[b] => Cardinality(Anc[a]) >= Cardinality(Anc[b])

\* The indexed blocks form a tree of finite branches, any two of which part
\* at one block, and the height of a block is its place on its branch.
TreeOK(I, H) ==
    /\ H \in [Block -> Nat]
    /\ \A b \in I : IsFiniteSet(Anc[b]) /\ Cardinality(Anc[b]) = H[b] + 1
    /\ \A b \in I : \A x \in Anc[b] : H[x] <= H[b]
    /\ \A b \in I : \A x, y \in Anc[b] : x \in Anc[y] \/ y \in Anc[x]
    /\ \A a, b \in I : \E f \in Anc[a] \cap Anc[b] : Anc[f] = Anc[a] \cap Anc[b]

TreeInv == TreeOK(indexed, height)

\* A valid branch with more work than the active one is out of reach, or the
\* candidate of the reorganisation under way.
HeaviestInv ==
    /\ \A b \in indexed : /\ ValidBranch(b) /\ TotalWork[b] > TotalWork[best]
                          /\ Idle \/ b # cand
                          => ~DepthOK(b)
    /\ ~Idle => DepthOK(cand)

\* _find_common_ancestor finds where two indexed branches part.
LEMMA ForkFound ==
    ASSUME TreeInv, NEW a \in indexed, NEW b \in indexed
    PROVE  /\ ForkPoint(a, b) \in Anc[a] /\ ForkPoint(a, b) \in Anc[b]
           /\ Anc[ForkPoint(a, b)] = Anc[a] \cap Anc[b]
<1>1. \E f \in Anc[a] \cap Anc[b] : Anc[f] = Anc[a] \cap Anc[b]
  BY DEF TreeInv, TreeOK
<1>. QED BY <1>1 DEF ForkPoint

\* Branches that meet another one in the same blocks part from it at the same
\* block.
LEMMA SameFork ==
    ASSUME NEW a, NEW b, NEW c, Anc[a] \cap Anc[b] = Anc[a] \cap Anc[c]
    PROVE  ForkPoint(a, b) = ForkPoint(a, c)
  BY DEF ForkPoint

\* A new block is on no indexed branch.
LEMMA NewBlock ==
    ASSUME IndexInv, NEW b \in NonGenesis, b \notin indexed, Parent[b] \in indexed
    PROVE  /\ \A x \in indexed : b \notin Anc[x]
           /\ \A x \in indexed : Anc[b] \cap Anc[x] = Anc[Parent[b]] \cap Anc[x]
           /\ Anc[b] \subseteq indexed \cup {b}
  BY BranchStep DEF IndexInv

\* Storing a block keeps the tree in order.
LEMMA AddBlockTree ==
    ASSUME IndexInv, TreeInv, NEW b \in NonGenesis, b \notin indexed,
           Parent[b] \in indexed, AddBlock(b)
    PROVE  TreeInv'
<1>. DEFINE p == Parent[b]
<1>0. /\ b \in Block /\ p \in Block /\ Anc[b] = {b} \cup Anc[p] /\ b \notin Anc[p]
      /\ indexed' = indexed \cup {b} /\ height' = [height EXCEPT ![b] = height[p] + 1]
  BY BranchStep DEF AddBlock
<1>1. height' \in [Block -> Nat] /\ height'[b] = height[p] + 1
      /\ \A x \in indexed : height'[x] = height[x]
  BY <1>0 DEF TreeInv, TreeOK, IndexInv
<1>2. IsFiniteSet(Anc[b]) /\ Cardinality(Anc[b]) = height'[b] + 1
  <2>1. IsFiniteSet(Anc[p]) /\ Cardinality(Anc[p]) = height[p] + 1
    BY DEF TreeInv, TreeOK
  <2>2. Anc[b] = Anc[p] \cup {b}
    BY <1>0
  <2>3. IsFiniteSet(Anc[p] \cup {b}) /\ Cardinality(Anc[p] \cup {b}) = Cardinality(Anc[p]) + 1
    BY <1>0, <2>1, FS_AddElement
  <2>. QED BY <1>0, <1>1, <2>1, <2>2, <2>3 DEF TreeInv, TreeOK
<1>3. \A x \in Anc[b] : height'[x] <= height'[b]
  <2>1. \A x \in Anc[p] : x \in indexed /\ height[x] <= height[p] /\ height[x] \in Nat
    BY DEF TreeInv, TreeOK, IndexInv
  <2>. QED BY <1>0, <1>1, <2>1 DEF TreeInv, TreeOK
<1>4. \A x, y \in Anc[b] : x \in Anc[y] \/ y \in Anc[x]
  BY <1>0 DEF TreeInv, TreeOK
<1>5. ASSUME NEW x \in indexed
      PROVE  /\ \E f \in Anc[b] \cap Anc[x] : Anc[f] = Anc[b] \cap Anc[x]
             /\ \E f \in Anc[x] \cap Anc[b] : Anc[f] = Anc[x] \cap Anc[b]
  <2>1. Anc[b] \cap Anc[x] = Anc[p] \cap Anc[x]
    BY NewBlock
  <2>2. PICK f \in Anc[p] \cap Anc[x] : Anc[f] = Anc[p] \cap Anc[x]
    BY DEF TreeInv, TreeOK
  <2>3. Anc[x] \cap Anc[b] = Anc[b] \cap Anc[x]
    OBVIOUS
  <2>. QED BY <2>1, <2>2, <2>3
<1>6. \E f \in Anc[b] \cap Anc[b] : Anc[f] = Anc[b] \cap Anc[b]
  BY <1>0
<1>7. \A x \in indexed : \A y \in Anc[x] : height'[y] <= height'[x]
  BY <1>1 DEF TreeInv, TreeOK, IndexInv
<1>8. \A x \in indexed : IsFiniteSet(Anc[x]) /\ Cardinality(Anc[x]) = height'[x] + 1
  BY <1>1 DEF TreeInv, TreeOK
<1>9. \A x, y \in indexed' : \E f \in Anc[x] \cap Anc[y] : Anc[f] = Anc[x] \cap Anc[y]
  BY <1>0, <1>5, <1>6 DEF TreeInv, TreeOK
<1>10. \A z \in indexed' : \A x, y \in Anc[z] : x \in Anc[y] \/ y \in Anc[x]
  BY <1>0, <1>4 DEF TreeInv, TreeOK
<1>11. \A x \in indexed' : IsFiniteSet(Anc[x]) /\ Cardinality(Anc[x]) = height'[x] + 1
  BY <1>0, <1>2, <1>8
<1>12. \A x \in indexed' : \A y \in Anc[x] : height'[y] <= height'[x]
  BY <1>0, <1>3, <1>7
<1>. QED BY <1>1, <1>9, <1>10, <1>11, <1>12 DEF TreeInv, TreeOK

\* While the tip stays, storing a block leaves it as deep as it was.
LEMMA AddBlockDepth ==
    ASSUME IndexInv, TipInv, TreeInv, NEW b \in NonGenesis, b \notin indexed,
           Parent[b] \in indexed, AddBlock(b), best' = best, NEW x \in indexed'
    PROVE  DepthOK(x)' <=> DepthOK(x)
<1>1. TreeInv' /\ indexed' = indexed \cup {b} /\ best \in indexed
  BY AddBlockTree DEF AddBlock, TipInv
<1>2. \E f \in Anc[x] \cap Anc[best] : Anc[f] = Anc[x] \cap Anc[best]
  BY <1>1 DEF TreeInv, TreeOK
<1>3. ForkPoint(x, best) \in Anc[best]
  BY <1>2 DEF ForkPoint
<1>4. \A y \in indexed : height'[y] = height[y]
  BY DEF AddBlock, TreeInv, TreeOK, IndexInv
<1>5. ForkPoint(x, best) \in indexed
  BY <1>1, <1>3 DEF IndexInv
<1>6. ForkPoint(x, best)' = ForkPoint(x, best)
  BY DEF ForkPoint
<1>. QED BY <1>1, <1>4, <1>5, <1>6 DEF DepthOK

\* on_block with an indexed parent passes over no branch it could take.
LEMMA ProcessHeaviest ==
    ASSUME IndexInv, TipInv, TreeInv, HeaviestInv, Idle,
           NEW p, NEW b \in NonGenesis, NEW q, NEW stk,
           Process(p, b, q, stk)
    PROVE  TreeInv' /\ HeaviestInv'
<1>0. b \notin indexed /\ Parent[b] \in indexed /\ best \in indexed /\ b \in Block
  BY BranchStep DEF Process, TipInv
<1>1. CASE TipInvalid(p, b, q, stk) \/ SideInvalid(p, b, q, stk) \/ StoreFails(p, b, q)
  BY <1>1 DEF TipInvalid, SideInvalid, StoreFails, indexVars, tipVars, reorgVars,
              TreeInv, HeaviestInv, Idle, DepthOK
<1>2. CASE ConnectTip(p, b, q, stk)
  <2>1. /\ AddBlock(b) /\ Parent[b] = best /\ best' = b /\ Idle' /\ indexed' = indexed \cup {b}
        /\ height'[b] = height[best] + 1 /\ \A x \in indexed : height'[x] = height[x]
    BY <1>0, <1>2 DEF ConnectTip, ExtendsTip, AddBlock, reorgVars, Idle, TreeInv, TreeOK, IndexInv
  <2>2. TreeInv'
    BY <1>0, <2>1, AddBlockTree
  <2>3. TotalWork[b] > TotalWork[best] /\ TotalWork[b] \in Nat /\ TotalWork[best] \in Nat
    BY <1>0, <2>1, ExtendGainsWork, WorkAssumption DEF WorkAssumption, IndexInv
  <2>4. ASSUME NEW x \in indexed, ValidBranch(x), TotalWork[x] > TotalWork[b]
        PROVE  ~DepthOK(x)'
    <3>1. TotalWork[x] > TotalWork[best]
      BY <2>3, <2>4, WorkAssumption DEF WorkAssumption, IndexInv
    <3>2. ~DepthOK(x)
      BY <2>4, <3>1 DEF HeaviestInv
    <3>3. Anc[x] \cap Anc[b] = Anc[x] \cap Anc[best]
      BY <1>0, <2>1, BranchStep, NewBlock
    <3>4. ForkPoint(x, b) = ForkPoint(x, best)
      BY <3>3, SameFork
    <3>5. ForkPoint(x, best) \in indexed
      BY <1>0, ForkFound DEF IndexInv
    <3>6. ForkPoint(x, best)' = ForkPoint(x, b)
      BY <2>1 DEF ForkPoint
    <3>7. height[best] \in Nat /\ height[ForkPoint(x, best)] \in Nat
      BY <1>0, <3>5 DEF TreeInv, TreeOK, IndexInv
    <3>. QED BY <2>1, <3>2, <3>4, <3>5, <3>6, <3>7, ChainStateAssumption
             DEF DepthOK, ChainStateAssumption
  <2>. QED BY <2>1, <2>2, <2>3, <2>4 DEF HeaviestInv
<1>3. CASE StoreFork(p, b, q, stk) \/ TooDeep(p, b, q, stk)
  <2>1. AddBlock(b) /\ best' = best /\ Idle' /\ indexed' = indexed \cup {b}
        /\ StoreOK(b, txrows)
    BY <1>3 DEF StoreFork, TooDeep, tipVars, reorgVars, AddBlock, Idle
  <2>2. TreeInv'
    BY <1>0, <2>1, AddBlockTree
  <2>3. \A x \in indexed' : DepthOK(x)' <=> DepthOK(x)
    BY <1>0, <2>1, AddBlockDepth
  <2>4. WorkOf(b) = TotalWork[b] /\ bestwork = TotalWork[best]
    BY <1>0, <2>1, AddBlockIndex DEF TipInv
  <2>5. TotalWork[b] > TotalWork[best] => ~DepthOK(b)
    BY <1>3, <2>4 DEF StoreFork, TooDeep, Heavier
  <2>. QED BY <2>1, <2>2, <2>3, <2>5 DEF HeaviestInv
<1>4. CASE StartPreflight(p, b, q, stk)
  <2>1. AddBlock(b) /\ best' = best /\ ~Idle' /\ indexed' = indexed \cup {b} /\ cand' = b
        /\ DepthOK(b)
    BY <1>4 DEF StartPreflight, tipVars, AddBlock, Idle
  <2>2. TreeInv'
    BY <1>0, <2>1, AddBlockTree
  <2>3. \A x \in indexed' : DepthOK(x)' <=> DepthOK(x)
    BY <1>0, <2>1, AddBlockDepth
  <2>. QED BY <2>1, <2>2, <2>3 DEF HeaviestInv
<1>. QED BY <1>1, <1>2, <1>3, <1>4 DEF Process

\* A candidate whose preflight fails does not have a valid branch.
LEMMA RefusedInvalid ==
    ASSUME ~ReadsMayFail, IndexInv, TipInv, LedgerInv, StepFails
    PROVE  ~ValidBranch(cand)
<1>1. cur \notin Anc[cand] => CanDisconnect(cur, undo)
  BY WalkOnIndex, UndoStep DEF LedgerInv
<1>2. PICK c \in NonGenesis : NextConnect(c) /\ ~StatefulOK(c, utxo)
  BY <1>1 DEF StepFails
<1>. QED BY <1>2 DEF NextConnect, LedgerInv, ValidBranch

\* After a reorganisation, a branch that was out of reach still is: it parts
\* from the new branch where it parted from the old one, and the new branch
\* is not the shorter one.
LEMMA StillOutOfReach ==
    ASSUME WorkFollowsLength, IndexInv, TreeInv,
           NEW t \in indexed, NEW c \in indexed, NEW b \in indexed,
           TotalWork[c] > TotalWork[t],
           height[t] - height[ForkPoint(c, t)] <= MaxReorgDepth,
           ~(height[t] - height[ForkPoint(b, t)] <= MaxReorgDepth)
    PROVE  ~(height[c] - height[ForkPoint(b, c)] <= MaxReorgDepth)
<1>. DEFINE f == ForkPoint(c, t)
            g == ForkPoint(b, t)
<1>1. /\ f \in Anc[c] /\ f \in Anc[t] /\ Anc[f] = Anc[c] \cap Anc[t]
      /\ g \in Anc[b] /\ g \in Anc[t] /\ Anc[g] = Anc[b] \cap Anc[t]
  BY ForkFound
<1>2. f \in indexed /\ g \in indexed /\ indexed \subseteq Block
  BY <1>1 DEF IndexInv
<1>3. height[t] \in Nat /\ height[c] \in Nat /\ height[f] \in Nat /\ height[g] \in Nat
  BY <1>2 DEF TreeInv, TreeOK
<1>4. height[g] < height[f]
  BY <1>3, ChainStateAssumption DEF ChainStateAssumption
<1>5. f \notin Anc[b]
  <2>. SUFFICES ASSUME f \in Anc[b] PROVE FALSE
    OBVIOUS
  <2>1. f \in Anc[g]
    BY <1>1
  <2>. QED BY <1>2, <1>3, <1>4, <2>1 DEF TreeInv, TreeOK
<1>6. \A x \in Anc[b] : f \notin Anc[x]
  BY <1>2, <1>5, TreeAssumption DEF TreeAssumption
<1>7. \A x \in Anc[b] \cap Anc[c] : x \in Anc[t]
  BY <1>1, <1>6 DEF TreeInv, TreeOK
<1>8. \A x \in Anc[b] \cap Anc[t] : x \in Anc[c]
  BY <1>1, <1>6 DEF TreeInv, TreeOK
<1>9. Anc[b] \cap Anc[c] = Anc[b] \cap Anc[t]
  BY <1>7, <1>8
<1>10. ForkPoint(b, c) = g
  BY <1>9, SameFork
<1>11. Cardinality(Anc[c]) >= Cardinality(Anc[t])
  BY <1>2 DEF WorkFollowsLength
<1>12. height[c] >= height[t]
  BY <1>3, <1>11 DEF TreeInv, TreeOK
<1>. QED BY <1>3, <1>10, <1>12, ChainStateAssumption DEF ChainStateAssumption

\* The branch of genesis is genesis.
LEMMA GenesisTree ==
    /\ Genesis \in Block /\ Anc[Genesis] = {Genesis}
    /\ IsFiniteSet(Anc[Genesis]) /\ Cardinality(Anc[Genesis]) = 1
    /\ \E f \in Anc[Genesis] \cap Anc[Genesis] : Anc[f] = Anc[Genesis] \cap Anc[Genesis]
<1>1. Genesis \in Block /\ Anc[Genesis] = {Genesis}
  BY TreeAssumption DEF TreeAssumption
<1>2. IsFiniteSet({Genesis}) /\ Cardinality({Genesis}) = 1
  BY FS_Singleton
<1>3. \E f \in Anc[Genesis] \cap Anc[Genesis] : Anc[f] = Anc[Genesis] \cap Anc[Genesis]
  BY <1>1
<1>. QED BY <1>1, <1>2, <1>3

\* Genesis alone, at height 0, is a tree in order.
LEMMA GenesisAlone == TreeOK({Genesis}, [b \in Block |-> 0])
<1>. DEFINE I == {Genesis}
            H == [b \in Block |-> 0]
<1>1. H \in [Block -> Nat] /\ H[Genesis] = 0
  BY GenesisTree
<1>2. \A b \in I : IsFiniteSet(Anc[b]) /\ Cardinality(Anc[b]) = H[b] + 1
  BY <1>1, GenesisTree
<1>3. \A b \in I : \A x \in Anc[b] : H[x] <= H[b]
  BY <1>1, GenesisTree
<1>4. \A b \in I : \A x, y \in Anc[b] : x \in Anc[y] \/ y \in Anc[x]
  BY GenesisTree
<1>5. \A a, b \in I : \E f \in Anc[a] \cap Anc[b] : Anc[f] = Anc[a] \cap Anc[b]
  BY GenesisTree
<1>. HIDE DEF I, H
<1>6. TreeOK(I, H)
  BY <1>1, <1>2, <1>3, <1>4, <1>5 DEF TreeOK
<1>. QED BY <1>6 DEF I, H

\* Every step keeps the tree in order and passes over no branch in reach.
LEMMA HeaviestStep ==
    ASSUME ~ReadsMayFail, WorkFollowsLength, IndexInv, TipInv, LedgerInv,
           TreeInv, HeaviestInv, [Next]_vars
    PROVE  TreeInv' /\ HeaviestInv'
<1>1. ASSUME UNCHANGED indexVars, UNCHANGED tipVars,
             (Idle' <=> Idle) /\ (cand' = cand)
      PROVE  TreeInv' /\ HeaviestInv'
  BY <1>1 DEF TreeInv, TreeOK, HeaviestInv, DepthOK, ForkPoint, indexVars, tipVars
<1>2. ASSUME NEW p \in Peer, NEW b \in NonGenesis, NEW n \in 0..Len(orphans),
             DeliverBlock(p, b, n) \/ DeliverOrphan(p, b, n)
      PROVE  TreeInv' /\ HeaviestInv'
  BY <1>1, <1>2, ProcessHeaviest DEF DeliverBlock, DeliverOrphan, reorgVars, Idle
<1>3. ASSUME NEW p \in Peer, HandlerStep(p)
      PROVE  TreeInv' /\ HeaviestInv'
  <2>1. ASSUME NEW c \in NonGenesis, NEW n \in 0..Len(RemoveOrphan(orphans, c)),
               RetryOrphan(p, c, n)
        PROVE  TreeInv' /\ HeaviestInv'
    BY <2>1, ProcessHeaviest DEF RetryOrphan, Pending
  <2>. QED BY <1>1, <1>3, <2>1 DEF HandlerStep, RetryKnown, OrphanLoop, reorgVars, Idle
<1>4. CASE DisconnectStep
  BY <1>1, <1>4 DEF DisconnectStep, reorgVars, Idle
<1>5. ASSUME NEW c \in NonGenesis, ConnectStep(c) PROVE TreeInv' /\ HeaviestInv'
  BY <1>1, <1>5 DEF ConnectStep, reorgVars, Idle
<1>6. CASE PreflightPasses
  BY <1>1, <1>6 DEF PreflightPasses, Idle
<1>7. CASE PreflightFails
  <2>1. ~ValidBranch(cand)
    BY <1>7, RefusedInvalid DEF PreflightFails
  <2>. QED BY <1>7, <2>1 DEF PreflightFails, EndJob, TreeInv, TreeOK, HeaviestInv, DepthOK,
                            ForkPoint, Idle, indexVars, tipVars
<1>8. CASE ReorgFails
  BY <1>8, NoStepFails DEF ReorgFails
<1>9. CASE ReorgSucceeds
  <2>1. /\ best' = cand /\ UNCHANGED indexVars /\ Idle' /\ ~Idle
        /\ best \in indexed /\ cand \in indexed /\ TotalWork[cand] > TotalWork[best]
    BY <1>9 DEF ReorgSucceeds, EndJob, Idle, TipInv
  <2>2. TreeInv'
    BY <2>1 DEF TreeInv, TreeOK, indexVars
  <2>3. ASSUME NEW b \in indexed, ValidBranch(b), TotalWork[b] > TotalWork[cand]
        PROVE  ~DepthOK(b)'
    <3>1. TotalWork[b] > TotalWork[best] /\ b # cand
      BY <2>1, <2>3, WorkAssumption DEF WorkAssumption, IndexInv
    <3>2. ~DepthOK(b) /\ DepthOK(cand)
      BY <2>1, <2>3, <3>1 DEF HeaviestInv
    <3>3. ~(height[cand] - height[ForkPoint(b, cand)] <= MaxReorgDepth)
      BY <2>1, <3>2, StillOutOfReach DEF DepthOK
    <3>. QED BY <2>1, <3>3 DEF DepthOK, ForkPoint, indexVars
  <2>. QED BY <2>1, <2>2, <2>3 DEF HeaviestInv, indexVars
<1>10. CASE Restart
  <2>1. indexed' = {Genesis} /\ height' = [b \in Block |-> 0] /\ best' = Genesis /\ Idle'
    BY <1>10 DEF Restart, EndJob, Idle
  <2>2. TreeInv'
    BY <2>1, GenesisAlone DEF TreeInv
  <2>. QED BY <2>1, <2>2, GenesisTree, WorkAssumption DEF HeaviestInv, WorkAssumption
<1>. QED BY <1>1, <1>2, <1>3, <1>4, <1>5, <1>6, <1>7, <1>8, <1>9, <1>10
         DEF Next, ReorgStep, vars, reorgVars, Idle

\* With genesis alone there is nothing to pass over.
LEMMA HeaviestInit == Init => TreeInv /\ HeaviestInv
<1>1. Init => TreeInv
  BY GenesisAlone DEF Init, TreeInv
<1>. QED BY <1>1, GenesisTree, WorkAssumption DEF Init, NoJob, Idle, HeaviestInv, WorkAssumption

\* Where branches with more work are not shorter, the node always ends up on
\* the heaviest valid branch that max_reorg_depth lets it reach: no block
\* order, failed preflight or earlier refusal leaves it on a lighter one
\* (on_block, can_reorganize).
THEOREM HeaviestChosen ==
    ASSUME ~ReadsMayFail, WorkFollowsLength
    PROVE  Spec => []BestIsHeaviest
<1>1. IndexInv /\ TipInv /\ HeaviestInv => BestIsHeaviest
  BY DEF IndexInv, TipInv, HeaviestInv, BestIsHeaviest
<1>2. Spec => [](TreeInv /\ HeaviestInv)
  BY IndexTipInit, IndexTipStep, LedgerInit, LedgerStep, HeaviestInit, HeaviestStep, PTL
  DEF Spec
<1>. QED BY <1>1, <1>2, LedgerAlways, PTL
-----------------------------------------------------------------------------
(* Types and the limits of the orphanage.                                  *)
(*                                                                         *)
(* What the operations of the orphanage return, for every pool and every   *)
(* limit.                                                                  *)

\* Popping one entry leaves a pool with one entry less; the others keep
\* their order.
LEMMA PopAtPool ==
    ASSUME NEW q \in Seq(OrphanEntry), NEW i \in 1..Len(q)
    PROVE  /\ PopAt(q, i) \in Seq(OrphanEntry)
           /\ Len(PopAt(q, i)) = Len(q) - 1
           /\ \A k \in 1..Len(PopAt(q, i)) :
                 PopAt(q, i)[k] = IF k < i THEN q[k] ELSE q[k+1]
<1>. DEFINE l == SubSeq(q, 1, i - 1)
            r == SubSeq(q, i + 1, Len(q))
<1>0. Len(q) \in Nat /\ \A k \in 1..Len(q) : q[k] \in OrphanEntry
  OBVIOUS
<1>1. /\ l \in Seq(OrphanEntry)
      /\ Len(l) = i - 1
      /\ \A k \in 1..(i-1) : l[k] = q[k]
  <2>1. \A k \in 1..(i-1) : q[k] \in OrphanEntry
    BY <1>0
  <2>. QED BY <1>0, <2>1, SubSeqProperties
<1>2. /\ r \in Seq(OrphanEntry)
      /\ Len(r) = Len(q) - i
      /\ \A k \in 1..(Len(q) - i) : r[k] = q[k + i]
  <2>1. \A k \in (i+1)..Len(q) : q[k] \in OrphanEntry
    BY <1>0
  <2>. QED BY <1>0, <2>1, SubSeqProperties
<1>. HIDE DEF l, r
<1>3. /\ l \o r \in Seq(OrphanEntry)
      /\ Len(l \o r) = Len(q) - 1
      /\ \A k \in 1..(Len(q) - 1) :
            (l \o r)[k] = IF k <= i - 1 THEN l[k] ELSE r[k - (i - 1)]
  BY <1>0, <1>1, <1>2, ConcatProperties
<1>4. \A k \in 1..(Len(q) - 1) : (l \o r)[k] = IF k < i THEN q[k] ELSE q[k+1]
  <2>. TAKE k \in 1..(Len(q) - 1)
  <2>1. CASE k < i
    BY <1>0, <1>1, <1>3, <2>1
  <2>2. CASE ~(k < i)
    <3>1. k - (i - 1) \in 1..(Len(q) - i)
      BY <1>0, <2>2
    <3>. QED BY <1>0, <1>2, <1>3, <2>2, <3>1
  <2>. QED BY <2>1, <2>2
<1>. QED BY <1>0, <1>3, <1>4 DEF PopAt, l, r

\* A pool whose entries are entries of q, each from a different place of q,
\* credits no source with more blocks than q does.
LEMMA SelectionBounded ==
    ASSUME NEW q \in Seq(OrphanEntry), NEW r \in Seq(OrphanEntry),
           NEW f \in Injection(1..Len(r), 1..Len(q)),
           \A k \in 1..Len(r) : r[k] = q[f[k]]
    PROVE  /\ \A s : /\ IsFiniteSet(FromSource(q, s))
                     /\ IsFiniteSet(FromSource(r, s))
                     /\ Cardinality(FromSource(r, s)) <= Cardinality(FromSource(q, s))
           /\ (\A i, j \in 1..Len(q) : q[i].blk = q[j].blk => i = j)
                 => (\A i, j \in 1..Len(r) : r[i].blk = r[j].blk => i = j)
<1>1. /\ f \in [1..Len(r) -> 1..Len(q)]
      /\ \A i, j \in 1..Len(r) : f[i] = f[j] => i = j
  BY DEF Injection, IsInjective
<1>2. ASSUME NEW s
      PROVE  /\ IsFiniteSet(FromSource(q, s))
             /\ IsFiniteSet(FromSource(r, s))
             /\ Cardinality(FromSource(r, s)) <= Cardinality(FromSource(q, s))
  <2>. DEFINE h == [k \in FromSource(r, s) |-> f[k]]
  <2>1. IsFiniteSet(FromSource(q, s))
    <3>1. FromSource(q, s) \in SUBSET (1..Len(q)) /\ IsFiniteSet(1..Len(q))
      BY FS_Interval DEF FromSource
    <3>. QED BY <3>1, FS_Subset
  <2>2. h \in Injection(FromSource(r, s), FromSource(q, s))
    BY <1>1 DEF Injection, IsInjective, FromSource
  <2>. HIDE DEF h
  <2>. QED BY <2>1, <2>2, FS_Injection
<1>3. (\A i, j \in 1..Len(q) : q[i].blk = q[j].blk => i = j)
        => (\A i, j \in 1..Len(r) : r[i].blk = r[j].blk => i = j)
  BY <1>1
<1>. QED BY <1>2, <1>3

\* Popping an entry keeps the limits, and takes one block off the account of
\* its source.
LEMMA PopAtBounded ==
    ASSUME NEW q \in Seq(OrphanEntry), NEW i \in 1..Len(q), PoolBounded(q)
    PROVE  /\ PoolBounded(PopAt(q, i))
           /\ \A s : Cardinality(FromSource(PopAt(q, i), s))
                        <= Cardinality(FromSource(q, s))
           /\ \A s : q[i].src = s =>
                 Cardinality(FromSource(PopAt(q, i), s)) < Cardinality(FromSource(q, s))
<1>. DEFINE r == PopAt(q, i)
            f == [k \in 1..Len(r) |-> IF k < i THEN k ELSE k + 1]
<1>1. /\ r \in Seq(OrphanEntry)
      /\ Len(r) = Len(q) - 1
      /\ \A k \in 1..Len(r) : r[k] = IF k < i THEN q[k] ELSE q[k+1]
  BY PopAtPool
<1>. HIDE DEF r
<1>2. /\ f \in Injection(1..Len(r), 1..Len(q))
      /\ \A k \in 1..Len(r) : r[k] = q[f[k]] /\ f[k] # i
  BY <1>1 DEF Injection, IsInjective
<1>. HIDE DEF f
<1>3. /\ \A s : /\ IsFiniteSet(FromSource(q, s))
                /\ IsFiniteSet(FromSource(r, s))
                /\ Cardinality(FromSource(r, s)) <= Cardinality(FromSource(q, s))
      /\ \A j, k \in 1..Len(r) : r[j].blk = r[k].blk => j = k
  <2>1. \A k \in 1..Len(r) : r[k] = q[f[k]]
    BY <1>2
  <2>2. \A j, k \in 1..Len(q) : q[j].blk = q[k].blk => j = k
    BY DEF PoolBounded
  <2>. QED BY <1>1, <1>2, <2>1, <2>2, SelectionBounded
<1>4. ASSUME NEW s, q[i].src = s
      PROVE  Cardinality(FromSource(r, s)) < Cardinality(FromSource(q, s))
  <2>. DEFINE h == [k \in FromSource(r, s) |-> f[k]]
  <2>1. /\ f \in [1..Len(r) -> 1..Len(q)]
        /\ \A j, k \in 1..Len(r) : f[j] = f[k] => j = k
    BY <1>2 DEF Injection, IsInjective
  <2>2. h \in Injection(FromSource(r, s), FromSource(q, s))
    BY <1>2, <2>1 DEF Injection, IsInjective, FromSource
  <2>3. h \notin Surjection(FromSource(r, s), FromSource(q, s))
    <3>1. i \in FromSource(q, s)
      BY <1>4 DEF FromSource
    <3>2. \A k \in FromSource(r, s) : h[k] # i
      BY <1>2 DEF FromSource
    <3>. QED BY <3>1, <3>2 DEF Surjection
  <2>. HIDE DEF h
  <2>4. Cardinality(FromSource(r, s)) # Cardinality(FromSource(q, s))
    BY <1>3, <2>2, <2>3, FS_Injection
  <2>5. Cardinality(FromSource(r, s)) \in Nat /\ Cardinality(FromSource(q, s)) \in Nat
    BY <1>3, FS_CardinalityType
  <2>. QED BY <1>3, <2>4, <2>5
<1>5. \A s : Cardinality(FromSource(r, s)) \in Nat /\ Cardinality(FromSource(q, s)) \in Nat
  BY <1>3, FS_CardinalityType
<1>6. PoolBounded(r)
  BY <1>1, <1>3, <1>5, OrphanageAssumption DEF PoolBounded, OrphanageAssumption
<1>. QED BY <1>3, <1>4, <1>6 DEF r

\* A non-empty set of places has a first one.
LEMMA FirstPlace ==
    ASSUME NEW S \in SUBSET Nat, S # {}
    PROVE  \E i \in S : \A j \in S : i <= j
<1>1. PICK i \in S : \A j \in S : ~(<<j, i>> \in OpToRel(<, Nat))
  BY NatLessThanWellFounded, WFMin
<1>2. \A j \in S : ~(j < i)
  BY <1>1 DEF OpToRel
<1>. QED BY <1>2

\* remove_orphan keeps the limits.
LEMMA RemoveOrphanBounded ==
    ASSUME NEW q \in Seq(OrphanEntry), NEW b
    PROVE  /\ RemoveOrphan(q, b) \in Seq(OrphanEntry)
           /\ PoolBounded(q) => PoolBounded(RemoveOrphan(q, b))
<1>1. CASE HasOrphan(q, b)
  <2>. DEFINE i == CHOOSE i \in 1..Len(q) : q[i].blk = b
  <2>1. i \in 1..Len(q)
    BY <1>1 DEF HasOrphan
  <2>. HIDE DEF i
  <2>2. PopAt(q, i) \in Seq(OrphanEntry)
    BY <2>1, PopAtPool
  <2>3. PoolBounded(q) => PoolBounded(PopAt(q, i))
    BY <2>1, PopAtBounded
  <2>. QED BY <1>1, <2>2, <2>3 DEF RemoveOrphan, i
<1>2. CASE ~HasOrphan(q, b)
  BY <1>2 DEF RemoveOrphan
<1>. QED BY <1>1, <1>2

\* cleanup_expired keeps the limits.
LEMMA CleanupExpiredBounded ==
    ASSUME NEW q \in Seq(OrphanEntry), NEW n \in 0..Len(q)
    PROVE  /\ CleanupExpired(q, n) \in Seq(OrphanEntry)
           /\ PoolBounded(q) => PoolBounded(CleanupExpired(q, n))
<1>. DEFINE r == CleanupExpired(q, n)
            f == [k \in 1..Len(r) |-> k + n]
<1>1. /\ r \in Seq(OrphanEntry)
      /\ Len(r) = Len(q) - n
      /\ \A k \in 1..(Len(q) - n) : r[k] = q[k + n]
  <2>1. Len(q) \in Nat /\ \A k \in (n+1)..Len(q) : q[k] \in OrphanEntry
    OBVIOUS
  <2>. QED BY <2>1, SubSeqProperties DEF CleanupExpired
<1>. HIDE DEF r
<1>2. /\ f \in Injection(1..Len(r), 1..Len(q))
      /\ \A k \in 1..Len(r) : r[k] = q[f[k]]
  BY <1>1 DEF Injection, IsInjective
<1>. HIDE DEF f
<1>3. /\ \A s : /\ IsFiniteSet(FromSource(q, s))
                /\ IsFiniteSet(FromSource(r, s))
                /\ Cardinality(FromSource(r, s)) <= Cardinality(FromSource(q, s))
      /\ (\A i, j \in 1..Len(q) : q[i].blk = q[j].blk => i = j)
            => (\A i, j \in 1..Len(r) : r[i].blk = r[j].blk => i = j)
  BY <1>1, <1>2, SelectionBounded
<1>4. \A s : Cardinality(FromSource(r, s)) \in Nat /\ Cardinality(FromSource(q, s)) \in Nat
  BY <1>3, FS_CardinalityType
<1>5. PoolBounded(q) => PoolBounded(r)
  BY <1>1, <1>3, <1>4, OrphanageAssumption DEF PoolBounded, OrphanageAssumption
<1>. QED BY <1>1, <1>5 DEF r

\* add_orphan keeps the limits: it makes room for the block it appends, in
\* the account of its source first and in the pool second.
LEMMA AddOrphanBounded ==
    ASSUME NEW q \in Seq(OrphanEntry), NEW b \in NonGenesis, NEW s \in Peer,
           PoolBounded(q)
    PROVE  /\ AddOrphan(q, b, s) \in Seq(OrphanEntry)
           /\ PoolBounded(AddOrphan(q, b, s))
<1>. DEFINE full == s # NoPeer /\ Cardinality(FromSource(q, s)) >= MaxOrphansPerPeer
            own == IF full THEN EvictOldestFromSource(q, s) ELSE q
            all == IF Len(own) >= MaxOrphans THEN EvictOldest(own) ELSE own
            e == [blk |-> b, src |-> s]
<1>0. \A r \in Seq(OrphanEntry) : \A t : /\ IsFiniteSet(FromSource(r, t))
                                         /\ Cardinality(FromSource(r, t)) \in Nat
  <2>. TAKE r \in Seq(OrphanEntry)
  <2>. TAKE t
  <2>1. FromSource(r, t) \in SUBSET (1..Len(r)) /\ IsFiniteSet(1..Len(r))
    BY FS_Interval DEF FromSource
  <2>. QED BY <2>1, FS_Subset, FS_CardinalityType
<1>1. CASE HasOrphan(q, b)
  BY <1>1 DEF AddOrphan
<1>2. CASE ~HasOrphan(q, b)
  <2>1. /\ own \in Seq(OrphanEntry)
        /\ PoolBounded(own)
        /\ Cardinality(FromSource(own, s)) < MaxOrphansPerPeer
        /\ ~HasOrphan(own, b)
    <3>1. CASE full
      <4>. DEFINE i == CHOOSE i \in FromSource(q, s) : \A j \in FromSource(q, s) : i <= j
      <4>1. FromSource(q, s) # {} /\ FromSource(q, s) \in SUBSET Nat
        <5>1. Cardinality(FromSource(q, s)) # 0
          BY <1>0, <3>1, OrphanageAssumption DEF OrphanageAssumption
        <5>2. FromSource(q, s) # {}
          BY <5>1, FS_EmptySet
        <5>. QED BY <5>2 DEF FromSource
      <4>2. i \in FromSource(q, s)
        BY <4>1, FirstPlace
      <4>. HIDE DEF i
      <4>3. i \in 1..Len(q) /\ q[i].src = s
        BY <4>2 DEF FromSource
      <4>4. own = PopAt(q, i)
        BY <3>1 DEF EvictOldestFromSource, i
      <4>. HIDE DEF own
      <4>5. own \in Seq(OrphanEntry) /\ ~HasOrphan(own, b)
        <5>1. /\ own \in Seq(OrphanEntry)
              /\ Len(own) = Len(q) - 1
              /\ \A k \in 1..Len(own) : own[k] = IF k < i THEN q[k] ELSE q[k+1]
          BY <4>3, <4>4, PopAtPool
        <5>. QED BY <1>2, <4>3, <5>1 DEF HasOrphan
      <4>6. /\ PoolBounded(own)
            /\ Cardinality(FromSource(own, s)) < Cardinality(FromSource(q, s))
        BY <4>3, <4>4, PopAtBounded
      <4>. QED BY <1>0, <4>5, <4>6, OrphanageAssumption DEF PoolBounded, OrphanageAssumption
    <3>2. CASE ~full
      BY <1>0, <1>2, <3>2, OrphanageAssumption DEF OrphanageAssumption
    <3>. QED BY <3>1, <3>2
  <2>. HIDE DEF own
  <2>2. /\ all \in Seq(OrphanEntry)
        /\ PoolBounded(all)
        /\ Len(all) < MaxOrphans
        /\ Cardinality(FromSource(all, s)) < MaxOrphansPerPeer
        /\ ~HasOrphan(all, b)
    <3>1. CASE Len(own) >= MaxOrphans
      <4>1. 1 \in 1..Len(own) /\ all = PopAt(own, 1)
        BY <2>1, <3>1, OrphanageAssumption DEF OrphanageAssumption, EvictOldest
      <4>2. all \in Seq(OrphanEntry) /\ ~HasOrphan(all, b) /\ Len(all) = Len(own) - 1
        BY <2>1, <4>1, PopAtPool DEF HasOrphan
      <4>3. PoolBounded(all)
            /\ Cardinality(FromSource(all, s)) <= Cardinality(FromSource(own, s))
        BY <2>1, <4>1, PopAtBounded
      <4>. QED BY <1>0, <2>1, <4>2, <4>3, OrphanageAssumption
               DEF PoolBounded, OrphanageAssumption
    <3>2. CASE ~(Len(own) >= MaxOrphans)
      BY <2>1, <3>2, OrphanageAssumption DEF OrphanageAssumption
    <3>. QED BY <3>1, <3>2
  <2>3. AddOrphan(q, b, s) = Append(all, e)
    BY <1>2 DEF AddOrphan, own
  <2>. HIDE DEF all, full
  <2>4. /\ Append(all, e) \in Seq(OrphanEntry)
        /\ Len(Append(all, e)) = Len(all) + 1
        /\ \A i \in 1..Len(all) : Append(all, e)[i] = all[i]
        /\ Append(all, e)[Len(all) + 1] = e
    BY <2>2, AppendProperties DEF OrphanEntry
  <2>5. ASSUME NEW t \in Peer
        PROVE  Cardinality(FromSource(Append(all, e), t)) <= MaxOrphansPerPeer
    <3>1. CASE t = s
      <4>1. FromSource(Append(all, e), t) = FromSource(all, t) \cup {Len(all) + 1}
        BY <2>2, <2>4, <3>1 DEF FromSource
      <4>2. Cardinality(FromSource(Append(all, e), t)) <= Cardinality(FromSource(all, t)) + 1
        <5>1. /\ IsFiniteSet(FromSource(all, t))
              /\ Cardinality(FromSource(all, t)) \in Nat
          BY <1>0, <2>2
        <5>2. Cardinality(FromSource(all, t) \cup {Len(all) + 1})
                 = IF Len(all) + 1 \in FromSource(all, t)
                   THEN Cardinality(FromSource(all, t))
                   ELSE Cardinality(FromSource(all, t)) + 1
          BY <5>1, FS_AddElement
        <5>3. Cardinality(FromSource(all, t) \cup {Len(all) + 1})
                 <= Cardinality(FromSource(all, t)) + 1
          BY <5>1, <5>2
        <5>. QED BY <4>1, <5>3
      <4>3. Cardinality(FromSource(Append(all, e), t)) \in Nat
        BY <1>0, <2>4
      <4>. QED BY <1>0, <2>2, <3>1, <4>2, <4>3, OrphanageAssumption DEF OrphanageAssumption
    <3>2. CASE t # s
      <4>1. FromSource(Append(all, e), t) = FromSource(all, t)
        BY <2>2, <2>4, <3>2 DEF FromSource
      <4>. QED BY <2>2, <4>1 DEF PoolBounded
    <3>. QED BY <3>1, <3>2
  <2>6. \A i, j \in 1..Len(Append(all, e)) :
           Append(all, e)[i].blk = Append(all, e)[j].blk => i = j
    BY <2>2, <2>4 DEF PoolBounded, HasOrphan
  <2>. QED BY <2>2, <2>3, <2>4, <2>5, <2>6, OrphanageAssumption
           DEF PoolBounded, OrphanageAssumption
<1>. QED BY <1>1, <1>2

-----------------------------------------------------------------------------
(* Type correctness of the handlers and of the reorganisation.             *)

\* Inputs, outputs, transactions and undo rows of a block are what the tables
\* hold.
LEMMA BlockRows ==
    ASSUME NEW b \in Block
    PROVE  /\ BlockTxs(b) \subseteq Tx
           /\ Ins(b) \subseteq Outpoint
           /\ Outs(b) \subseteq Outpoint
           /\ UndoRows(b) \subseteq Block \X Outpoint
           /\ Anc[b] \subseteq Block
<1>1. BlockTxs(b) \subseteq Tx /\ Ins(b) \subseteq Outpoint /\ Outs(b) \subseteq Outpoint
  BY BlockData
<1>2. UndoRows(b) \subseteq Block \X Outpoint
  BY <1>1 DEF UndoRows
<1>. QED BY <1>1, <1>2, TreeAssumption DEF TreeAssumption

\* The call stack stays a stack.
LEMMA StackStep ==
    ASSUME NEW stk \in Seq(Frame), NEW b \in Block
    PROVE  Accepted(stk, b) \in Seq(Frame) /\ ThenOrphans(stk, b) \in Seq(Frame)
<1>1. Accepted(stk, b) \in Seq(Frame)
  <2>1. CASE stk = <<>>
    BY <2>1 DEF Accepted
  <2>2. CASE stk # <<>>
    <3>1. Head(stk) \in Frame /\ Tail(stk) \in Seq(Frame)
      BY <2>2, HeadTailProperties
    <3>2. [Head(stk) EXCEPT !.parent = b, !.progress = TRUE] \in Frame
      BY <3>1 DEF Frame
    <3>3. <<[Head(stk) EXCEPT !.parent = b, !.progress = TRUE]>> \in Seq(Frame)
      BY <3>2
    <3>. QED BY <2>2, <3>1, <3>3, ConcatProperties DEF Accepted
  <2>. QED BY <2>1, <2>2
<1>2. <<[parent |-> b, pending |-> {}, progress |-> TRUE]>> \in Seq(Frame)
  BY DEF Frame
<1>. QED BY <1>1, <1>2, ConcatProperties DEF ThenOrphans

\* Taking a child from the list of the topmost activation.
LEMMA TakeChildStack ==
    ASSUME TypeOK, NEW p \in Peer, NEW c, calls[p] # <<>>
    PROVE  TakeChild(p, c) \in Seq(Frame)
<1>1. Top(p) \in Frame /\ Tail(calls[p]) \in Seq(Frame)
  BY HeadTailProperties DEF TypeOK, Top
<1>2. [Top(p) EXCEPT !.pending = @ \ {c}] \in Frame
  BY <1>1 DEF Frame
<1>3. <<[Top(p) EXCEPT !.pending = @ \ {c}]>> \in Seq(Frame)
  BY <1>2
<1>. QED BY <1>1, <1>3, ConcatProperties DEF TakeChild

\* The part of TypeOK about the index and its flags.
IndexTypeOK ==
    /\ indexed \subseteq Block
    /\ height \in [Block -> Nat]
    /\ chainwork \in [Block -> Nat]
    /\ txrows \subseteq Tx

\* Storing and indexing a block keeps the types.
LEMMA AddBlockType ==
    ASSUME TypeOK, NEW b \in NonGenesis, AddBlock(b)
    PROVE  IndexTypeOK' /\ WorkOf(b) \in Nat
<1>1. b \in Block /\ Parent[b] \in Block
  BY TreeAssumption DEF TreeAssumption, NonGenesis
<1>2. Work[b] \in Nat
  BY <1>1, WorkAssumption DEF WorkAssumption
<1>3. WorkOf(b) \in Nat /\ height[Parent[b]] + 1 \in Nat
  <2>1. chainwork[Parent[b]] \in Nat /\ height[Parent[b]] \in Nat
    BY <1>1 DEF TypeOK
  <2>. QED BY <1>2, <2>1 DEF WorkOf
<1>4. BlockTxs(b) \subseteq Tx
  BY <1>1, BlockRows
<1>. QED BY <1>1, <1>3, <1>4 DEF TypeOK, AddBlock, IndexTypeOK

\* on_block, whatever its outcome.
LEMMA ProcessType ==
    ASSUME TypeOK, NEW p \in Peer, NEW b \in NonGenesis,
           NEW q \in Seq(OrphanEntry), NEW stk \in Seq(Frame),
           Process(p, b, q, stk)
    PROVE  TypeOK' /\ orphans' = q
<1>1. b \in Block /\ BlockTxs(b) \subseteq Tx
  BY BlockRows DEF NonGenesis
<1>2. Accepted(stk, b) \in Seq(Frame) /\ ThenOrphans(stk, b) \in Seq(Frame)
  BY <1>1, StackStep
<1>3. CASE TipInvalid(p, b, q, stk)
  BY <1>3 DEF TipInvalid, Return, indexVars, flagVars, tipVars, reorgVars, TypeOK
<1>4. CASE SideInvalid(p, b, q, stk)
  BY <1>4 DEF SideInvalid, Return, indexVars, flagVars, tipVars, reorgVars, TypeOK
<1>5. CASE StoreFails(p, b, q)
  <2>1. StoredPrefix(b, txrows) \subseteq BlockTxs(b)
    BY DEF StoredPrefix, BlockTxs
  <2>2. txrows' \subseteq Tx
    BY <1>1, <1>5, <2>1 DEF StoreFails, TypeOK
  <2>3. calls' \in [Peer -> Seq(Frame)]
    <3>1. <<>> \in Seq(Frame)
      OBVIOUS
    <3>. QED BY <1>5, <3>1 DEF StoreFails, Return, TypeOK
  <2>. QED BY <1>5, <2>2, <2>3
           DEF StoreFails, Return, indexVars, flagVars, tipVars, reorgVars, TypeOK
<1>6. CASE ConnectTip(p, b, q, stk)
  <2>1. IndexTypeOK' /\ WorkOf(b) \in Nat
    BY <1>6, AddBlockType DEF ConnectTip
  <2>2. utxo' \subseteq Outpoint /\ undo' \subseteq Block \X Outpoint
    BY <1>1, <1>6, BlockRows DEF ConnectTip, ConnectUtxo, ConnectUndo, TypeOK
  <2>3. main' \subseteq Block /\ hidx' \subseteq Block /\ ibest' \in Block
    BY <1>1, <1>6, BlockRows DEF ConnectTip, SetBestChainTip
  <2>. QED BY <1>1, <1>2, <1>6, <2>1, <2>2, <2>3
           DEF ConnectTip, Return, reorgVars, TypeOK, IndexTypeOK
<1>7. CASE StoreFork(p, b, q, stk)
  <2>1. IndexTypeOK'
    BY <1>7, AddBlockType DEF StoreFork
  <2>. QED BY <1>2, <1>7, <2>1
           DEF StoreFork, Return, flagVars, tipVars, reorgVars, TypeOK, IndexTypeOK
<1>8. CASE TooDeep(p, b, q, stk)
  <2>1. IndexTypeOK'
    BY <1>8, AddBlockType DEF TooDeep
  <2>. QED BY <1>8, <2>1
           DEF TooDeep, Return, flagVars, tipVars, reorgVars, TypeOK, IndexTypeOK
<1>9. CASE StartPreflight(p, b, q, stk)
  <2>1. IndexTypeOK'
    BY <1>9, AddBlockType DEF StartPreflight
  <2>. QED BY <1>1, <1>9, <2>1
           DEF StartPreflight, Return, flagVars, tipVars, TypeOK, IndexTypeOK
<1>. QED BY <1>3, <1>4, <1>5, <1>6, <1>7, <1>8, <1>9 DEF Process

\* A step of handler p that retries orphans.
LEMMA HandlerType ==
    ASSUME TypeOK, NEW p \in Peer, HandlerStep(p)
    PROVE  TypeOK' /\ (PoolBounded(orphans) => PoolBounded(orphans'))
<1>1. orphans \in Seq(OrphanEntry) /\ calls \in [Peer -> Seq(Frame)]
  BY DEF TypeOK
<1>2. ASSUME NEW c \in NonGenesis, NEW n \in 0..Len(RemoveOrphan(orphans, c)),
             RetryOrphan(p, c, n)
      PROVE  TypeOK' /\ (PoolBounded(orphans) => PoolBounded(orphans'))
  <2>. DEFINE q == CleanupExpired(RemoveOrphan(orphans, c), n)
  <2>1. RemoveOrphan(orphans, c) \in Seq(OrphanEntry)
    BY <1>1, RemoveOrphanBounded
  <2>2. q \in Seq(OrphanEntry) /\ (PoolBounded(orphans) => PoolBounded(q))
    BY <1>1, <2>1, RemoveOrphanBounded, CleanupExpiredBounded
  <2>3. TakeChild(p, c) \in Seq(Frame)
    BY <1>2, TakeChildStack DEF RetryOrphan, Pending
  <2>. HIDE DEF q
  <2>4. Process(p, c, q, TakeChild(p, c))
    BY <1>2 DEF RetryOrphan, q
  <2>. QED BY <2>2, <2>3, <2>4, ProcessType
<1>3. ASSUME NEW c \in NonGenesis, RetryKnown(p, c)
      PROVE  TypeOK' /\ (PoolBounded(orphans) => PoolBounded(orphans'))
  <2>1. TakeChild(p, c) \in Seq(Frame)
    BY <1>3, TakeChildStack DEF RetryKnown, Pending
  <2>2. Accepted(TakeChild(p, c), c) \in Seq(Frame)
    BY <2>1, StackStep DEF NonGenesis
  <2>3. /\ RemoveOrphan(orphans, c) \in Seq(OrphanEntry)
        /\ PoolBounded(orphans) => PoolBounded(RemoveOrphan(orphans, c))
    BY <1>1, RemoveOrphanBounded
  <2>. QED BY <1>3, <2>2, <2>3
           DEF RetryKnown, Return, indexVars, flagVars, tipVars, reorgVars, TypeOK
<1>4. CASE OrphanLoop(p)
  <2>. DEFINE next == Children(orphans, Top(p).parent)
              top == [Top(p) EXCEPT !.pending = next, !.progress = FALSE]
  <2>1. Top(p) \in Frame /\ Tail(calls[p]) \in Seq(Frame)
    BY <1>1, <1>4, HeadTailProperties DEF OrphanLoop, Top
  <2>2. next \subseteq NonGenesis
    BY DEF Children
  <2>. HIDE DEF next
  <2>3. top \in Frame
    BY <2>1, <2>2 DEF Frame
  <2>. HIDE DEF top
  <2>4. <<top>> \in Seq(Frame)
    BY <2>3
  <2>5. <<top>> \o Tail(calls[p]) \in Seq(Frame)
    BY <2>1, <2>4, ConcatProperties
  <2>6. calls' = [calls EXCEPT ![p] = IF Top(p).progress /\ next # {}
                                      THEN <<top>> \o Tail(calls[p])
                                      ELSE Tail(calls[p])]
    BY <1>1, <1>4 DEF OrphanLoop, next, top
  <2>7. calls' \in [Peer -> Seq(Frame)]
    BY <1>1, <2>1, <2>5, <2>6
  <2>. QED BY <1>4, <2>7
           DEF OrphanLoop, indexVars, flagVars, tipVars, reorgVars, TypeOK
<1>. QED BY <1>2, <1>3, <1>4 DEF HandlerStep

\* A step of ReorgManager.
LEMMA ReorgType ==
    ASSUME TypeOK, ReorgStep
    PROVE  TypeOK' /\ UNCHANGED orphans
<1>1. CASE DisconnectStep
  <2>1. cur \in NonGenesis
    BY <1>1, TreeAssumption DEF DisconnectStep, TreeAssumption, NonGenesis, TypeOK
  <2>2. cur \in Block /\ Parent[cur] \in Block
    BY <2>1, TreeAssumption DEF TreeAssumption, NonGenesis
  <2>3. utxo' \subseteq Outpoint /\ undo' \subseteq Block \X Outpoint
    BY <1>1, <2>2, BlockRows DEF DisconnectStep, DisconnectUtxo, DisconnectUndo, TypeOK
  <2>. QED BY <1>1, <2>2, <2>3
           DEF DisconnectStep, UnmarkMain, indexVars, tipVars, reorgVars, TypeOK
<1>2. ASSUME NEW c \in NonGenesis, ConnectStep(c)
      PROVE  TypeOK' /\ UNCHANGED orphans
  <2>1. c \in Block
    BY DEF NonGenesis
  <2>2. utxo' \subseteq Outpoint /\ undo' \subseteq Block \X Outpoint
    BY <1>2, <2>1, BlockRows DEF ConnectStep, ConnectUtxo, ConnectUndo, TypeOK
  <2>. QED BY <1>2, <2>1, <2>2
           DEF ConnectStep, MarkMain, indexVars, tipVars, reorgVars, TypeOK
<1>3. CASE PreflightFails
  <2>1. Anc[best] \subseteq Block /\ Genesis \in Block
    BY BlockRows, TreeAssumption DEF TreeAssumption, TypeOK
  <2>. QED BY <1>3, <2>1
           DEF PreflightFails, RollBack, SetBestChainTip, EndJob, indexVars, tipVars, TypeOK
<1>4. CASE PreflightPasses
  <2>1. Anc[best] \subseteq Block
    BY BlockRows DEF TypeOK
  <2>. QED BY <1>4, <2>1
           DEF PreflightPasses, RollBack, SetBestChainTip, indexVars, tipVars, TypeOK
<1>5. CASE ReorgFails
  <2>1. Anc[best] \subseteq Block /\ Genesis \in Block
    BY BlockRows, TreeAssumption DEF TreeAssumption, TypeOK
  <2>. QED BY <1>5, <2>1
           DEF ReorgFails, SetBestChainTip, EndJob, indexVars, tipVars, TypeOK
<1>6. CASE ReorgSucceeds
  <2>1. Anc[cand] \subseteq Block /\ Genesis \in Block
    BY BlockRows, TreeAssumption DEF TreeAssumption, TypeOK
  <2>2. \A p \in Peer : ThenOrphans(calls[p], cand) \in Seq(Frame)
    BY StackStep DEF TypeOK
  <2>3. calls' \in [Peer -> Seq(Frame)]
    BY <1>6, <2>2 DEF ReorgSucceeds, TypeOK
  <2>. QED BY <1>6, <2>1, <2>3
           DEF ReorgSucceeds, SetBestChainTip, EndJob, indexVars, TypeOK
<1>. QED BY <1>1, <1>2, <1>3, <1>4, <1>5, <1>6 DEF ReorgStep

-----------------------------------------------------------------------------
\* The type invariant and the limits of the orphanage hold together: how
\* AddOrphan makes room depends on the pool being one.
LEMMA TypeStep ==
    ASSUME TypeOK, OrphanageBounded, [Next]_vars
    PROVE  TypeOK' /\ OrphanageBounded'
<1>. USE DEF OrphanageBounded
<1>1. orphans \in Seq(OrphanEntry) /\ calls \in [Peer -> Seq(Frame)]
  BY DEF TypeOK
<1>2. ASSUME NEW p \in Peer, NEW b \in NonGenesis, NEW n \in 0..Len(orphans),
             DeliverBlock(p, b, n) \/ DeliverOrphan(p, b, n)
      PROVE  TypeOK' /\ OrphanageBounded'
  <2>. DEFINE q == CleanupExpired(orphans, n)
  <2>1. q \in Seq(OrphanEntry) /\ PoolBounded(q)
    BY <1>1, CleanupExpiredBounded
  <2>. HIDE DEF q
  <2>2. CASE DeliverBlock(p, b, n)
    <3>1. Process(p, b, q, <<>>)
      BY <2>2 DEF DeliverBlock, q
    <3>2. <<>> \in Seq(Frame)
      OBVIOUS
    <3>. QED BY <2>1, <3>1, <3>2, ProcessType
  <2>3. CASE DeliverOrphan(p, b, n)
    <3>1. orphans' = AddOrphan(q, b, p)
      BY <2>3 DEF DeliverOrphan, q
    <3>2. orphans' \in Seq(OrphanEntry) /\ PoolBounded(orphans')
      BY <2>1, <3>1, AddOrphanBounded
    <3>. QED BY <2>3, <3>2
             DEF DeliverOrphan, indexVars, flagVars, tipVars, reorgVars, TypeOK
  <2>. QED BY <1>2, <2>2, <2>3
<1>3. ASSUME NEW p \in Peer, HandlerStep(p)
      PROVE  TypeOK' /\ OrphanageBounded'
  BY <1>3, HandlerType
<1>4. CASE ReorgStep
  BY <1>4, ReorgType
<1>5. CASE Restart
  <2>1. /\ Genesis \in Block /\ Anc[Genesis] \subseteq Block
        /\ BlockTxs(Genesis) \subseteq Tx
    BY BlockRows, TreeAssumption DEF TreeAssumption
  <2>2. PoolBounded(<<>>)
    BY FS_EmptySet, OrphanageAssumption DEF PoolBounded, FromSource, OrphanageAssumption
  <2>. QED BY <1>5, <2>1, <2>2 DEF Restart, SetBestChainTip, EndJob, TypeOK
<1>6. CASE UNCHANGED vars
  BY <1>6 DEF vars, indexVars, flagVars, tipVars, reorgVars, TypeOK
<1>. QED BY <1>2, <1>3, <1>4, <1>5, <1>6 DEF Next

\* The initial state is typed and its orphanage is empty.
LEMMA TypeInit ==
    ASSUME Init
    PROVE  TypeOK /\ OrphanageBounded
<1>1. Genesis \in Block /\ BlockTxs(Genesis) \subseteq Tx
  BY BlockRows, TreeAssumption DEF TreeAssumption
<1>2. PoolBounded(<<>>)
  BY FS_EmptySet, OrphanageAssumption DEF PoolBounded, FromSource, OrphanageAssumption
<1>. QED BY <1>1, <1>2 DEF Init, NoJob, TypeOK, OrphanageBounded

\* Every variable of the pipeline keeps its type.
THEOREM TypeCorrect == Spec => []TypeOK
<1>. QED BY TypeInit, TypeStep, PTL DEF Spec

\* The orphanage keeps within max_orphans and max_orphans_per_peer and holds
\* no block twice, whatever the interleaving of deliveries, retries, expiry
\* and reorganisations, whether or not block data can be read.
THEOREM OrphanageAlwaysBounded == Spec => []OrphanageBounded
<1>. QED BY TypeInit, TypeStep, PTL DEF Spec
=============================================================================
