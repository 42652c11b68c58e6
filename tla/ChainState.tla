----------------------------- MODULE ChainState ------------------------------
(***************************************************************************)
(* The block acceptance pipeline: BerzCoinNode.on_block with the block     *)
(* index, the utxo/undo/transactions tables, the orphanage retry loop and  *)
(* ReorgManager.                                                           *)
(*                                                                         *)
(* All handlers run on one event loop.  on_block does not await between    *)
(* its first check and set_best_block, so the chain section of one handler *)
(* excludes the others: while phase # "idle" only its owner moves.  Once   *)
(* the tip has moved the handler awaits (mempool, relay) and other         *)
(* handlers may run before it retries the orphans: calls[p] is the stack   *)
(* of _process_orphan_children activations of handler p.                   *)
(***************************************************************************)
EXTENDS Orphanage

CONSTANTS
    MaxReorgDepth,  \* config max_reorg_depth
    ReadsMayFail    \* may blocks_store.read_block_by_hash return None?

ASSUME ChainStateAssumption ==
    /\ MaxReorgDepth \in Nat
    /\ ReadsMayFail \in BOOLEAN

VARIABLES
    indexed,    \* keys of BlockIndex._index
    height,     \* entry.height
    chainwork,  \* entry.chainwork
    main,       \* entries flagged MAIN_CHAIN
    hidx,       \* values of BlockIndex._height_index
    ibest,      \* BlockIndex._best_hash
    best,       \* ChainState._best_hash
    bestwork,   \* ChainState._best_chainwork
    utxo,       \* rows of table utxo
    undo,       \* rows of table block_undo: <<block, restored outpoint>>
    txrows,     \* primary keys of table transactions
    orphans,    \* the orphanage
    calls,      \* per handler, the activations of _process_orphan_children
    phase,      \* "idle", "preflight" (can_reorganize) or "reorg"
    owner,      \* handler running the reorg
    cand,       \* candidate_best of that reorg
    cur,        \* block the reorg walk has reached; best when idle
    saved       \* the tables at SAVEPOINT reorg_preflight

indexVars == <<indexed, height, chainwork>>
flagVars == <<main, hidx, ibest>>
tipVars == <<best, bestwork>>
reorgVars == <<phase, owner, cand, saved>>
vars == <<indexVars, flagVars, tipVars, utxo, undo, txrows, orphans, calls,
          reorgVars, cur>>

Frame == [parent : Block, pending : SUBSET NonGenesis, progress : BOOLEAN]

\* Nothing interrupted: no handler is inside a reorganisation.
Idle == phase = "idle"

NoJob ==
    /\ phase = "idle"
    /\ owner = NoPeer
    /\ cand = Genesis
    /\ saved = [utxo |-> {}, undo |-> {}]

\* An empty data directory: ChainState.initialize imports the genesis block
\* as best, writing its transaction rows but no utxo rows.
Init ==
    /\ indexed = {Genesis}
    /\ height = [b \in Block |-> 0]
    /\ chainwork = [b \in Block |-> 0]
    /\ main = {Genesis}
    /\ hidx = {Genesis}
    /\ ibest = Genesis
    /\ best = Genesis
    /\ bestwork = 0
    /\ utxo = {}
    /\ undo = {}
    /\ txrows = BlockTxs(Genesis)
    /\ orphans = <<>>
    /\ calls = [p \in Peer |-> <<>>]
    /\ cur = Genesis
    /\ NoJob

-----------------------------------------------------------------------------
(* Tables: ConnectBlock.connect and DisconnectBlock.disconnect.            *)

\* Fault: the columns of block_undo swapped.
UndoRowsSwapped(b) == {<<o, b>> : o \in Ins(b)}

UndoRows(b) == {<<b, o>> : o \in Ins(b)}

ConnectUtxo(b, u) == (u \ Ins(b)) \cup Outs(b)

ConnectUndo(b, d) == {r \in d : r[1] # b} \cup UndoRows(b)

\* Fault: disconnect restores the inputs and forgets remove_utxo.
DisconnectUtxoKeeps(b, u) == u \cup Ins(b)

DisconnectUtxo(b, u) == (u \cup Ins(b)) \ Outs(b)

\* Fault: disconnect does not delete the undo rows.
DisconnectUndoKeeps(b, d) == d

DisconnectUndo(b, d) == {r \in d : r[1] # b}

\* disconnect fails when an input has no undo row.  The rows of a block are
\* written and deleted together, so it fails before it changes anything.
CanDisconnect(b, d) == UndoRows(b) \subseteq d

-----------------------------------------------------------------------------
(* Block index.                                                            *)

\* write_block, add_block(update_best=False) and add_header of an accepted
\* block.
WorkOf(b) == chainwork[Parent[b]] + Work[b]

AddBlock(b) ==
    /\ indexed' = indexed \cup {b}
    /\ height' = [height EXCEPT ![b] = height[Parent[b]] + 1]
    /\ chainwork' = [chainwork EXCEPT ![b] = WorkOf(b)]
    /\ txrows' = txrows \cup BlockTxs(b)

\* set_best_chain_tip: _rebuild_main_chain_height_index walks the parents.
SetBestChainTip(b) ==
    /\ ibest' = b
    /\ main' = Anc[b]
    /\ hidx' = Anc[b]

\* mark_main_chain(b, True): the height index keeps one block per height.
MarkMain(b) ==
    /\ main' = main \cup {b}
    /\ hidx' = {c \in hidx : height[c] # height[b]} \cup {b}
    /\ UNCHANGED ibest

\* mark_main_chain(b, False)
UnmarkMain(b) ==
    /\ main' = main \ {b}
    /\ hidx' = hidx \ {b}
    /\ UNCHANGED ibest

-----------------------------------------------------------------------------
(* Validation.                                                             *)

\* on_block: the block extends the tip.
ExtendsTip(b) == Parent[b] = best

\* Fault: ties go to the newcomer.
HeavierOrEqual(b) == WorkOf(b) >= bestwork

\* Fault: the comparison is off by one.
HeavierByTwo(b) == WorkOf(b) > bestwork + 1

\* on_block: chainwork_total > get_best_chainwork()
Heavier(b) == WorkOf(b) > bestwork

\* can_reorganize, reorganize: the depth of the branch to disconnect.
DepthOK(b) ==
    height[best] - height[ForkPoint(b, best)] <= MaxReorgDepth

-----------------------------------------------------------------------------
(* The call stack of a handler.                                            *)

\* The caller's loop learns that its child was accepted.
Accepted(stk, b) ==
    IF stk = <<>>
    THEN <<>>
    ELSE <<[Head(stk) EXCEPT !.parent = b, !.progress = TRUE]>> \o Tail(stk)

\* on_block goes on to _process_orphan_children(b).
ThenOrphans(stk, b) ==
    <<[parent |-> b, pending |-> {}, progress |-> TRUE]>> \o Accepted(stk, b)

Return(p, q, stk) ==
    /\ orphans' = q
    /\ calls' = [calls EXCEPT ![p] = stk]

-----------------------------------------------------------------------------
(* on_block of a block that is not indexed and whose parent is.  q is the  *)
(* orphanage after cleanup_expired, stk the stack on_block was called on.  *)

TipInvalid(p, b, q, stk) ==
    /\ ExtendsTip(b)
    /\ ~StatefulOK(b, utxo)
    /\ Return(p, q, stk)
    /\ UNCHANGED <<indexVars, flagVars, tipVars, utxo, undo, txrows, reorgVars, cur>>

SideInvalid(p, b, q, stk) ==
    /\ ~ExtendsTip(b)
    /\ ~SideOK(b, txrows)
    /\ Return(p, q, stk)
    /\ UNCHANGED <<indexVars, flagVars, tipVars, utxo, undo, txrows, reorgVars, cur>>

Validated(b) == IF ExtendsTip(b) THEN StatefulOK(b, utxo) ELSE SideOK(b, txrows)

\* write_block raises StorageError, which leaves every activation of the
\* handler: on_p2p_message logs it.
StoreFails(p, b, q) ==
    /\ Validated(b)
    /\ ~StoreOK(b, txrows)
    /\ txrows' = txrows \cup StoredPrefix(b, txrows)
    /\ Return(p, q, <<>>)
    /\ UNCHANGED <<indexVars, flagVars, tipVars, utxo, undo, reorgVars, cur>>

\* _connect_as_new_tip and set_best_block
ConnectTip(p, b, q, stk) ==
    /\ ExtendsTip(b)
    /\ StatefulOK(b, utxo)
    /\ StoreOK(b, txrows)
    /\ AddBlock(b)
    /\ utxo' = ConnectUtxo(b, utxo)
    /\ undo' = ConnectUndo(b, undo)
    /\ cur' = b
    /\ best' = b
    /\ bestwork' = WorkOf(b)
    /\ SetBestChainTip(b)
    /\ Return(p, q, ThenOrphans(stk, b))
    /\ UNCHANGED reorgVars

\* A side branch that is not heavier: stored_fork, accepted, no retry of
\* the orphans that wait for it.
StoreFork(p, b, q, stk) ==
    /\ ~ExtendsTip(b)
    /\ SideOK(b, txrows)
    /\ StoreOK(b, txrows)
    /\ ~Heavier(b)
    /\ AddBlock(b)
    /\ Return(p, q, Accepted(stk, b))
    /\ UNCHANGED <<flagVars, tipVars, utxo, undo, reorgVars, cur>>

\* A heavier branch forking too deep: reorg_preflight_failed.
TooDeep(p, b, q, stk) ==
    /\ ~ExtendsTip(b)
    /\ SideOK(b, txrows)
    /\ StoreOK(b, txrows)
    /\ Heavier(b)
    /\ ~DepthOK(b)
    /\ AddBlock(b)
    /\ Return(p, q, stk)
    /\ UNCHANGED <<flagVars, tipVars, utxo, undo, reorgVars, cur>>

\* can_reorganize opens its savepoint.
StartPreflight(p, b, q, stk) ==
    /\ ~ExtendsTip(b)
    /\ SideOK(b, txrows)
    /\ StoreOK(b, txrows)
    /\ Heavier(b)
    /\ DepthOK(b)
    /\ AddBlock(b)
    /\ Return(p, q, stk)
    /\ phase' = "preflight"
    /\ owner' = p
    /\ cand' = b
    /\ saved' = [utxo |-> utxo, undo |-> undo]
    /\ UNCHANGED <<flagVars, tipVars, utxo, undo, cur>>

Process(p, b, q, stk) ==
    /\ b \notin indexed
    /\ Parent[b] \in indexed
    /\ \/ TipInvalid(p, b, q, stk)
       \/ SideInvalid(p, b, q, stk)
       \/ StoreFails(p, b, q)
       \/ ConnectTip(p, b, q, stk)
       \/ StoreFork(p, b, q, stk)
       \/ TooDeep(p, b, q, stk)
       \/ StartPreflight(p, b, q, stk)

-----------------------------------------------------------------------------
(* Handlers.                                                               *)

\* on_block(b, source_peer=p), from a block message of peer p
DeliverBlock(p, b, n) ==
    /\ Idle
    /\ calls[p] = <<>>
    /\ Process(p, b, CleanupExpired(orphans, n), <<>>)

\* on_block of a block without an indexed parent
DeliverOrphan(p, b, n) ==
    /\ Idle
    /\ calls[p] = <<>>
    /\ b \notin indexed
    /\ Parent[b] \notin indexed
    /\ orphans' = AddOrphan(CleanupExpired(orphans, n), b, p)
    /\ UNCHANGED <<indexVars, flagVars, tipVars, utxo, undo, txrows, calls,
                   reorgVars, cur>>

Top(p) == Head(calls[p])

Pending(p, c) ==
    /\ Idle
    /\ calls[p] # <<>>
    /\ c \in Top(p).pending

\* Fault: the loop does not advance past the child.
TakeNoChild(p, c) == calls[p]

\* The stack once the loop has taken child c from its list.
TakeChild(p, c) ==
    <<[Top(p) EXCEPT !.pending = @ \ {c}]>> \o Tail(calls[p])

\* One turn of the for loop of _process_orphan_children: the child leaves
\* the orphanage and goes through on_block without a source.
RetryOrphan(p, c, n) ==
    /\ Pending(p, c)
    /\ Process(p, c, CleanupExpired(RemoveOrphan(orphans, c), n), TakeChild(p, c))

\* The same turn for a child another handler has delivered meanwhile.
RetryKnown(p, c) ==
    /\ Pending(p, c)
    /\ c \in indexed
    /\ Return(p, RemoveOrphan(orphans, c), Accepted(TakeChild(p, c), c))
    /\ UNCHANGED <<indexVars, flagVars, tipVars, utxo, undo, txrows, reorgVars, cur>>

\* The head of the while loop: get_children of the last accepted block, or
\* return when there is none or no child was accepted.
OrphanLoop(p) ==
    /\ Idle
    /\ calls[p] # <<>>
    /\ Top(p).pending = {}
    /\ LET next == Children(orphans, Top(p).parent)
       IN  calls' = [calls EXCEPT ![p] =
               IF Top(p).progress /\ next # {}
               THEN <<[Top(p) EXCEPT !.pending = next, !.progress = FALSE]>> \o Tail(@)
               ELSE Tail(@)]
    /\ UNCHANGED <<indexVars, flagVars, tipVars, utxo, undo, txrows, orphans,
                   reorgVars, cur>>

-----------------------------------------------------------------------------
(* ReorgManager: can_reorganize runs the disconnects and connects inside a *)
(* savepoint and rolls them back; reorganize runs them for good.           *)

Moving == phase \in {"preflight", "reorg"}

\* Next block of disconnect_entries, tip to fork.
DisconnectStep ==
    /\ Moving
    /\ cur \notin Anc[cand]
    /\ CanDisconnect(cur, undo)
    /\ utxo' = DisconnectUtxo(cur, utxo)
    /\ undo' = DisconnectUndo(cur, undo)
    /\ cur' = Parent[cur]
    /\ UnmarkMain(cur)
    /\ UNCHANGED <<indexVars, tipVars, txrows, orphans, calls, reorgVars>>

\* The next block of connect_entries, fork to candidate.
NextConnect(c) ==
    /\ cur \in Anc[cand]
    /\ c \in Anc[cand] \ {Genesis}
    /\ Parent[c] = cur

\* Fault: reorganize connects without validate_block.
ConnectUnchecked(c) ==
    /\ Moving
    /\ NextConnect(c)
    /\ utxo' = ConnectUtxo(c, utxo)
    /\ undo' = ConnectUndo(c, undo)
    /\ cur' = c
    /\ MarkMain(c)
    /\ UNCHANGED <<indexVars, tipVars, txrows, orphans, calls, reorgVars>>

ConnectStep(c) ==
    /\ Moving
    /\ NextConnect(c)
    /\ StatefulOK(c, utxo)
    /\ utxo' = ConnectUtxo(c, utxo)
    /\ undo' = ConnectUndo(c, undo)
    /\ cur' = c
    /\ MarkMain(c)
    /\ UNCHANGED <<indexVars, tipVars, txrows, orphans, calls, reorgVars>>

\* A step of the walk cannot be made: undo rows are missing, a block fails
\* validation, or its data cannot be read back.
StepFails ==
    /\ cur # cand
    /\ \/ ReadsMayFail
       \/ cur \notin Anc[cand] /\ ~CanDisconnect(cur, undo)
       \/ \E c \in NonGenesis : NextConnect(c) /\ ~StatefulOK(c, utxo)

EndJob ==
    /\ phase' = "idle"
    /\ owner' = NoPeer
    /\ cand' = Genesis
    /\ saved' = [utxo |-> {}, undo |-> {}]

\* Faults: the index, the block_undo table or the utxo table does not go
\* back.
RollBackTables ==
    /\ utxo' = saved.utxo
    /\ undo' = saved.undo
    /\ cur' = best
    /\ UNCHANGED flagVars

RollBackUtxo ==
    /\ utxo' = saved.utxo
    /\ undo' = undo
    /\ cur' = best
    /\ SetBestChainTip(best)

RollBackIndex ==
    /\ utxo' = utxo
    /\ undo' = undo
    /\ cur' = best
    /\ SetBestChainTip(best)

\* ROLLBACK TO SAVEPOINT, _restore_statuses, set_best_chain_tip(original)
RollBack ==
    /\ utxo' = saved.utxo
    /\ undo' = saved.undo
    /\ cur' = best
    /\ SetBestChainTip(best)

PreflightFails ==
    /\ phase = "preflight"
    /\ StepFails
    /\ RollBack
    /\ EndJob
    /\ UNCHANGED <<indexVars, tipVars, txrows, orphans, calls>>

PreflightPasses ==
    /\ phase = "preflight"
    /\ cur = cand
    /\ RollBack
    /\ phase' = "reorg"
    /\ UNCHANGED <<indexVars, tipVars, txrows, orphans, calls, owner, cand, saved>>

\* Fault: the except clause forgets the index.
ReorgFailsBare ==
    /\ phase = "reorg"
    /\ StepFails
    /\ cur' = best
    /\ EndJob
    /\ UNCHANGED <<indexVars, flagVars, tipVars, utxo, undo, txrows, orphans, calls>>

\* reorganize's except clause: the statuses and the index tip go back; the
\* tables do not, because the transaction was open before reorganize and
\* Database.transaction leaves it to whoever began it.
ReorgFails ==
    /\ phase = "reorg"
    /\ StepFails
    /\ SetBestChainTip(best)
    /\ cur' = best
    /\ EndJob
    /\ UNCHANGED <<indexVars, tipVars, utxo, undo, txrows, orphans, calls>>

\* set_best_chain_tip, then set_best_block; on_block continues with the
\* orphans of the candidate.
ReorgSucceeds ==
    /\ phase = "reorg"
    /\ cur = cand
    /\ SetBestChainTip(cand)
    /\ best' = cand
    /\ bestwork' = chainwork[cand]
    /\ calls' = [calls EXCEPT ![owner] = ThenOrphans(@, cand)]
    /\ EndJob
    /\ UNCHANGED <<indexVars, utxo, undo, txrows, orphans, cur>>

-----------------------------------------------------------------------------
\* The process stops or crashes and starts again.  No statement of a run is
\* ever committed: the INSERT that records a migration opens a transaction that
\* Database.transaction then takes for its caller's.  The node comes back as
\* Init found it.
Restart ==
    /\ indexed' = {Genesis}
    /\ height' = [b \in Block |-> 0]
    /\ chainwork' = [b \in Block |-> 0]
    /\ SetBestChainTip(Genesis)
    /\ best' = Genesis
    /\ bestwork' = 0
    /\ utxo' = {}
    /\ undo' = {}
    /\ txrows' = BlockTxs(Genesis)
    /\ orphans' = <<>>
    /\ calls' = [p \in Peer |-> <<>>]
    /\ cur' = Genesis
    /\ EndJob

\* The steps of handler p that finish what it has begun.
HandlerStep(p) ==
    \/ \E c \in NonGenesis : \E n \in 0..Len(RemoveOrphan(orphans, c)) :
          RetryOrphan(p, c, n)
    \/ \E c \in NonGenesis : RetryKnown(p, c)
    \/ OrphanLoop(p)

ReorgStep ==
    \/ DisconnectStep
    \/ \E c \in NonGenesis : ConnectStep(c)
    \/ PreflightFails
    \/ PreflightPasses
    \/ ReorgFails
    \/ ReorgSucceeds

Next ==
    \/ \E p \in Peer, b \in NonGenesis : \E n \in 0..Len(orphans) :
          DeliverBlock(p, b, n) \/ DeliverOrphan(p, b, n)
    \/ \E p \in Peer : HandlerStep(p)
    \/ ReorgStep
    \/ Restart

Spec == Init /\ [][Next]_vars

\* asyncio runs every ready task: a handler that has begun goes on.
Fairness ==
    /\ WF_vars(ReorgStep)
    /\ \A p \in Peer : WF_vars(HandlerStep(p))

FairSpec == Spec /\ Fairness
-----------------------------------------------------------------------------
(* Properties.                                                             *)

TypeOK ==
    /\ indexed \subseteq Block
    /\ height \in [Block -> Nat]
    /\ chainwork \in [Block -> Nat]
    /\ main \subseteq Block
    /\ hidx \subseteq Block
    /\ ibest \in Block
    /\ best \in Block
    /\ bestwork \in Nat
    /\ utxo \subseteq Outpoint
    /\ undo \subseteq Block \X Outpoint
    /\ txrows \subseteq Tx
    /\ orphans \in Seq(OrphanEntry)
    /\ calls \in [Peer -> Seq(Frame)]
    /\ phase \in {"idle", "preflight", "reorg"}
    /\ owner \in Peer \cup {NoPeer}
    /\ cand \in Block
    /\ cur \in Block
    /\ saved \in [utxo : SUBSET Outpoint, undo : SUBSET (Block \X Outpoint)]

\* Whenever a handler may run, the utxo table holds exactly what the branch
\* of the best block leaves unspent, whatever sequence of connects,
\* preflights, rollbacks and reorganisations led there.
UtxoMatchesActiveChain == Idle => utxo = UtxoOf(best)

\* The active branch passes full validation block by block, though side
\* blocks enter the index on ConsensusRules alone.
ActiveChainValid == ValidBranch(best)

\* The three records of the active chain agree between handlers: MAIN_CHAIN
\* flags, height index and the two best pointers.
IndexMatchesTip ==
    Idle => /\ ibest = best
            /\ main = Anc[best]
            /\ hidx = Anc[best]
            /\ bestwork = chainwork[best]

\* The undo rows of the blocks of a branch.
BranchUndo(b) == UNION {UndoRows(a) : a \in Anc[b] \ {Genesis}}

\* Every block of the active chain can be disconnected, and no undo row of
\* another block lingers.
UndoCoversActiveChain ==
    Idle => undo = BranchUndo(best)

\* can_reorganize is conclusive: once a candidate has passed it, no step of
\* reorganize can fail (with block data readable), so the except clause that
\* cannot undo the tables is never needed.
PreflightConclusive == phase = "reorg" => ~StepFails

\* No indexed branch that is valid, and shallow enough to reorganise to,
\* has more work than the active one once no handler is at work on it.
BestIsHeaviest ==
    Idle => \A b \in indexed :
        ValidBranch(b) /\ chainwork[b] > bestwork => ~DepthOK(b)

\* The orphanage never outgrows its two limits and holds a block once.
OrphanageBounded == PoolBounded(orphans)

\* The tip moves only to a branch with strictly more work, except when the
\* process restarts.
TipGainsWork ==
    [][best' # best => bestwork' > bestwork \/ Restart]_vars

\* Every handler that has begun to retry orphans comes to its end, and so
\* does every reorganisation.
HandlersFinish ==
    /\ \A p \in Peer : calls[p] # <<>> ~> calls[p] = <<>>
    /\ phase # "idle" ~> phase = "idle"

\* The pipeline implements ForkChoice: while a reorganisation is under way
\* the ledger is still the one of the savepoint.
Choice == INSTANCE ForkChoice WITH
    tip <- best,
    ledger <- IF Idle THEN utxo ELSE saved.utxo

RefinesForkChoice == Choice!ChoiceSpec
=============================================================================
