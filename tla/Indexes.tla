------------------------------ MODULE Indexes ------------------------------
(* The optional transaction and address indexes: what connecting a block and *)
(* a reorganisation do to their tables and to their two caches.  The chain   *)
(* itself is abstracted to its tip, which moves to a child or to a heavier   *)
(* valid branch (ChainState shows how).                                      *)
EXTENDS BlockTree, SequencesExt, FiniteSetsExt

CONSTANTS Holder,        \* addresses
          HolderOf,      \* _extract_address of each output's script
          AmountOf,      \* the value of each output
          Delivered,     \* blocks that may become part of the chain
          CacheSize      \* _cache_size of both indexes

\* Every output has an owner and a value.  No two blocks of a branch hold the
\* same transaction: the rows of the block store keep them apart (ChainState).
ASSUME IndexAssumption ==
    /\ IsFiniteSet(Block) /\ IsFiniteSet(Tx) /\ IsFiniteSet(Outpoint)
    /\ HolderOf \in [Outpoint -> Holder] /\ AmountOf \in [Outpoint -> Nat]
    /\ Delivered \subseteq NonGenesis /\ CacheSize \in Nat
    /\ \A b \in Block : \A x, y \in Anc[b] \ {Genesis} :
          x # y => BlockTxs(x) \cap BlockTxs(y) = {}

VARIABLES chainTip,
          txIndex,       \* tx_index: the block that each indexed txid is in
          txInputs,      \* tx_inputs: spender and spent outpoint
          txOutputs,     \* tx_outputs: the spent flag of each outpoint
          addressTxs,    \* address_txs: address, transaction, side and outpoint
          balances,      \* address_balance
          txCache,       \* TransactionIndex._cache: txid and answer, oldest first
          infoCache      \* AddressIndex._cache: address and answer, oldest first

indexTables == <<txIndex, txInputs, txOutputs, addressTxs, balances>>
indexVars == <<chainTip, indexTables, txCache, infoCache>>

\* The tables as one value: indexing and de-indexing thread it through the
\* blocks of a reorganisation.
Tables == [idx |-> txIndex, ins |-> txInputs, outs |-> txOutputs,
           rows |-> addressTxs, bal |-> balances, txc |-> txCache, adc |-> infoCache]

IndexInit ==
    /\ chainTip = Genesis
    /\ txIndex = << >> /\ txInputs = {} /\ txOutputs = << >>
    /\ addressTxs = {} /\ balances = [a \in Holder |-> 0]
    /\ txCache = <<>> /\ infoCache = <<>>

-----------------------------------------------------------------------------
(* Caches: insertion order, the oldest entry leaves                          *)

Forget(cache, keys) ==
    FoldLeft(LAMBDA kept, e : IF e.key \in keys THEN kept ELSE Append(kept, e), <<>>, cache)

Remember(cache, key, answer) ==
    LET present == \E i \in 1..Len(cache) : cache[i].key = key
        longer  == IF present
                   THEN [i \in 1..Len(cache) |->
                           IF cache[i].key = key THEN [key |-> key, is |-> answer] ELSE cache[i]]
                   ELSE Append(cache, [key |-> key, is |-> answer])
    IN  IF Len(longer) > CacheSize THEN Tail(longer) ELSE longer

-----------------------------------------------------------------------------
(* _index_connected_block                                                    *)

Restrict1(f, S) == [x \in DOMAIN f \cap S |-> f[x]]
Put(f, x, v) == [y \in DOMAIN f \cup {x} |-> IF y = x THEN v ELSE f[y]]
PutAll(f, S, v) == [y \in DOMAIN f \cup S |-> IF y \in S THEN v ELSE f[y]]

\* TransactionIndex.index_transaction: INSERT OR REPLACE in three tables,
\* which leaves a replaced output unspent.
IndexTransaction(T, t, b) ==
    [T EXCEPT !.idx = Put(@, t, b),
              !.ins = @ \cup {<<t, o>> : o \in TxIn[t]},
              !.outs = PutAll(@, TxOut[t], FALSE),
              !.txc = Remember(@, t, b)]

Amount(S) == MapThenSumSet(LAMBDA o : AmountOf[o], S)
Of(a, S) == {o \in S : HolderOf[o] = a}

\* AddressIndex.index_address and _update_balance for the outpoints S, which
\* are the outputs or the inputs of t: the rows are replaced, the balances
\* move every time.
IndexAddresses(T, t, S, isInput) ==
    [T EXCEPT !.rows = @ \cup {<<HolderOf[o], t, isInput, o>> : o \in S},
              !.bal = [a \in Holder |-> IF isInput THEN @[a] - Amount(Of(a, S))
                                                   ELSE @[a] + Amount(Of(a, S))],
              !.adc = Forget(@, {HolderOf[o] : o \in S})]

IndexOutputs(T, t) == IndexAddresses(T, t, TxOut[t], FALSE)

\* mark_output_spent, then the address rows of the spent outputs that are indexed.
IndexInputs(T, t) ==
    LET found == TxIn[t] \cap DOMAIN T.outs
    IN  IndexAddresses([T EXCEPT !.outs = PutAll(@, found, TRUE)], t, found, TRUE)

IndexBlock(T, b) ==
    FoldLeft(LAMBDA S, t : IndexInputs(IndexOutputs(IndexTransaction(S, t, b), t), t),
             T, TxSeq[b])

-----------------------------------------------------------------------------
(* _deindex_disconnected_block and rebuild_from_tx_index                     *)

Unspent(outs, S) == [o \in DOMAIN outs |-> IF o \in S THEN FALSE ELSE outs[o]]

DeindexTransaction(T, t) ==
    [T EXCEPT !.idx = Restrict1(@, Tx \ {t}),
              !.ins = {r \in @ : r[1] # t},
              !.outs = Restrict1(Unspent(@, {r[2] : r \in {x \in T.ins : x[1] = t}}),
                                 Outpoint \ TxOut[t]),
              !.txc = Forget(@, {t})]

DeindexBlock(T, b) == FoldLeft(DeindexTransaction, T, TxSeq[b])

RowsOf(T) ==
    {<<HolderOf[o], CHOOSE t \in DOMAIN T.idx : o \in TxOut[t], FALSE, o>> :
        o \in {p \in DOMAIN T.outs : \E t \in DOMAIN T.idx : p \in TxOut[t]}}
    \cup {<<HolderOf[r[2]], r[1], TRUE, r[2]>> :
            r \in {x \in T.ins : x[1] \in DOMAIN T.idx /\ x[2] \in DOMAIN T.outs}}

SumRows(rows) ==
    MapThenSumSet(LAMBDA r : AmountOf[r[4]], {r \in rows : ~r[3]})
    - MapThenSumSet(LAMBDA r : AmountOf[r[4]], {r \in rows : r[3]})

Rebuild(T) ==
    [T EXCEPT !.rows = RowsOf(T),
              !.bal = [a \in Holder |-> SumRows({r \in RowsOf(T) : r[1] = a})],
              !.adc = <<>>]

-----------------------------------------------------------------------------
(* The blocks of a branch above another, oldest first                        *)

Above(b, a) ==
    LET new == Anc[b] \ Anc[a]
    IN  CHOOSE q \in [1..Cardinality(new) -> new] : \A i, j \in 1..Cardinality(new) :
            i < j => Cardinality(Anc[q[i]]) < Cardinality(Anc[q[j]])

FaultReconcile(T, from, to) ==
    FoldLeft(IndexBlock, FoldLeft(DeindexBlock, T, Reverse(Above(from, to))), Above(to, from))

\* _reconcile_indexes_after_reorg; reorganize reports the disconnected blocks
\* from the old tip down.
Reconcile(T, from, to) ==
    Rebuild(FoldLeft(IndexBlock,
                     FoldLeft(DeindexBlock, T, Reverse(Above(from, to))),
                     Above(to, from)))

Become(T) ==
    /\ txIndex' = T.idx /\ txInputs' = T.ins /\ txOutputs' = T.outs
    /\ addressTxs' = T.rows /\ balances' = T.bal
    /\ txCache' = T.txc /\ infoCache' = T.adc

ExtendChain(b) ==
    /\ Parent[b] = chainTip /\ StatefulOK(b, UtxoOf(chainTip))
    /\ chainTip' = b /\ Become(IndexBlock(Tables, b))

SwitchBranch(b) ==
    /\ chainTip \notin Anc[b] /\ TotalWork[b] > TotalWork[chainTip]
    /\ ValidBranch(b)
    /\ chainTip' = b /\ Become(Reconcile(Tables, chainTip, b))

-----------------------------------------------------------------------------
(* Queries, through the caches                                               *)

Cached(cache, key) == \E i \in 1..Len(cache) : cache[i].key = key

GetTransaction(t) ==
    /\ t \in DOMAIN txIndex /\ ~Cached(txCache, t)
    /\ txCache' = Remember(txCache, t, txIndex[t])
    /\ UNCHANGED <<chainTip, indexTables, infoCache>>

GetAddressInfo(a) ==
    /\ ~Cached(infoCache, a)
    /\ infoCache' = Remember(infoCache, a,
                       <<balances[a], Cardinality({r \in addressTxs : r[1] = a})>>)
    /\ UNCHANGED <<chainTip, indexTables, txCache>>

\* get_unspent_outputs, get_address_utxos: unspent by the flag and by the
\* tx_inputs table.
UnspentOutputs(a) ==
    {o \in DOMAIN txOutputs : /\ HolderOf[o] = a /\ ~txOutputs[o]
                              /\ \A r \in txInputs : r[2] # o}

\* get_address_history: the running balance just before the rows of a
\* transaction, and the least it can be while they are listed.
RankOf(t) == LET b == txIndex[t]
             IN  <<Cardinality(Anc[b]), CHOOSE i \in 1..Len(TxSeq[b]) : TxSeq[b][i] = t>>
Before(s, t) == \/ RankOf(s)[1] < RankOf(t)[1]
                \/ RankOf(s)[1] = RankOf(t)[1] /\ RankOf(s)[2] < RankOf(t)[2]
LowestDuring(a, t) ==
    SumRows({r \in addressTxs : r[1] = a /\ Before(r[2], t)})
    + SumRows({r \in addressTxs : r[1] = a /\ r[2] = t /\ r[3]})

IndexNext ==
    \/ \E b \in Delivered : ExtendChain(b) \/ SwitchBranch(b)
    \/ \E t \in Tx : GetTransaction(t)
    \/ \E a \in Holder : GetAddressInfo(a)

IndexSpec == IndexInit /\ [][IndexNext]_indexVars

-----------------------------------------------------------------------------
(* Properties                                                                *)

Coins(a) == Of(a, UtxoOf(chainTip))

\* The balance table, which connects change by deltas and reorganisations
\* rebuild, says what the address can spend on the current chain.
BalancesExact == \A a \in Holder : balances[a] = Amount(Coins(a))

\* The two ways the tx index tells an unspent output, the flag and the rows
\* of its spenders, give exactly the outputs the chain leaves unspent.
UnspentExact == \A a \in Holder : UnspentOutputs(a) = Coins(a)

\* A transaction the cache answers for is where the table says it is, on the
\* current chain (get_transaction after _deindex_disconnected_block).
CachedTxOnChain ==
    \A i \in 1..Len(txCache) :
        /\ txCache[i].key \in DOMAIN txIndex
        /\ txCache[i].is = txIndex[txCache[i].key]
        /\ txCache[i].is \in Anc[chainTip]

\* A cached address answer is the one the tables would give.
CachedInfoFresh ==
    \A i \in 1..Len(infoCache) : LET a == infoCache[i].key IN
        infoCache[i].is = <<balances[a], Cardinality({r \in addressTxs : r[1] = a})>>

\* The history never shows an address spending more than it has received.
HistorySolvent ==
    \A a \in Holder : \A r \in addressTxs : r[1] = a => LowestDuring(a, r[2]) >= 0

\* What both indexes answer, from their tables or from their caches, is what
\* the current chain says, after every reorganisation.
IndexesExact == /\ BalancesExact /\ UnspentExact /\ HistorySolvent
                /\ CachedTxOnChain /\ CachedInfoFresh
=============================================================================
