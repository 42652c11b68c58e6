----------------------------- MODULE NodeStore -----------------------------
(* One node's data directory across sessions: the SQLite connection and its  *)
(* transactions, the raw block files, the block index rebuilt at start-up,   *)
(* the start-up checks and repairs, and the mempool snapshot.  A crash may   *)
(* come between any two steps.  The chain only grows here (ChainState models *)
(* forks), and admission to the mempool is reduced to its inputs             *)
(* (TxAdmission models the rest).                                            *)
EXTENDS BlockTree, SequencesExt

CONSTANTS StartupModes,      \* the configured startup_consistency_mode
          Bodies,            \* whether genesis has a body: on regtest, on no other network
          ActivationHeight,  \* of the hard fork, and the version of this node
          ConsensusVersion,
          PoolTx,            \* transactions and blocks that peers offer
          Arriving,
          NoFile,            \* an absent block, file or snapshot
          Torn,              \* a file cut short by a crash
          MaxStarts          \* bound on the sessions

\* Peers offer blocks of the tree that share no transaction: ChainState models
\* the block that the transactions table refuses.  A snapshot that is absent or
\* cut short is none.
ASSUME StoreAssumption ==
    /\ Arriving \subseteq Block /\ NoFile \notin Block
    /\ \A a, b \in Arriving \cup {Genesis} : a # b => BlockTxs(a) \cap BlockTxs(b) = {}
    /\ NoFile \notin Seq(PoolTx) /\ Torn \notin Seq(PoolTx)

VARIABLES proc,        \* where the process is in start-up, service or shutdown
          mode,        \* startup_consistency_mode of this session
          disk,        \* the committed tables
          view,        \* the tables as the session's connection sees them
          inTx,        \* connection.in_transaction
          raw,         \* the *.blk files
          writing,     \* the block whose file is being written
          repairs,     \* raw-only files the recovery pass has yet to look at
          best,        \* ChainState._best_hash
          held,        \* Mempool.transactions, oldest first
          mainSnap, bakSnap, tmpSnap,   \* mempool.dat, .bak and .tmp
          saved,       \* history: the payload of the last save that completed
          lastStop,    \* history: the tip when the node was last stopped
          starts,
          genesisBody  \* the network of this data directory, by its genesis

tables == <<disk, view, inTx>>
snapVars == <<mainSnap, bakSnap, tmpSnap, saved>>
storeVars == <<proc, mode, tables, raw, writing, repairs, best, held, snapVars,
               lastStop, starts, genesisBody>>

\* headers: block_headers, whose chainwork is TotalWork once add_header ran;
\* bodies: blocks and transactions; utxo: the spendable outpoints.
Empty == [migrated |-> FALSE, headers |-> {}, bodies |-> {}, utxo |-> {}]

StoreInit ==
    /\ proc = "down" /\ mode \in StartupModes
    /\ disk = Empty /\ view = Empty /\ inTx = FALSE
    /\ raw = [b \in Block |-> NoFile] /\ writing = NoFile /\ repairs = {}
    /\ best = NoFile /\ held = <<>>
    /\ mainSnap = NoFile /\ bakSnap = NoFile /\ tmpSnap = NoFile /\ saved = NoFile
    /\ lastStop = NoFile /\ starts = 0 /\ genesisBody \in Bodies

-----------------------------------------------------------------------------
(* Database: execute opens a transaction that nobody ends; transaction()     *)
(* commits only one that it began itself.                                    *)

Execute(v) == view' = v /\ inTx' = TRUE /\ UNCHANGED disk

InTransaction(v) == /\ view' = v
                    /\ disk' = IF inTx THEN disk ELSE v
                    /\ UNCHANGED inTx

\* disconnect, or the end of the process: what is not committed is gone.
Close == view' = disk /\ inTx' = FALSE /\ UNCHANGED disk

-----------------------------------------------------------------------------
(* BlocksStore.write_block: the file first, then the rows in one transaction *)

Heaviest(rows) == {b \in rows : \A c \in rows : TotalWork[c] <= TotalWork[b]}

WithBody(v, b) == [v EXCEPT !.headers = @ \cup {b}, !.bodies = @ \cup {b}]

\* write_block, add_header, connect: what an accepted block adds.
Connected(v, b) == [WithBody(v, b) EXCEPT !.utxo = (@ \ Ins(b)) \cup Outs(b)]

FaultOpenFile(b) == /\ raw' = [raw EXCEPT ![b] = Torn] /\ writing' = b
                    /\ Execute(WithBody(view, b))

OpenFile(b) == /\ raw' = [raw EXCEPT ![b] = Torn] /\ writing' = b
               /\ UNCHANGED tables

FileDone(b) == raw' = [raw EXCEPT ![b] = b] /\ writing' = NoFile

\* read_block_by_hash: the file must be there, and hash to its name.
Readable(b) == raw[b] = b

-----------------------------------------------------------------------------
(* Start-up                                                                  *)

\* The one migration creates the schema and is recorded with a bare INSERT; a
\* database that has it is left as it is.
Migrate == IF disk.migrated THEN UNCHANGED tables
                            ELSE Execute([view EXCEPT !.migrated = TRUE])

OpenDatabase ==
    /\ proc = "down" /\ starts < MaxStarts
    /\ starts' = starts + 1 /\ proc' = "index"
    /\ \E m \in StartupModes : mode' = m
    /\ Migrate
    /\ UNCHANGED <<raw, writing, repairs, best, held, snapVars, lastStop>>

\* scan_raw_block_files: whole files that no header row names, and whether
\* every file is whole and every stored block has one.
RawOnly == {b \in Block : Readable(b)} \ view.headers

ScanOK == /\ \A b \in Block : raw[b] # Torn
          /\ \A b \in view.bodies : raw[b] # NoFile

\* ChainState.initialize with rows: BlockIndex.load picks the most work and
\* rewrites the status of every entry.
LoadIndex ==
    /\ proc = "index" /\ view.headers # {}
    /\ best' \in Heaviest(view.headers) /\ Execute(view)
    /\ repairs' = RawOnly
    /\ proc' = "checks"
    /\ UNCHANGED <<mode, raw, writing, held, snapVars, lastStop, starts>>

\* _import_genesis_header_anchor: a row and no file.
ImportAnchor ==
    /\ proc = "index" /\ view.headers = {} /\ ~genesisBody
    /\ Execute([view EXCEPT !.headers = {Genesis}])
    /\ UNCHANGED <<proc, mode, raw, writing, repairs, best, held, snapVars, lastStop, starts>>

\* _import_synthetic_genesis_for_regtest
ImportGenesis ==
    /\ proc = "index" /\ view.headers = {} /\ genesisBody
    /\ OpenFile(Genesis) /\ proc' = "genesis"
    /\ UNCHANGED <<mode, repairs, best, held, snapVars, lastStop, starts>>

GenesisWritten ==
    /\ proc = "genesis" /\ FileDone(Genesis) /\ InTransaction(WithBody(view, Genesis))
    /\ proc' = "index"
    /\ UNCHANGED <<mode, repairs, best, held, snapVars, lastStop, starts>>

\* verify_active_chain_utxo_state: replay the bodies of the active chain,
\* genesis and its coinbase included, and compare with the utxo table.
Replayed == UNION {Outs(b) : b \in Anc[best]} \ UNION {Ins(b) : b \in Anc[best]}

VerifyOK == (\A b \in Anc[best] : Readable(b)) /\ Replayed = view.utxo

\* validate_consistency: parents present, bodies readable.
IndexOK == /\ best \in view.headers
           /\ \A b \in view.headers \ {Genesis} : Parent[b] \in view.headers
           /\ \A b \in view.bodies : Readable(b)

\* _attempt_safe_storage_recovery, one file in the order of the file names:
\* a block whose parent is not indexed yet is left alone for good.
LeaveRaw(b) ==
    /\ proc = "checks" /\ mode = "recovery" /\ writing = NoFile /\ b \in repairs
    /\ b # Genesis /\ Parent[b] \notin view.headers
    /\ repairs' = repairs \ {b}
    /\ UNCHANGED <<proc, mode, tables, raw, writing, best, held, snapVars, lastStop, starts>>

Rewrite(b) ==
    /\ proc = "checks" /\ mode = "recovery" /\ writing = NoFile /\ b \in repairs
    /\ b = Genesis \/ Parent[b] \in view.headers
    /\ repairs' = repairs \ {b} /\ OpenFile(b)
    /\ UNCHANGED <<proc, mode, best, held, snapVars, lastStop, starts>>

\* add_block is told not to move the tip; add_header ends with a bare INSERT.
Repaired(b) ==
    /\ proc = "checks" /\ writing = b /\ FileDone(b) /\ Execute(WithBody(view, b))
    /\ UNCHANGED <<proc, mode, repairs, best, held, snapVars, lastStop, starts>>

\* fast ignores the report, and repairing forgives what the scan found.
ChecksPass == /\ mode = "fast" \/ (IndexOK /\ VerifyOK)
              /\ mode = "verify" => ScanOK
              /\ mode = "recovery" => repairs = {}

\* _hardfork_guardrails_ok
GuardrailsOK == Cardinality(Anc[best]) - 1 < ActivationHeight \/ ConsensusVersion >= 2

\* initialize returned False: main exits.
Refuse ==
    /\ proc = "checks" /\ writing = NoFile /\ (mode = "recovery" => repairs = {})
    /\ ~(ChecksPass /\ GuardrailsOK)
    /\ proc' = "down" /\ best' = NoFile /\ repairs' = {} /\ Close
    /\ UNCHANGED <<mode, raw, writing, held, snapVars, lastStop, starts>>

\* load_snapshot: the main file, or its backup when that cannot be read.
Whole(s) == s \notin {NoFile, Torn}

LoadSnapshot == IF Whole(mainSnap) THEN mainSnap ELSE bakSnap

Funded(utxo, pool, t) == TxIn[t] \subseteq utxo \cup UNION {TxOut[u] : u \in ToSet(pool)}

Offered(utxo, pool, t) == IF /\ t \notin ToSet(pool) /\ Funded(utxo, pool, t)
                             /\ \A u \in ToSet(pool) : TxIn[u] \cap TxIn[t] = {}
                          THEN Append(pool, t) ELSE pool

\* Admission of a list of transactions, one after the other, without those gone.
Admitted(utxo, gone, txs) ==
    FoldLeft(LAMBDA pool, t : IF t \in gone THEN pool ELSE Offered(utxo, pool, t), <<>>, txs)

\* _restore_mempool_from_disk: every entry goes through admission again, in
\* the order it was first admitted.
Restored == IF Whole(LoadSnapshot) THEN Admitted(view.utxo, {}, LoadSnapshot) ELSE <<>>

RestoreMempool ==
    /\ proc = "checks" /\ writing = NoFile /\ ChecksPass /\ GuardrailsOK
    /\ held' = Restored /\ proc' = "up" /\ repairs' = {}
    /\ UNCHANGED <<mode, tables, raw, writing, best, snapVars, lastStop, starts>>

-----------------------------------------------------------------------------
(* Service                                                                   *)

\* on_block for a block on the tip, up to the maybe_crash in write_block.  One
\* that the validator refuses leaves no trace.
ReceiveBlock(b) ==
    /\ proc = "up" /\ writing = NoFile
    /\ b \notin view.headers \cup {Genesis} /\ Parent[b] = best
    /\ StatefulOK(b, view.utxo)
    /\ OpenFile(b)
    /\ UNCHANGED <<proc, mode, repairs, best, held, snapVars, lastStop, starts>>

\* The rest of on_block: rows, index, add_header, connect, set_best_block
\* and handle_connected_block.  The last bare statement is an UPDATE.
BlockStored(b) ==
    /\ proc = "up" /\ writing = b /\ FileDone(b) /\ Execute(Connected(view, b)) /\ best' = b
    /\ held' = Admitted(view'.utxo, BlockTxs(b), held)
    /\ UNCHANGED <<proc, mode, repairs, snapVars, lastStop, starts>>

ReceiveTx(t) ==
    /\ proc = "up" /\ writing = NoFile /\ Offered(view.utxo, held, t) # held
    /\ held' = Offered(view.utxo, held, t)
    /\ UNCHANGED <<proc, mode, tables, raw, writing, repairs, best, snapVars, lastStop, starts>>

-----------------------------------------------------------------------------
(* Shutdown: stop flushes the mempool when nothing can change it any more    *)
(* and closes the connection.                                                *)

FlushFrame == <<mode, raw, writing, repairs, held, starts>>

\* _write_snapshot: a copy of the old file, ...
BackUp ==
    /\ proc = "up" /\ writing = NoFile /\ lastStop' = best
    /\ proc' = "copy" /\ bakSnap' = IF mainSnap = NoFile THEN bakSnap ELSE Torn
    /\ UNCHANGED <<FlushFrame, tables, best, mainSnap, tmpSnap, saved>>

\* ... the new one beside it, ...
FaultWriteTmp ==
    /\ proc = "copy" /\ proc' = "tmp" /\ mainSnap' = Torn
    /\ bakSnap' = Torn
    /\ UNCHANGED <<FlushFrame, tables, best, tmpSnap, saved, lastStop>>

WriteTmp ==
    /\ proc = "copy" /\ proc' = "tmp" /\ tmpSnap' = Torn
    /\ bakSnap' = IF mainSnap = NoFile THEN bakSnap ELSE mainSnap
    /\ UNCHANGED <<FlushFrame, tables, best, mainSnap, saved, lastStop>>

\* ... and the rename that makes it the current one.
ReplaceMain ==
    /\ proc = "tmp" /\ proc' = "close"
    /\ mainSnap' = held /\ saved' = held /\ tmpSnap' = NoFile
    /\ UNCHANGED <<FlushFrame, tables, best, bakSnap, lastStop>>

\* An exception while saving is logged and shutdown goes on.
SaveFails ==
    /\ proc \in {"copy", "tmp"} /\ proc' = "close"
    /\ UNCHANGED <<FlushFrame, tables, best, snapVars, lastStop>>

Disconnect ==
    /\ proc = "close" /\ proc' = "down" /\ Close /\ held' = <<>> /\ best' = NoFile
    /\ UNCHANGED <<mode, raw, writing, repairs, snapVars, lastStop, starts>>

Die ==
    /\ proc # "down" /\ proc' = "down" /\ Close
    /\ held' = <<>> /\ best' = NoFile /\ writing' = NoFile /\ repairs' = {}
    /\ UNCHANGED <<mode, raw, snapVars, lastStop, starts>>

-----------------------------------------------------------------------------

StartNext == \/ OpenDatabase \/ LoadIndex \/ ImportAnchor \/ ImportGenesis
             \/ GenesisWritten \/ Refuse \/ RestoreMempool
             \/ \E b \in Block : LeaveRaw(b) \/ Rewrite(b) \/ Repaired(b)

ServeNext == \/ \E b \in Arriving : ReceiveBlock(b) \/ BlockStored(b)
             \/ \E t \in PoolTx : ReceiveTx(t)

StopNext == BackUp \/ WriteTmp \/ ReplaceMain \/ SaveFails \/ Disconnect

StoreNext == (StartNext \/ ServeNext \/ StopNext \/ Die) /\ UNCHANGED genesisBody

StoreSpec == StoreInit /\ [][StoreNext]_storeVars

-----------------------------------------------------------------------------
(* Properties                                                                *)

\* A block the tables name can be read back from its file, whenever the
\* process dies: write_block completes the file before it inserts a row.
RowsReadable == \A b \in view.bodies \cup disk.bodies : Readable(b)

\* Once a mempool snapshot was saved, a start reads the newest complete one,
\* wherever a later save was cut off (_write_snapshot, load_snapshot).
SnapshotSurvives == saved # NoFile => LoadSnapshot = saved

\* A restored pool holds nothing whose inputs neither the chain of this
\* session nor an earlier entry provides, even when the snapshot was taken on
\* a chain the restart no longer has (_restore_mempool_from_disk).
PoolFunded ==
    proc = "up" => \A i \in 1..Len(held) : Funded(view.utxo, SubSeq(held, 1, i - 1), held[i])

\* A session that gets past the checks has an index that its files and
\* tables bear out, with the tip on it (run_startup_consistency).
ServesConsistentIndex ==
    proc = "up" => /\ IndexOK
                   /\ view.utxo = UtxoOf(best)

\* Restarting keeps the chain: the tip the node stopped with is on the chain
\* it serves afterwards (docs/V1_SHARING_AND_RUN.md).
SurvivesRestart == (proc = "up" /\ lastStop # NoFile) => lastStop \in Anc[best]

\* Files, rows and index agree whenever the process dies and whatever a start
\* finds.
StoreSound == RowsReadable /\ ServesConsistentIndex

\* What was in the mempool at a shutdown comes back, as far as it still fits.
MempoolSurvives == SnapshotSurvives /\ PoolFunded
=============================================================================
