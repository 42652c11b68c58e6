----------------------------- MODULE TxAdmission -----------------------------
(***************************************************************************)
(* The mempool at work: add_transaction and add_package called by the      *)
(* handlers of peers, RPC and wallet, and handle_connected_block and       *)
(* _reconcile_mempool_after_reorg called when the tip moves.               *)
(*                                                                         *)
(* The sections under Mempool._lock do not suspend, nor does on_block      *)
(* between the move of the tip and the end of the clean-up.  Their loops   *)
(* are steps of an exclusive phase: "room" (_evict_for_space) or "clean"   *)
(* (handle_connected_block).  A handler suspends only in the broadcast     *)
(* after each accepted transaction, so the members of a package interleave *)
(* with everything else.                                                   *)
(*                                                                         *)
(* The chain below the mempool is that of ChainState seen from outside:    *)
(* the utxo table is UtxoOf(tip) whenever a handler runs.                  *)
(***************************************************************************)
EXTENDS Mempool

CONSTANTS
    Handler,    \* tasks that submit transactions
    NoHandler,
    Loose,      \* transactions submitted one by one
    Packages    \* sets submitted with add_package; it does nothing for an empty one

ASSUME AdmissionAssumption ==
    /\ NoHandler \notin Handler
    /\ Loose \subseteq Tx
    /\ Packages \subseteq (SUBSET Tx) \ {{}}

VARIABLES
    mp,         \* the pool
    peak,       \* highest rate min_fee_floor_rate was raised to
    tip,        \* chainstate.get_best_block_hash()
    stored,     \* blocks written by write_block
    rows,       \* primary keys of table transactions
    phase,      \* "idle", "room" or "clean"
    adm,        \* the admission that is making room
    queue,      \* the rest of txids in _evict_for_space
    conn,       \* blocks that handle_connected_block has still to see
    todo,       \* entries the revalidation loop has still to see
    task        \* per handler: package members to add and added

poolVars == <<mp, peak>>
chainVars == <<tip, stored, rows>>
roomVars == <<adm, queue>>
cleanVars == <<conn, todo>>
admissionVars == <<poolVars, chainVars, phase, roomVars, cleanVars, task>>

NoTask == [todo |-> <<>>, added |-> {}]

NoAdmission == [h |-> NoHandler, par |-> {}, anc |-> {}]

AdmissionInit ==
    /\ mp = EmptyPool
    /\ peak = BaseFloor
    /\ tip = Genesis
    /\ stored = {Genesis}
    /\ rows = BlockTxs(Genesis)
    /\ phase = "idle"
    /\ adm = NoAdmission
    /\ queue = <<>>
    /\ conn = {}
    /\ todo = {}
    /\ task = [h \in Handler |-> NoTask]

-----------------------------------------------------------------------------
(* add_transaction and add_package.  s are the members still to add, the   *)
(* first one now, added those the package has added; a plain transaction   *)
(* is a package of one.                                                    *)

Members(s, added) == added \cup {s[i] : i \in 1..Len(s)}

\* The rolling floor lies between its base and its peak, depending on the
\* time since it was raised.  A package is held to its common rate, a low
\* member of it passes with the others.
FloorLets(s, added) ==
    \/ AtLeast(Rate({s[1]}), BaseFloor)
    \/ AtLeast(Rate(Members(s, added)), BaseFloor)

FloorStops(s, added) ==
    /\ ~AtLeast(Rate({s[1]}), peak)
    /\ ~AtLeast(Rate(Members(s, added)), peak)

\* The calls that get past add_package's own checks.
Offers ==
    {<<t>> : t \in Loose} \cup
    UNION {PackageOrders(S) : S \in {S \in Packages :
        PackageFits(mp, S, tip) /\ AtLeast(Rate(S), BaseFloor)}}

Passes(s, added) ==
    /\ Admissible(mp, s[1], tip, rows)
    /\ FloorLets(s, added)

\* add_transaction returned True; add_package takes the next member.
Advance(h, s, added) ==
    task' = [task EXCEPT ![h] =
        IF Len(s) = 1 THEN NoTask
                      ELSE [todo |-> Tail(s), added |-> added \cup {s[1]}]]

\* add_transaction returned False; add_package rolls back what it added.
GiveUp(h, added, m) ==
    /\ mp' = DropPackages(m, added)
    /\ task' = [task EXCEPT ![h] = NoTask]

\* Fault: the replaced transactions stay.
InsertedKeeps(s, par, anc) == Add(mp, s[1], par, anc)

\* the pool once the conflicts are out and s[1] is in
Inserted(s, par, anc) == Add(DropPackages(mp, Conflicts(mp, s[1])), s[1], par, anc)

Reject(h, s, added) ==
    /\ ~Admissible(mp, s[1], tip, rows) \/ ~FloorLets(s, added) \/ FloorStops(s, added)
    /\ GiveUp(h, added, mp)
    /\ UNCHANGED <<peak, chainVars, phase, roomVars, cleanVars>>

Accept(h, s, added) ==
    /\ Passes(s, added)
    /\ HasRoom(mp, s[1])
    /\ LET par == Parents(s[1], rows)
           anc == Ancestors(mp, par)
       IN  /\ FamilyOK(Inserted(s, par, anc), anc)
           /\ mp' = Inserted(s, par, anc)
    /\ Advance(h, s, added)
    /\ UNCHANGED <<peak, chainVars, phase, roomVars, cleanVars>>

\* A descendant limit is found broken after the insertion, which is undone;
\* the conflicts it replaced are gone.
FamilyTooLarge(h, s, added) ==
    /\ Passes(s, added)
    /\ HasRoom(mp, s[1])
    /\ LET par == Parents(s[1], rows)
           anc == Ancestors(mp, par)
       IN  ~FamilyOK(Inserted(s, par, anc), anc)
    /\ GiveUp(h, added, DropPackages(mp, Conflicts(mp, s[1])))
    /\ UNCHANGED <<peak, chainVars, phase, roomVars, cleanVars>>

\* No room: _evict_for_space sorts the pool.  Parents and ancestors have
\* been collected by now.
SeekRoom(h, s, added) ==
    /\ Passes(s, added)
    /\ ~HasRoom(mp, s[1])
    /\ phase' = "room"
    /\ LET par == Parents(s[1], rows)
       IN  adm' = [h |-> h, par |-> par, anc |-> Ancestors(mp, par)]
    /\ queue' = EvictionQueue(mp)
    /\ task' = [task EXCEPT ![h] = [todo |-> s, added |-> added]]
    /\ UNCHANGED <<poolVars, chainVars, cleanVars>>

\* the admission in progress
Rest == task[adm.h].todo
Added == task[adm.h].added

\* _update_min_fee_floor(rate, under_pressure=True)
Raised(rate) ==
    LET up == <<11 * rate[1], 10 * rate[2]>>
    IN  IF AtLeast(peak, up) THEN peak ELSE up

EvictNext ==
    /\ phase = "room"
    /\ ~HasRoom(mp, Rest[1])
    /\ queue # <<>>
    /\ queue[1] \in mp.pool
    /\ ~AtLeast(PackageRate(mp, queue[1]), Rate({Rest[1]}))
    /\ mp' = DropPackages(mp, {queue[1]})
    /\ peak' = Raised(PackageRate(mp, queue[1]))
    /\ queue' = Tail(queue)
    /\ UNCHANGED <<chainVars, phase, adm, cleanVars, task>>

\* Fault: the loop does not step over an entry that is gone.
EvictGoneStuck ==
    /\ phase = "room"
    /\ ~HasRoom(mp, Rest[1])
    /\ queue # <<>>
    /\ queue[1] \notin mp.pool
    /\ UNCHANGED admissionVars

EvictGone ==
    /\ phase = "room"
    /\ ~HasRoom(mp, Rest[1])
    /\ queue # <<>>
    /\ queue[1] \notin mp.pool
    /\ queue' = Tail(queue)
    /\ UNCHANGED <<poolVars, chainVars, phase, adm, cleanVars, task>>

LeaveRoom ==
    /\ phase' = "idle"
    /\ adm' = NoAdmission
    /\ queue' = <<>>

\* The incoming transaction does not outbid the next candidate.
Outbid ==
    /\ phase = "room"
    /\ ~HasRoom(mp, Rest[1])
    /\ queue # <<>>
    /\ queue[1] \in mp.pool
    /\ AtLeast(PackageRate(mp, queue[1]), Rate({Rest[1]}))
    /\ peak' = Raised(PackageRate(mp, queue[1]))
    /\ GiveUp(adm.h, Added, mp)
    /\ LeaveRoom
    /\ UNCHANGED <<chainVars, cleanVars>>

AcceptInRoom ==
    /\ phase = "room"
    /\ HasRoom(mp, Rest[1])
    /\ FamilyOK(Inserted(Rest, adm.par, adm.anc), adm.anc)
    /\ mp' = Inserted(Rest, adm.par, adm.anc)
    /\ Advance(adm.h, Rest, Added)
    /\ LeaveRoom
    /\ UNCHANGED <<peak, chainVars, cleanVars>>

FamilyTooLargeInRoom ==
    /\ phase = "room"
    /\ HasRoom(mp, Rest[1])
    /\ ~FamilyOK(Inserted(Rest, adm.par, adm.anc), adm.anc)
    /\ GiveUp(adm.h, Added, DropPackages(mp, Conflicts(mp, Rest[1])))
    /\ LeaveRoom
    /\ UNCHANGED <<peak, chainVars, cleanVars>>

\* Everything evicted and still too large: mempool_limits.
NoRoom ==
    /\ phase = "room"
    /\ ~HasRoom(mp, Rest[1])
    /\ queue = <<>>
    /\ GiveUp(adm.h, Added, mp)
    /\ LeaveRoom
    /\ UNCHANGED <<peak, chainVars, cleanVars>>

-----------------------------------------------------------------------------
(* The chain moves.                                                        *)

\* on_block of a block whose parent is indexed and whose validation passes
Arrives(b) ==
    /\ phase = "idle"
    /\ b \notin stored
    /\ Parent[b] \in stored
    /\ IF Parent[b] = tip THEN StatefulOK(b, UtxoOf(tip)) ELSE SideOK(b, rows)

\* on_block connects b to the tip.
ConnectTip(b) ==
    /\ Arrives(b)
    /\ Parent[b] = tip
    /\ StoreOK(b, rows)
    /\ tip' = b
    /\ stored' = stored \cup {b}
    /\ rows' = rows \cup BlockTxs(b)
    /\ phase' = "clean"
    /\ conn' = {b}
    /\ UNCHANGED <<poolVars, roomVars, todo, task>>

\* A valid branch with more work: reorganise, then reconcile the mempool.
\* The transactions of the old branch are offered again by the code, and
\* every one is dropped as already_in_chain: its row was never deleted.
Reorganise(b) ==
    /\ Arrives(b)
    /\ Parent[b] # tip
    /\ StoreOK(b, rows)
    /\ ValidBranch(b)
    /\ TotalWork[b] > TotalWork[tip]
    /\ tip' = b
    /\ stored' = stored \cup {b}
    /\ rows' = rows \cup BlockTxs(b)
    /\ phase' = "clean"
    /\ conn' = Anc[b] \ Anc[tip]
    /\ UNCHANGED <<poolVars, roomVars, todo, task>>

\* A side block that is stored and does not become the tip.
StoreSide(b) ==
    /\ Arrives(b)
    /\ Parent[b] # tip
    /\ StoreOK(b, rows)
    /\ ~ValidBranch(b) \/ TotalWork[b] <= TotalWork[tip]
    /\ stored' = stored \cup {b}
    /\ rows' = rows \cup BlockTxs(b)
    /\ UNCHANGED <<poolVars, tip, phase, roomVars, cleanVars, task>>

\* write_block raises on a txid it has already; the rows before it stay.
StoreCollides(b) ==
    /\ Arrives(b)
    /\ ~StoreOK(b, rows)
    /\ rows' = rows \cup StoredPrefix(b, rows)
    /\ UNCHANGED <<poolVars, tip, stored, phase, roomVars, cleanVars, task>>

\* Fault: only the first block of a reorganisation is cleaned up after.
ConfirmFirst(b) ==
    /\ phase = "clean"
    /\ todo = {}
    /\ b \in conn
    /\ Parent[b] \notin conn
    /\ mp' = DropPackages(mp, BlockTxs(b))
    /\ conn' = {}
    /\ todo' = {}
    /\ UNCHANGED <<peak, chainVars, phase, roomVars, task>>

\* handle_connected_block(b): the confirmed transactions leave.
Confirm(b) ==
    /\ phase = "clean"
    /\ todo = {}
    /\ b \in conn
    /\ Parent[b] \notin conn
    /\ mp' = DropPackages(mp, BlockTxs(b))
    /\ conn' = conn \ {b}
    /\ todo' = mp'.pool
    /\ UNCHANGED <<peak, chainVars, phase, roomVars, task>>

\* the next key of list(self.transactions.keys())
NextEntry(t) == t \in todo /\ \A u \in todo : <<u, t>> \notin mp.before

\* An entry of the loop: kept, gone already, or removed with its descendants.
Revalidate(t) ==
    /\ phase = "clean"
    /\ NextEntry(t)
    /\ mp' = IF StillGood(mp, t, tip, rows) THEN mp ELSE DropPackages(mp, {t})
    /\ todo' = (todo \ {t}) \cap mp'.pool
    /\ UNCHANGED <<peak, chainVars, phase, roomVars, conn, task>>

CleanupDone ==
    /\ phase = "clean"
    /\ todo = {}
    /\ conn = {}
    /\ phase' = "idle"
    /\ UNCHANGED <<poolVars, chainVars, roomVars, cleanVars, task>>

-----------------------------------------------------------------------------
AddTransaction(h, s, added) ==
    \/ Reject(h, s, added)
    \/ Accept(h, s, added)
    \/ FamilyTooLarge(h, s, added)
    \/ SeekRoom(h, s, added)

\* A new call, or the next member of a package after a broadcast.
Submit(h) ==
    /\ phase = "idle"
    /\ \/ /\ task[h] = NoTask
          /\ \E s \in Offers : AddTransaction(h, s, {})
       \/ /\ task[h] # NoTask
          /\ AddTransaction(h, task[h].todo, task[h].added)

MakeRoom ==
    \/ EvictNext
    \/ EvictGone
    \/ Outbid
    \/ AcceptInRoom
    \/ FamilyTooLargeInRoom
    \/ NoRoom

MoveChain ==
    \E b \in NonGenesis :
        ConnectTip(b) \/ Reorganise(b) \/ StoreSide(b) \/ StoreCollides(b)

CleanUp ==
    \/ \E b \in NonGenesis : Confirm(b)
    \/ \E t \in Tx : Revalidate(t)
    \/ CleanupDone

AdmissionNext ==
    \/ \E h \in Handler : Submit(h)
    \/ MakeRoom
    \/ MoveChain
    \/ CleanUp

AdmissionSpec == AdmissionInit /\ [][AdmissionNext]_admissionVars

\* The loops under the lock and after a block run to their end: nothing in
\* them waits.
SectionFairness == WF_admissionVars(MakeRoom) /\ WF_admissionVars(CleanUp)

FairAdmissionSpec == AdmissionSpec /\ SectionFairness

-----------------------------------------------------------------------------
(* Properties.                                                             *)

TaskType == [todo : Seq(Tx), added : SUBSET Tx]

AdmissionTypeOK ==
    /\ mp \in PoolType
    /\ peak \in Nat \X (Nat \ {0})
    /\ tip \in Block
    /\ stored \subseteq Block
    /\ rows \subseteq Tx
    /\ phase \in {"idle", "room", "clean"}
    /\ adm \in [h : Handler \cup {NoHandler}, par : SUBSET Tx, anc : SUBSET Tx]
    /\ queue \in Seq(Tx)
    /\ conn \subseteq Block
    /\ todo \subseteq Tx
    /\ task \in [Handler -> TaskType]

\* No two pool transactions spend the same output, and spent_utxos is
\* exactly the set of outputs they spend, through every replacement,
\* eviction, rollback and clean-up.
SpendsExact ==
    /\ mp.spent = InsOf(mp.pool)
    /\ \A t, u \in mp.pool : t # u => TxIn[t] \cap TxIn[u] = {}

\* The running totals are the sums over the pool, though they are kept by
\* increments on every path in and out.
LoadExact == mp.load = SizeOf(mp.pool)

\* The count and size limits hold at every step, and so do the ancestor and
\* descendant limits of every entry.
WithinLimits ==
    /\ Cardinality(mp.pool) <= MaxTransactions
    /\ mp.load <= MaxLoad
    /\ \A t \in mp.pool : /\ Cardinality(mp.anc[t]) <= MaxAncestors
                          /\ Cardinality(mp.desc[t]) <= MaxDescendants

\* Ancestor and descendant sets name entries of the pool and mirror each
\* other, so that removing a transaction finds everything built on it.
LinksMirror ==
    \A t \in mp.pool :
        /\ mp.anc[t] \subseteq mp.pool
        /\ mp.desc[t] = {u \in mp.pool : t \in mp.anc[u]}

\* No transaction of the active chain is in the pool once the clean-up
\* after a block is over.
NeverConfirmed ==
    phase = "idle" => mp.pool \cap UNION {BlockTxs(b) : b \in Anc[tip]} = {}

\* Whenever a miner may look, every input of every pool transaction is
\* unspent on the active chain or made by another pool transaction.
InputsAvailable ==
    phase = "idle" => InsOf(mp.pool) \subseteq UtxoOf(tip) \cup OutsOf(mp.pool)

\* A newcomer that pushes conflicting transactions out pays more than all
\* that leave with them, by at least the relay fee of its own size.
ReplacementPaysMore ==
    [][\A t \in mp'.pool \ mp.pool :
          Conflicts(mp, t) # {} => Fee[t] > FeeOf(mp.pool \ mp'.pool) + MinFee(t)
      ]_admissionVars

\* Every eviction loop and every clean-up after a block comes to its end.
SectionsEnd == phase # "idle" ~> phase = "idle"
=============================================================================
