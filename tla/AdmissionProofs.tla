--------------------------- MODULE AdmissionProofs ---------------------------
(***************************************************************************)
(* Proofs about TxAdmission, for every block tree, every set of            *)
(* transactions, every fee and limit and any number of handlers.           *)
(***************************************************************************)
EXTENDS TxAdmission, FoldProofs

\* SpendsExact as a predicate of a pool value.
ExactPool(m) ==
    /\ m.spent = InsOf(m.pool)
    /\ \A t, u \in m.pool : t # u => TxIn[t] \cap TxIn[u] = {}

-----------------------------------------------------------------------------
(* What removal and insertion do to a pool.                                *)

\* _remove_transaction_nolock takes exactly the named entries that are there
\* and keeps spent_utxos exact: no survivor shares an input with them.
LEMMA DropExact ==
  ASSUME NEW m, NEW R, ExactPool(m)
  PROVE  /\ ExactPool(Drop(m, R))
         /\ Drop(m, R).pool = m.pool \ R
<1> DEFINE gone == m.pool \cap R
<1>1. Drop(m, R).pool = m.pool \ gone /\ Drop(m, R).spent = m.spent \ InsOf(gone)
  BY DEF Drop, Untrack
<1>2. m.pool \ gone = m.pool \ R
  OBVIOUS
<1>3. m.spent \ InsOf(gone) = InsOf(m.pool \ gone)
  <2>1. ASSUME NEW o \in m.spent, o \notin InsOf(gone) PROVE o \in InsOf(m.pool \ gone)
    BY <2>1 DEF ExactPool, InsOf
  <2>2. ASSUME NEW o \in InsOf(m.pool \ gone) PROVE o \in m.spent /\ o \notin InsOf(gone)
    <3>1. PICK t \in m.pool \ gone : o \in TxIn[t]
      BY <2>2 DEF InsOf
    <3>2. o \in m.spent
      BY <3>1 DEF ExactPool, InsOf
    <3>3. \A u \in gone : o \notin TxIn[u]
      BY <3>1 DEF ExactPool
    <3> QED BY <3>2, <3>3 DEF InsOf
  <2> QED BY <2>1, <2>2
<1> QED BY <1>1, <1>2, <1>3 DEF ExactPool

\* Removing packages removes at least the transactions named, and only
\* transactions of the pool.
LEMMA DropPackagesExact ==
  ASSUME NEW m, NEW S, ExactPool(m)
  PROVE  /\ ExactPool(DropPackages(m, S))
         /\ DropPackages(m, S).pool \subseteq m.pool \ S
<1> DEFINE R == UNION {Package(m, t) : t \in S \cap m.pool}
<1>1. DropPackages(m, S) = Drop(m, R)
  BY DEF DropPackages
<1>2. S \cap m.pool \subseteq R
  BY DEF Package
<1> HIDE DEF R
<1>3. ExactPool(Drop(m, R)) /\ Drop(m, R).pool = m.pool \ R
  BY DropExact
<1> QED BY <1>1, <1>2, <1>3

\* A transaction that shares no input with the pool may be added.
LEMMA AddExact ==
  ASSUME NEW m, NEW t, NEW par, NEW anc, ExactPool(m),
         \A u \in m.pool : TxIn[u] \cap TxIn[t] = {}
  PROVE  /\ ExactPool(Add(m, t, par, anc))
         /\ Add(m, t, par, anc).pool = m.pool \cup {t}
<1>1. /\ Add(m, t, par, anc).pool = m.pool \cup {t}
      /\ Add(m, t, par, anc).spent = m.spent \cup TxIn[t]
  BY DEF Add, Track
<1>2. m.spent \cup TxIn[t] = InsOf(m.pool \cup {t})
  BY DEF ExactPool, InsOf
<1> QED BY <1>1, <1>2 DEF ExactPool

\* Replacement: with the conflicts out, the newcomer shares no input.
LEMMA InsertedExact ==
  ASSUME NEW s, NEW par, NEW anc, ExactPool(mp)
  PROVE  /\ ExactPool(Inserted(s, par, anc))
         /\ Inserted(s, par, anc).pool \subseteq mp.pool \cup {s[1]}
<1> DEFINE m == DropPackages(mp, Conflicts(mp, s[1]))
<1>1. ExactPool(m) /\ m.pool \subseteq mp.pool \ Conflicts(mp, s[1])
  BY DropPackagesExact
<1>2. Inserted(s, par, anc) = Add(m, s[1], par, anc)
  BY DEF Inserted
<1>3. \A u \in m.pool : TxIn[u] \cap TxIn[s[1]] = {}
  BY <1>1 DEF Conflicts
<1> HIDE DEF m
<1>4. /\ ExactPool(Add(m, s[1], par, anc))
      /\ Add(m, s[1], par, anc).pool = m.pool \cup {s[1]}
  BY <1>1, <1>3, AddExact
<1> QED BY <1>1, <1>2, <1>4

-----------------------------------------------------------------------------
(* spent_utxos.                                                            *)

\* An admission, with room or without, keeps the pool exact.
LEMMA AddTransactionExact ==
  ASSUME NEW h, NEW s, NEW added, ExactPool(mp), AddTransaction(h, s, added)
  PROVE  ExactPool(mp')
<1>1. CASE Reject(h, s, added)
  BY <1>1, DropPackagesExact DEF Reject, GiveUp
<1>2. CASE Accept(h, s, added)
  BY <1>2, InsertedExact DEF Accept
<1>3. CASE FamilyTooLarge(h, s, added)
  <2> DEFINE m == DropPackages(mp, Conflicts(mp, s[1]))
  <2>1. ExactPool(m)
    BY DropPackagesExact
  <2>2. mp' = DropPackages(m, added)
    BY <1>3 DEF FamilyTooLarge, GiveUp
  <2> HIDE DEF m
  <2> QED BY <2>1, <2>2, DropPackagesExact
<1>4. CASE SeekRoom(h, s, added)
  BY <1>4 DEF SeekRoom, poolVars
<1> QED BY <1>1, <1>2, <1>3, <1>4 DEF AddTransaction

\* So does every step of an eviction loop.
LEMMA MakeRoomExact ==
  ASSUME ExactPool(mp), MakeRoom
  PROVE  ExactPool(mp')
<1>1. CASE EvictNext
  BY <1>1, DropPackagesExact DEF EvictNext
<1>2. CASE EvictGone
  BY <1>2 DEF EvictGone, poolVars
<1>3. CASE Outbid
  BY <1>3, DropPackagesExact DEF Outbid, GiveUp
<1>4. CASE AcceptInRoom
  BY <1>4, InsertedExact DEF AcceptInRoom
<1>5. CASE FamilyTooLargeInRoom
  <2> DEFINE m == DropPackages(mp, Conflicts(mp, Rest[1]))
  <2>1. ExactPool(m)
    BY DropPackagesExact
  <2>2. mp' = DropPackages(m, Added)
    BY <1>5 DEF FamilyTooLargeInRoom, GiveUp
  <2> HIDE DEF m
  <2> QED BY <2>1, <2>2, DropPackagesExact
<1>6. CASE NoRoom
  BY <1>6, DropPackagesExact DEF NoRoom, GiveUp
<1> QED BY <1>1, <1>2, <1>3, <1>4, <1>5, <1>6 DEF MakeRoom

\* So does the clean-up after a block.
LEMMA CleanUpExact ==
  ASSUME ExactPool(mp), CleanUp
  PROVE  ExactPool(mp')
<1>1. ASSUME NEW b \in NonGenesis, Confirm(b) PROVE ExactPool(mp')
  BY <1>1, DropPackagesExact DEF Confirm
<1>2. ASSUME NEW t \in Tx, Revalidate(t) PROVE ExactPool(mp')
  BY <1>2, DropPackagesExact DEF Revalidate
<1>3. CASE CleanupDone
  BY <1>3 DEF CleanupDone, poolVars
<1> QED BY <1>1, <1>2, <1>3 DEF CleanUp

\* Whatever is submitted, replaced, evicted, rolled back or confirmed, no two
\* pool transactions spend the same output and spent_utxos names exactly the
\* outputs that are spent.
THEOREM SpendsAlwaysExact == AdmissionSpec => []SpendsExact
<1>0. SpendsExact <=> ExactPool(mp)
  BY DEF SpendsExact, ExactPool
<1>1. AdmissionInit => SpendsExact
  BY DEF AdmissionInit, SpendsExact, EmptyPool, InsOf
<1>2. SpendsExact /\ [AdmissionNext]_admissionVars => SpendsExact'
  <2> SUFFICES ASSUME ExactPool(mp), [AdmissionNext]_admissionVars
               PROVE  ExactPool(mp')
    BY DEF SpendsExact, ExactPool
  <2>1. ASSUME NEW h \in Handler, Submit(h) PROVE ExactPool(mp')
    BY <2>1, AddTransactionExact DEF Submit
  <2>2. CASE MakeRoom
    BY <2>2, MakeRoomExact
  <2>3. CASE MoveChain
    <3>1. mp' = mp
      BY <2>3 DEF MoveChain, ConnectTip, Reorganise, StoreSide, StoreCollides, poolVars
    <3> QED BY <3>1
  <2>4. CASE CleanUp
    BY <2>4, CleanUpExact
  <2>5. CASE UNCHANGED admissionVars
    <3>1. mp' = mp
      BY <2>5 DEF admissionVars, poolVars
    <3> QED BY <3>1
  <2> QED BY <2>1, <2>2, <2>3, <2>4, <2>5 DEF AdmissionNext
<1> QED BY <1>1, <1>2, PTL DEF AdmissionSpec
-----------------------------------------------------------------------------
(* NeverConfirmed.  The transactions of a block reach the tables before    *)
(* the clean-up reaches the pool, so the invariant has to speak of the     *)
(* blocks the clean-up has not seen yet (conn) and of the admission whose  *)
(* check against the transactions table was made before room was.          *)

\* Stored blocks have their ancestors and their transactions in storage.
ChainClosed ==
    /\ tip \in stored
    /\ stored \subseteq Block
    /\ \A b \in stored : Anc[b] \subseteq stored /\ BlockTxs(b) \subseteq rows

\* The pool holds nothing of the active blocks the clean-up has seen.
Settled == \A b \in Anc[tip] \ conn : mp.pool \cap BlockTxs(b) = {}

\* What waits for room is still unknown to the transactions table.
RoomFresh ==
    /\ task = [h \in Handler |-> task[h]]
    /\ phase = "room" => adm.h \in Handler /\ Rest[1] \notin rows

CleanInv ==
    /\ ChainClosed
    /\ Settled
    /\ RoomFresh
    /\ phase # "clean" => conn = {}

\* Removing packages only removes, and removes at least what is named.
LEMMA DropPackagesLess ==
  ASSUME NEW m, NEW S
  PROVE  DropPackages(m, S).pool \subseteq m.pool \ S
<1> DEFINE R == UNION {Package(m, t) : t \in S \cap m.pool}
<1>1. DropPackages(m, S).pool = m.pool \ (m.pool \cap R)
  BY DEF DropPackages, Drop
<1>2. S \cap m.pool \subseteq R
  BY DEF Package
<1> QED BY <1>1, <1>2

\* An insertion adds nothing but the newcomer.
LEMMA InsertedLess ==
  ASSUME NEW s, NEW par, NEW anc
  PROVE  Inserted(s, par, anc).pool \subseteq mp.pool \cup {s[1]}
<1> DEFINE m == DropPackages(mp, Conflicts(mp, s[1]))
<1>1. m.pool \subseteq mp.pool
  BY DropPackagesLess
<1>2. Inserted(s, par, anc).pool = m.pool \cup {s[1]}
  BY DEF Inserted, Add
<1> QED BY <1>1, <1>2

\* A pool that only lost entries, or gained one unknown to the transactions
\* table, stays settled while the chain does not move.
LEMMA SettledStep ==
  ASSUME CleanInv, UNCHANGED <<chainVars, conn>>,
         NEW new, new \notin rows, mp'.pool \subseteq mp.pool \cup {new}
  PROVE  ChainClosed' /\ Settled'
<1>1. ChainClosed' /\ tip' = tip /\ conn' = conn
  BY DEF CleanInv, ChainClosed, chainVars
<1>2. \A b \in Anc[tip] : BlockTxs(b) \subseteq rows
  BY DEF CleanInv, ChainClosed
<1> QED BY <1>1, <1>2 DEF CleanInv, Settled

\* So does one whose clean-up has seen more blocks and removed their
\* transactions.
LEMMA SettledLess ==
  ASSUME CleanInv, UNCHANGED chainVars, conn' \subseteq conn,
         mp'.pool \subseteq mp.pool,
         \A b \in conn \ conn' : mp'.pool \cap BlockTxs(b) = {}
  PROVE  ChainClosed' /\ Settled'
<1>1. ChainClosed' /\ tip' = tip
  BY DEF CleanInv, ChainClosed, chainVars
<1> QED BY <1>1 DEF CleanInv, Settled

\* Admissions.
LEMMA AddTransactionClean ==
  ASSUME CleanInv, phase = "idle", NEW h \in Handler, NEW s, NEW added,
         AddTransaction(h, s, added)
  PROVE  CleanInv'
<1> USE DEF CleanInv
<1>0. conn = {}
  OBVIOUS
<1>1. CASE Reject(h, s, added)
  <2>1. mp'.pool \subseteq mp.pool
    BY <1>1, DropPackagesLess DEF Reject, GiveUp
  <2>2. ChainClosed' /\ Settled'
    BY <1>1, <2>1, SettledLess DEF Reject, cleanVars
  <2> QED BY <1>1, <2>2 DEF Reject, GiveUp, RoomFresh, cleanVars
<1>2. CASE Accept(h, s, added)
  <2>1. s[1] \notin rows
    BY <1>2 DEF Accept, Passes, Admissible, Valid
  <2>2. mp'.pool \subseteq mp.pool \cup {s[1]}
    BY <1>2, InsertedLess DEF Accept
  <2>3. ChainClosed' /\ Settled'
    BY <1>2, <2>1, <2>2, SettledStep DEF Accept, cleanVars
  <2> QED BY <1>2, <2>3 DEF Accept, Advance, RoomFresh, cleanVars
<1>3. CASE FamilyTooLarge(h, s, added)
  <2> DEFINE m == DropPackages(mp, Conflicts(mp, s[1]))
  <2>1. m.pool \subseteq mp.pool
    BY DropPackagesLess
  <2>2. mp' = DropPackages(m, added)
    BY <1>3 DEF FamilyTooLarge, GiveUp
  <2> HIDE DEF m
  <2>3. mp'.pool \subseteq mp.pool
    BY <2>1, <2>2, DropPackagesLess
  <2>4. ChainClosed' /\ Settled'
    BY <1>3, <2>3, SettledLess DEF FamilyTooLarge, cleanVars
  <2> QED BY <1>3, <2>4 DEF FamilyTooLarge, GiveUp, RoomFresh, cleanVars
<1>4. CASE SeekRoom(h, s, added)
  <2>1. s[1] \notin rows
    BY <1>4 DEF SeekRoom, Passes, Admissible, Valid
  <2>2. ChainClosed' /\ Settled'
    BY <1>4, SettledLess DEF SeekRoom, poolVars, cleanVars
  <2>3. /\ task' = [task EXCEPT ![h] = [todo |-> s, added |-> added]]
        /\ adm'.h = h
    BY <1>4 DEF SeekRoom
  <2>4. Rest' = s
    BY <2>3 DEF RoomFresh, Rest
  <2>5. RoomFresh'
    BY <1>4, <2>1, <2>3, <2>4 DEF SeekRoom, RoomFresh, chainVars
  <2> QED BY <1>4, <2>2, <2>5 DEF SeekRoom, cleanVars
<1> QED BY <1>1, <1>2, <1>3, <1>4 DEF AddTransaction

\* The eviction loop and its ends.
LEMMA MakeRoomClean ==
  ASSUME CleanInv, MakeRoom
  PROVE  CleanInv'
<1> USE DEF CleanInv
<1>0. phase = "room" /\ conn = {} /\ adm.h \in Handler /\ Rest[1] \notin rows
  BY DEF MakeRoom, EvictNext, EvictGone, Outbid, AcceptInRoom,
         FamilyTooLargeInRoom, NoRoom, RoomFresh
<1>1. CASE EvictNext
  <2>1. mp'.pool \subseteq mp.pool
    BY <1>1, DropPackagesLess DEF EvictNext
  <2>2. ChainClosed' /\ Settled'
    BY <1>1, <2>1, SettledLess DEF EvictNext, cleanVars
  <2> QED BY <1>0, <1>1, <2>2 DEF EvictNext, RoomFresh, Rest, chainVars, cleanVars
<1>2. CASE EvictGone
  <2>2. ChainClosed' /\ Settled'
    BY <1>2, SettledLess DEF EvictGone, poolVars, cleanVars
  <2> QED BY <1>0, <1>2, <2>2 DEF EvictGone, RoomFresh, Rest, chainVars, cleanVars
<1>3. CASE Outbid
  <2>1. mp'.pool \subseteq mp.pool
    BY <1>3, DropPackagesLess DEF Outbid, GiveUp
  <2>2. ChainClosed' /\ Settled'
    BY <1>3, <2>1, SettledLess DEF Outbid, cleanVars
  <2> QED BY <1>0, <1>3, <2>2 DEF Outbid, GiveUp, LeaveRoom, RoomFresh, cleanVars
<1>4. CASE AcceptInRoom
  <2>1. mp'.pool \subseteq mp.pool \cup {Rest[1]}
    BY <1>4, InsertedLess DEF AcceptInRoom
  <2>2. ChainClosed' /\ Settled'
    BY <1>0, <1>4, <2>1, SettledStep DEF AcceptInRoom, cleanVars
  <2> QED BY <1>0, <1>4, <2>2 DEF AcceptInRoom, Advance, LeaveRoom, RoomFresh, cleanVars
<1>5. CASE FamilyTooLargeInRoom
  <2> DEFINE m == DropPackages(mp, Conflicts(mp, Rest[1]))
  <2>1. m.pool \subseteq mp.pool
    BY DropPackagesLess
  <2>2. mp' = DropPackages(m, Added)
    BY <1>5 DEF FamilyTooLargeInRoom, GiveUp
  <2> HIDE DEF m
  <2>3. mp'.pool \subseteq mp.pool
    BY <2>1, <2>2, DropPackagesLess
  <2>4. ChainClosed' /\ Settled'
    BY <1>5, <2>3, SettledLess DEF FamilyTooLargeInRoom, cleanVars
  <2> QED
    BY <1>0, <1>5, <2>4 DEF FamilyTooLargeInRoom, GiveUp, LeaveRoom, RoomFresh, cleanVars
<1>6. CASE NoRoom
  <2>1. mp'.pool \subseteq mp.pool
    BY <1>6, DropPackagesLess DEF NoRoom, GiveUp
  <2>2. ChainClosed' /\ Settled'
    BY <1>6, <2>1, SettledLess DEF NoRoom, cleanVars
  <2> QED BY <1>0, <1>6, <2>2 DEF NoRoom, GiveUp, LeaveRoom, RoomFresh, cleanVars
<1> QED BY <1>1, <1>2, <1>3, <1>4, <1>5, <1>6 DEF MakeRoom

\* The chain moves: the new tip's branch is what the old one was, and what
\* the clean-up has still to see.
LEMMA MoveChainClean ==
  ASSUME CleanInv, NEW b \in NonGenesis,
         ConnectTip(b) \/ Reorganise(b) \/ StoreSide(b) \/ StoreCollides(b)
  PROVE  CleanInv'
<1> USE DEF CleanInv
<1>0. /\ phase = "idle" /\ conn = {} /\ Parent[b] \in stored
      /\ b \in Block /\ Anc[b] = {b} \cup Anc[Parent[b]]
  BY TreeAssumption DEF ConnectTip, Reorganise, StoreSide, StoreCollides, Arrives, NonGenesis
<1>1. ASSUME stored' = stored \cup {b}, rows' = rows \cup BlockTxs(b), tip' \in {tip, b}
      PROVE  ChainClosed'
  BY <1>0, <1>1 DEF ChainClosed
<1>2. CASE ConnectTip(b)
  <2>1. ChainClosed'
    BY <1>1, <1>2 DEF ConnectTip
  <2>2. Settled'
    <3>1. mp' = mp /\ Anc[tip'] \ conn' \subseteq Anc[tip]
      BY <1>0, <1>2 DEF ConnectTip, poolVars
    <3> QED BY <1>0, <3>1 DEF Settled
  <2> QED BY <1>2, <2>1, <2>2 DEF ConnectTip, RoomFresh
<1>3. CASE Reorganise(b)
  <2>1. ChainClosed'
    BY <1>1, <1>3 DEF Reorganise
  <2>2. Settled'
    <3>1. mp' = mp /\ Anc[tip'] \ conn' \subseteq Anc[tip]
      BY <1>0, <1>3 DEF Reorganise, poolVars
    <3> QED BY <1>0, <3>1 DEF Settled
  <2> QED BY <1>3, <2>1, <2>2 DEF Reorganise, RoomFresh
<1>4. CASE StoreSide(b)
  <2>1. ChainClosed'
    BY <1>1, <1>4 DEF StoreSide
  <2> QED BY <1>0, <1>4, <2>1 DEF StoreSide, Settled, RoomFresh, poolVars, cleanVars
<1>5. CASE StoreCollides(b)
  <2>1. /\ rows \subseteq rows' /\ tip' = tip /\ stored' = stored /\ mp' = mp
        /\ conn' = conn /\ phase' = phase /\ task' = task
    BY <1>5 DEF StoreCollides, poolVars, cleanVars
  <2>2. ChainClosed'
    BY <2>1 DEF ChainClosed
  <2> QED BY <1>0, <2>1, <2>2 DEF Settled, RoomFresh
<1> QED BY <1>2, <1>3, <1>4, <1>5

\* The clean-up after a block.
LEMMA CleanUpClean ==
  ASSUME CleanInv, CleanUp
  PROVE  CleanInv'
<1> USE DEF CleanInv
<1>1. ASSUME NEW b \in NonGenesis, Confirm(b) PROVE CleanInv'
  <2>1. mp'.pool \subseteq mp.pool \ BlockTxs(b)
    BY <1>1, DropPackagesLess DEF Confirm
  <2>2. ChainClosed' /\ Settled'
    BY <1>1, <2>1, SettledLess DEF Confirm
  <2> QED BY <1>1, <2>2 DEF Confirm, RoomFresh
<1>2. ASSUME NEW t \in Tx, Revalidate(t) PROVE CleanInv'
  <2>1. mp'.pool \subseteq mp.pool
    BY <1>2, DropPackagesLess DEF Revalidate
  <2>2. ChainClosed' /\ Settled'
    BY <1>2, <2>1, SettledLess DEF Revalidate
  <2> QED BY <1>2, <2>2 DEF Revalidate, RoomFresh
<1>3. CASE CleanupDone
  <2>1. ChainClosed' /\ Settled'
    BY <1>3, SettledLess DEF CleanupDone, poolVars, cleanVars
  <2> QED BY <1>3, <2>1 DEF CleanupDone, RoomFresh, cleanVars
<1> QED BY <1>1, <1>2, <1>3 DEF CleanUp

\* An empty pool over the genesis block is clean.
LEMMA CleanInit == AdmissionInit => CleanInv
  BY TreeAssumption
     DEF AdmissionInit, CleanInv, ChainClosed, Settled, RoomFresh, EmptyPool

\* Every step keeps it so.
LEMMA CleanStep == CleanInv /\ [AdmissionNext]_admissionVars => CleanInv'
<1> SUFFICES ASSUME CleanInv, [AdmissionNext]_admissionVars PROVE CleanInv'
  OBVIOUS
<1>1. ASSUME NEW h \in Handler, Submit(h) PROVE CleanInv'
  BY <1>1, AddTransactionClean DEF Submit
<1>2. CASE MakeRoom
  BY <1>2, MakeRoomClean
<1>3. CASE MoveChain
  BY <1>3, MoveChainClean DEF MoveChain
<1>4. CASE CleanUp
  BY <1>4, CleanUpClean
<1>5. CASE UNCHANGED admissionVars
  BY <1>5 DEF admissionVars, poolVars, chainVars, roomVars, cleanVars,
              CleanInv, ChainClosed, Settled, RoomFresh, Rest
<1> QED BY <1>1, <1>2, <1>3, <1>4, <1>5 DEF AdmissionNext

\* Once the clean-up after a block or a reorganisation is over, no
\* transaction of the active chain is in the pool.
THEOREM PoolNeverConfirmed == AdmissionSpec => []NeverConfirmed
<1>1. CleanInv => NeverConfirmed
  BY DEF CleanInv, Settled, NeverConfirmed
<1> QED BY <1>1, CleanInit, CleanStep, PTL DEF AdmissionSpec
-----------------------------------------------------------------------------
(* LoadExact, WithinLimits and ReplacementPaysMore.  The totals are kept   *)
(* by increments and the limits are checked once, before room is made;     *)
(* evictions then change the pool the checks were about.  The invariant    *)
(* says what survives them.                                                *)

\* The totals are the sums over the pool, and only entries have descendants.
GoodPool(m) ==
    /\ m.pool \subseteq Tx
    /\ m.load = SizeOf(m.pool)
    /\ m.anc \in Links /\ m.desc \in Links
    /\ \A t \in Tx \ m.pool : m.desc[t] = {}

\* WithinLimits as a predicate of a pool value.
BoundedPool(m) ==
    /\ Cardinality(m.pool) <= MaxTransactions
    /\ m.load <= MaxLoad
    /\ \A t \in m.pool : /\ Cardinality(m.anc[t]) <= MaxAncestors
                         /\ Cardinality(m.desc[t]) <= MaxDescendants

\* t can pay for what it would push out of the pool as it is now.
Pays(m, t) ==
    Conflicts(m, t) # {} => Fee[t] > FeeOf(Replaced(m, t) \cap m.pool) + MinFee(t)

\* Members that a suspended package has still to add.
TasksTyped ==
    /\ task \in [Handler -> TaskType]
    /\ \A h \in Handler : task[h] # NoTask => task[h].todo # <<>>

\* What was checked of the newcomer before room was made for it still holds.
RoomInv ==
    phase = "room" =>
      /\ adm.h \in Handler
      /\ task[adm.h] # NoTask
      /\ Rest[1] \notin mp.pool
      /\ adm.anc \subseteq Tx
      /\ Cardinality(adm.anc) <= MaxAncestors
      /\ Pays(mp, Rest[1])

LimitsInv ==
    /\ GoodPool(mp)
    /\ BoundedPool(mp)
    /\ TasksTyped
    /\ RoomInv

\* n is what removals have left of m.
Less(n, m) ==
    /\ n.pool \subseteq m.pool
    /\ n.load <= m.load
    /\ \A t \in Tx : n.anc[t] \subseteq m.anc[t] /\ n.desc[t] \subseteq m.desc[t]

\* SizeOf and FeeOf are totals over sets of finitely many transactions.
LEMMA Totals ==
  /\ \A S : SizeOf(S) = Total(VSize, S) /\ FeeOf(S) = Total(Fee, S)
  /\ VSize \in [Tx -> Nat] /\ Fee \in [Tx -> Nat] /\ IsFiniteSet(Tx)
<1>1. \A S : SizeOf(S) = Total(VSize, S) /\ FeeOf(S) = Total(Fee, S)
  BY DEF SizeOf, FeeOf, Total
<1> QED BY <1>1, MempoolAssumption DEF MempoolAssumption

\* A total is a number.
LEMMA LoadNat ==
  ASSUME NEW m, GoodPool(m)
  PROVE  m.load \in Nat
<1>1. m.pool \in SUBSET Tx /\ m.load = Total(VSize, m.pool)
  BY Totals DEF GoodPool
<1>2. Total(VSize, m.pool) \in Nat
  BY <1>1, Totals, TotalStep
<1> QED BY <1>1, <1>2

\* A walk along fewer links from fewer places collects less, and it collects
\* transactions only.
LEMMA ReachLess ==
  ASSUME NEW start \in SUBSET Tx, NEW next \in Links,
         NEW start2 \in SUBSET start, NEW next2 \in Links,
         \A t \in Tx : next2[t] \subseteq next[t]
  PROVE  Reach(start2, next2) \subseteq Reach(start, next) /\ Reach(start, next) \subseteq Tx
<1> DEFINE named == start \cup UNION {next[t] : t \in Tx}
           named2 == start2 \cup UNION {next2[t] : t \in Tx}
<1>1. named \subseteq Tx /\ named2 \subseteq named
  BY DEF Links
<1>2. ASSUME NEW t \in Reach(start2, next2) PROVE t \in Reach(start, next)
  <2>1. t \in named
    BY <1>1 DEF Reach
  <2>2. ASSUME NEW S \in SUBSET named, start \subseteq S, \A u \in S : next[u] \subseteq S
        PROVE  t \in S
    <3> DEFINE S2 == S \cap named2
    <3>1. S2 \in SUBSET named2 /\ start2 \subseteq S2
      BY <2>2
    <3>2. \A u \in S2 : u \in Tx /\ next2[u] \subseteq next[u] /\ next[u] \subseteq S
      BY <1>1, <2>2
    <3>3. \A u \in S2 : next2[u] \subseteq S2
      BY <3>2
    <3> QED BY <3>1, <3>3 DEF Reach
  <2> QED BY <2>1, <2>2 DEF Reach
<1>3. Reach(start, next) \subseteq Tx
  BY <1>1 DEF Reach
<1> QED BY <1>2, <1>3

\* Removal keeps the totals exact and only shrinks.
LEMMA DropGood ==
  ASSUME NEW m, NEW R, GoodPool(m)
  PROVE  GoodPool(Drop(m, R)) /\ Less(Drop(m, R), m)
<1> DEFINE gone == m.pool \cap R
           n == Drop(m, R)
<1>1. /\ n.pool = m.pool \ gone
      /\ n.anc = Unlink(m.anc, m.desc, gone)
      /\ n.desc = Unlink(m.desc, m.anc, gone)
      /\ n.load = m.load - SizeOf(gone)
  BY DEF Drop, Unload
<1>2. n.load = SizeOf(n.pool) /\ n.load <= m.load
  <2>1. m.pool \in SUBSET Tx /\ gone \in SUBSET m.pool /\ gone \in SUBSET Tx
    BY DEF GoodPool
  <2>2. Total(VSize, m.pool \ gone) = Total(VSize, m.pool) - Total(VSize, gone)
    BY <2>1, Totals, TotalRemove
  <2>3. Total(VSize, m.pool) \in Nat /\ Total(VSize, gone) \in Nat
    BY <2>1, Totals, TotalStep
  <2>4. m.load = Total(VSize, m.pool) /\ n.load = m.load - Total(VSize, gone)
        /\ SizeOf(n.pool) = Total(VSize, m.pool \ gone)
    BY <1>1, Totals DEF GoodPool
  <2> QED BY <2>2, <2>3, <2>4
<1> HIDE DEF n, gone
<1>3. n.anc \in Links /\ n.desc \in Links
  BY <1>1 DEF GoodPool, Links, Unlink
<1>4. \A t \in Tx : n.anc[t] \subseteq m.anc[t] /\ n.desc[t] \subseteq m.desc[t]
  BY <1>1 DEF Unlink
<1>5. \A t \in Tx \ n.pool : n.desc[t] = {}
  BY <1>1 DEF Unlink, GoodPool
<1>6. GoodPool(n)
  BY <1>1, <1>2, <1>3, <1>5 DEF GoodPool
<1>7. Less(n, m)
  BY <1>1, <1>2, <1>4 DEF Less
<1> QED BY <1>6, <1>7 DEF n

\* So does the removal of packages.
LEMMA DropPackagesGood ==
  ASSUME NEW m, NEW S, GoodPool(m)
  PROVE  GoodPool(DropPackages(m, S)) /\ Less(DropPackages(m, S), m)
<1> DEFINE R == UNION {Package(m, t) : t \in S \cap m.pool}
<1>1. DropPackages(m, S) = Drop(m, R)
  BY DEF DropPackages
<1> HIDE DEF R
<1> QED BY <1>1, DropGood

\* Less keeps the limits.
LEMMA BoundedLess ==
  ASSUME NEW m, NEW n, GoodPool(m), GoodPool(n), Less(n, m), BoundedPool(m)
  PROVE  BoundedPool(n)
<1> DEFINE Smaller(a, b) == a \in SUBSET b /\ b \in SUBSET Tx
<1>0. ASSUME NEW a, NEW b, NEW k \in Nat, Smaller(a, b), Cardinality(b) <= k
      PROVE  Cardinality(a) <= k
  <2>1. Cardinality(a) <= Cardinality(b) /\ Cardinality(b) \in Nat
    BY <1>0, Totals, FiniteParts
  <2>2. Cardinality(a) \in Nat
    BY <1>0, Totals, FiniteParts
  <2> QED BY <1>0, <2>1, <2>2
<1>1. MaxTransactions \in Nat /\ MaxLoad \in Nat /\ MaxAncestors \in Nat /\ MaxDescendants \in Nat
  BY MempoolAssumption DEF MempoolAssumption
<1>2. Cardinality(n.pool) <= MaxTransactions
  <2>1. Smaller(n.pool, m.pool)
    BY DEF Less, GoodPool
  <2> QED BY <1>0, <1>1, <2>1 DEF BoundedPool
<1>3. n.load <= MaxLoad
  <2>1. n.load \in Nat /\ m.load \in Nat
    BY LoadNat
  <2> QED BY <1>1, <2>1 DEF Less, BoundedPool
<1>4. ASSUME NEW t \in n.pool
      PROVE  Cardinality(n.anc[t]) <= MaxAncestors /\ Cardinality(n.desc[t]) <= MaxDescendants
  <2>1. t \in m.pool /\ t \in Tx
    BY DEF Less, GoodPool
  <2>2. Smaller(n.anc[t], m.anc[t]) /\ Smaller(n.desc[t], m.desc[t])
    BY <2>1 DEF Less, GoodPool, Links
  <2>3. Cardinality(m.anc[t]) <= MaxAncestors /\ Cardinality(m.desc[t]) <= MaxDescendants
    BY <2>1 DEF BoundedPool
  <2> HIDE DEF Smaller
  <2> QED BY <1>0, <1>1, <2>2, <2>3
<1> QED BY <1>2, <1>3, <1>4 DEF BoundedPool

\* Less leaves less to pay for.
LEMMA PaysLess ==
  ASSUME NEW m, NEW n, NEW t \in Tx, GoodPool(m), GoodPool(n), Less(n, m), Pays(m, t)
  PROVE  Pays(n, t)
<1> SUFFICES ASSUME Conflicts(n, t) # {}
             PROVE  Fee[t] > FeeOf(Replaced(n, t) \cap n.pool) + MinFee(t)
  BY DEF Pays
<1> DEFINE small == Replaced(n, t) \cap n.pool
           large == Replaced(m, t) \cap m.pool
<1>1. Conflicts(n, t) \subseteq Conflicts(m, t)
  BY DEF Conflicts, Less
<1>2. ASSUME NEW u \in Conflicts(n, t) PROVE Package(n, u) \subseteq Package(m, u)
  <2>1. u \in Tx
    BY DEF Conflicts, GoodPool
  <2>2. /\ m.desc[u] \in SUBSET Tx /\ n.desc[u] \in SUBSET m.desc[u]
        /\ m.desc \in Links /\ n.desc \in Links
    BY <2>1 DEF GoodPool, Less, Links
  <2>3. \A v \in Tx : n.desc[v] \subseteq m.desc[v]
    BY DEF Less
  <2>4. Reach(n.desc[u], n.desc) \subseteq Reach(m.desc[u], m.desc)
    BY <2>2, <2>3, ReachLess
  <2> QED BY <2>4 DEF Package, Descendants
<1>3. small \subseteq large
  <2>1. Replaced(n, t) \subseteq Replaced(m, t)
    BY <1>1, <1>2 DEF Replaced
  <2> QED BY <2>1 DEF Less
<1>4. small \in SUBSET large /\ large \in SUBSET Tx
  BY <1>3 DEF GoodPool
<1>5. Fee[t] > FeeOf(large) + MinFee(t)
  BY <1>1 DEF Pays
<1> HIDE DEF small, large
<1>6. FeeOf(small) <= FeeOf(large)
  BY <1>4, Totals, TotalRemove
<1>7. FeeOf(small) \in Nat /\ FeeOf(large) \in Nat
  BY <1>4, Totals, TotalStep
<1>8. Fee[t] \in Nat /\ MinFee(t) \in Nat
  <2>1. Fee[t] \in Nat /\ VSize[t] \in Nat /\ MinRelayFee \in Nat
    BY MempoolAssumption DEF MempoolAssumption
  <2> QED BY <2>1 DEF MinFee
<1>9. Fee[t] > FeeOf(small) + MinFee(t)
  BY <1>5, <1>6, <1>7, <1>8
<1> QED BY <1>9 DEF small

\* An insertion adds the size of the newcomer.
LEMMA AddGood ==
  ASSUME NEW m, NEW t \in Tx \ m.pool, NEW par, NEW anc \in SUBSET Tx, GoodPool(m)
  PROVE  GoodPool(Add(m, t, par, anc))
<1> DEFINE n == Add(m, t, par, anc)
<1>1. /\ n.pool = m.pool \cup {t}
      /\ n.anc = [m.anc EXCEPT ![t] = anc]
      /\ n.desc = [u \in Tx |-> IF u \in anc \cap m.pool
                                THEN m.desc[u] \cup {t} ELSE m.desc[u]]
      /\ n.load = m.load + VSize[t]
  BY DEF Add
<1>2. n.load = SizeOf(n.pool)
  <2>1. m.pool \in SUBSET Tx
    BY DEF GoodPool
  <2>2. Total(VSize, m.pool \cup {t}) = Total(VSize, m.pool) + VSize[t]
    BY <2>1, Totals, TotalAdd
  <2> QED BY <1>1, <2>2, Totals DEF GoodPool
<1> HIDE DEF n
<1>3. n.anc \in Links /\ n.desc \in Links
  BY <1>1 DEF GoodPool, Links
<1>4. \A u \in Tx \ n.pool : n.desc[u] = {}
  BY <1>1 DEF GoodPool
<1>5. GoodPool(n)
  BY <1>1, <1>2, <1>3, <1>4 DEF GoodPool
<1> QED BY <1>5 DEF n

\* A newcomer that found room and whose family fits leaves the pool within
\* its limits.
LEMMA InsertedGood ==
  ASSUME NEW s, NEW par, NEW anc \in SUBSET Tx, GoodPool(mp), BoundedPool(mp),
         s[1] \in Tx \ mp.pool, HasRoom(mp, s[1]), Cardinality(anc) <= MaxAncestors,
         FamilyOK(Inserted(s, par, anc), anc)
  PROVE  GoodPool(Inserted(s, par, anc)) /\ BoundedPool(Inserted(s, par, anc))
<1> DEFINE t == s[1]
           m == DropPackages(mp, Conflicts(mp, t))
           n == Add(m, t, par, anc)
<1>1. GoodPool(m) /\ Less(m, mp)
  BY DropPackagesGood
<1>2. Inserted(s, par, anc) = n
  BY DEF Inserted
<1>3. BoundedPool(m) /\ t \in Tx \ m.pool
  BY <1>1, BoundedLess DEF Less
<1>4. /\ n.pool = m.pool \cup {t}
      /\ n.anc = [m.anc EXCEPT ![t] = anc]
      /\ n.desc = [u \in Tx |-> IF u \in anc \cap m.pool
                                THEN m.desc[u] \cup {t} ELSE m.desc[u]]
      /\ n.load = m.load + VSize[t]
  BY DEF Add
<1> HIDE DEF m, t
<1>5. GoodPool(n)
  BY <1>1, <1>3, AddGood
<1>6. FamilyOK(n, anc)
  BY <1>2 DEF t
<1>7. HasRoom(mp, t) /\ t \in Tx
  BY DEF t
<1> HIDE DEF n
<1>8. Cardinality(n.pool) <= MaxTransactions
  <2>1. mp.pool \in SUBSET Tx /\ m.pool \in SUBSET mp.pool /\ m.pool \in SUBSET Tx
    BY <1>1 DEF GoodPool, Less
  <2>2. Cardinality(m.pool) <= Cardinality(mp.pool) /\ Cardinality(mp.pool) \in Nat
    BY <2>1, Totals, FiniteParts
  <2>3. IsFiniteSet(m.pool) /\ Cardinality(m.pool) \in Nat
    BY <2>1, Totals, FiniteParts
  <2>4. Cardinality(m.pool \cup {t}) = Cardinality(m.pool) + 1
    BY <1>3, <2>3, FS_AddElement, Zenon
  <2>5. MaxTransactions \in Nat
    BY MempoolAssumption DEF MempoolAssumption
  <2> QED BY <1>4, <1>7, <2>2, <2>3, <2>4, <2>5 DEF HasRoom
<1>9. n.load <= MaxLoad
  <2>1. m.load \in Nat /\ mp.load \in Nat
    BY <1>1, LoadNat
  <2>2. VSize[t] \in Nat /\ MaxLoad \in Nat
    BY <1>7, MempoolAssumption DEF MempoolAssumption
  <2> QED BY <1>1, <1>4, <1>7, <2>1, <2>2 DEF HasRoom, Less
<1>10. ASSUME NEW u \in n.pool
       PROVE  Cardinality(n.anc[u]) <= MaxAncestors /\ Cardinality(n.desc[u]) <= MaxDescendants
  <2>1. u \in Tx /\ m.anc \in [Tx -> SUBSET Tx]
    BY <1>1, <1>5 DEF GoodPool, Links
  <2>2. Cardinality(n.anc[u]) <= MaxAncestors
    BY <1>3, <1>4, <1>7, <2>1 DEF BoundedPool
  <2>3. CASE u \in anc
    BY <1>6, <2>2, <2>3 DEF FamilyOK
  <2>4. CASE u \notin anc /\ u # t
    BY <1>3, <1>4, <2>1, <2>4 DEF BoundedPool
  <2>5. CASE u \notin anc /\ u = t
    <3>1. n.desc[u] = {}
      BY <1>1, <1>3, <1>4, <2>1, <2>5 DEF GoodPool
    <3>2. Cardinality({}) = 0 /\ MaxDescendants \in Nat
      BY FS_EmptySet, MempoolAssumption DEF MempoolAssumption
    <3> QED BY <2>2, <3>1, <3>2
  <2> QED BY <2>2, <2>3, <2>4, <2>5
<1>11. BoundedPool(n)
  BY <1>8, <1>9, <1>10 DEF BoundedPool
<1> QED BY <1>2, <1>5, <1>11

\* Replacement: what leaves is what the newcomer was compared with.
LEMMA InsertedPays ==
  ASSUME NEW s, NEW par, NEW anc, GoodPool(mp), s[1] \in Tx \ mp.pool, Pays(mp, s[1]),
         mp' = Inserted(s, par, anc)
  PROVE  \A t \in mp'.pool \ mp.pool :
            Conflicts(mp, t) # {} => Fee[t] > FeeOf(mp.pool \ mp'.pool) + MinFee(t)
<1> DEFINE R == Replaced(mp, s[1])
<1>1. DropPackages(mp, Conflicts(mp, s[1])) = Drop(mp, R)
  <2>1. Conflicts(mp, s[1]) \cap mp.pool = Conflicts(mp, s[1])
    BY DEF Conflicts
  <2> QED BY <2>1 DEF DropPackages, Replaced
<1>2. mp'.pool = (mp.pool \ (mp.pool \cap R)) \cup {s[1]}
  BY <1>1 DEF Inserted, Add, Drop
<1> HIDE DEF R
<1>3. mp'.pool \ mp.pool = {s[1]} /\ mp.pool \ mp'.pool = R \cap mp.pool
  BY <1>2
<1>4. Conflicts(mp, s[1]) # {} => Fee[s[1]] > FeeOf(R \cap mp.pool) + MinFee(s[1])
  BY DEF Pays, R
<1> QED BY <1>3, <1>4

\* What the checks of add_transaction establish of a newcomer.
LEMMA PassedChecks ==
  ASSUME NEW s, NEW added, GoodPool(mp), s[1] \in Tx, Passes(s, added)
  PROVE  LET anc == Ancestors(mp, Parents(s[1], rows))
         IN  /\ s[1] \notin mp.pool
             /\ anc \in SUBSET Tx
             /\ Cardinality(anc) <= MaxAncestors
             /\ Pays(mp, s[1])
<1> DEFINE par == Parents(s[1], rows)
<1>1. Admissible(mp, s[1], tip, rows)
  BY DEF Passes
<1>2. par \in SUBSET Tx /\ mp.anc \in Links
  BY DEF Parents, Funders, GoodPool
<1>3. Ancestors(mp, par) \in SUBSET Tx
  BY <1>2, ReachLess DEF Ancestors
<1>4. Pays(mp, s[1])
  BY <1>1 DEF Admissible, CanReplace, Pays
<1> QED BY <1>1, <1>3, <1>4 DEF Admissible

\* The calls name members, and at least one.
LEMMA OffersTyped ==
  ASSUME NEW s \in Offers
  PROVE  s \in Seq(Tx) /\ s # <<>>
<1>1. CASE \E t \in Loose : s = <<t>>
  BY <1>1, AdmissionAssumption DEF AdmissionAssumption
<1>2. ASSUME NEW S \in Packages, s \in PackageOrders(S) PROVE s \in Seq(Tx) /\ s # <<>>
  <2>1. S \in SUBSET Tx /\ S # {}
    BY AdmissionAssumption DEF AdmissionAssumption
  <2>2. Cardinality(S) \in Nat
    BY <2>1, Totals, FiniteParts
  <2>3. s \in [1..Cardinality(S) -> S] /\ \A t \in S : \E i \in DOMAIN s : s[i] = t
    BY <1>2 DEF PackageOrders
  <2>4. s \in Seq(S) /\ s \in Seq(Tx)
    BY <2>1, <2>2, <2>3
  <2>5. PICK t \in S : TRUE
    BY <2>1
  <2>6. DOMAIN s # {}
    BY <2>3, <2>5
  <2> QED BY <2>4, <2>6
<1> QED BY <1>1, <1>2 DEF Offers

\* A task goes on with members, or ends.
LEMMA TasksStep ==
  ASSUME TasksTyped, NEW h \in Handler, NEW s \in Seq(Tx), s # <<>>, NEW added \in SUBSET Tx,
         \/ task' = [task EXCEPT ![h] = NoTask]
         \/ task' = [task EXCEPT ![h] = [todo |-> s, added |-> added]]
         \/ Advance(h, s, added)
  PROVE  TasksTyped'
<1>1. s[1] \in Tx /\ Len(s) \in Nat \ {0}
  OBVIOUS
<1>2. NoTask \in TaskType
  BY DEF NoTask, TaskType
<1>3. [todo |-> s, added |-> added] \in TaskType
  BY DEF TaskType
<1>4. Len(s) # 1 => /\ Tail(s) \in Seq(Tx) /\ Tail(s) # <<>>
                    /\ [todo |-> Tail(s), added |-> added \cup {s[1]}] \in TaskType
  <2>1. Len(s) # 1 => Tail(s) \in Seq(Tx) /\ Len(Tail(s)) = Len(s) - 1
    BY <1>1
  <2>2. Len(s) # 1 => Tail(s) \in Seq(Tx) /\ Tail(s) # <<>>
    <3>1. Len(s) # 1 => Len(Tail(s)) # 0
      BY <1>1, <2>1
    <3>2. Len(<<>>) = 0
      OBVIOUS
    <3> QED BY <2>1, <3>1, <3>2, Zenon
  <2>3. added \cup {s[1]} \in SUBSET Tx
    BY <1>1
  <2> QED BY <2>2, <2>3 DEF TaskType
<1>5. PICK x \in TaskType : task' = [task EXCEPT ![h] = x] /\ (x # NoTask => x.todo # <<>>)
  BY <1>2, <1>3, <1>4 DEF Advance
<1> QED BY <1>5 DEF TasksTyped

\* Steps that only remove, outside the eviction loop.
LEMMA LessStep ==
  ASSUME LimitsInv, GoodPool(mp'), Less(mp', mp), TasksTyped', phase' # "room"
  PROVE  LimitsInv'
  BY BoundedLess DEF LimitsInv, RoomInv

\* A refused call rolls back, and only removes.
LEMMA GiveUpLess ==
  ASSUME NEW h, NEW added, NEW m, GoodPool(mp), GoodPool(m), Less(m, mp), GiveUp(h, added, m)
  PROVE  GoodPool(mp') /\ Less(mp', mp)
<1>1. GoodPool(mp') /\ Less(mp', m)
  BY DropPackagesGood DEF GiveUp
<1>2. mp'.load \in Nat /\ m.load \in Nat /\ mp.load \in Nat
  BY <1>1, LoadNat
<1> QED BY <1>1, <1>2 DEF Less

\* What the action property says of one step.
PaidStep ==
    \A t \in mp'.pool \ mp.pool :
        Conflicts(mp, t) # {} => Fee[t] > FeeOf(mp.pool \ mp'.pool) + MinFee(t)

\* A step that only removes brings nobody in.
LEMMA LessPaid ==
  ASSUME Less(mp', mp)
  PROVE  PaidStep
  BY DEF Less, PaidStep

\* A pool is no more than itself.
LEMMA SamePool ==
  ASSUME GoodPool(mp)
  PROVE  Less(mp, mp)
<1>1. mp.load \in Nat
  BY LoadNat
<1> QED BY <1>1 DEF Less

\* Admissions.
LEMMA AddTransactionLimits ==
  ASSUME LimitsInv, phase = "idle", NEW h \in Handler, NEW s \in Seq(Tx), s # <<>>,
         NEW added \in SUBSET Tx, AddTransaction(h, s, added)
  PROVE  LimitsInv' /\ PaidStep
<1>0. GoodPool(mp) /\ BoundedPool(mp) /\ TasksTyped /\ s[1] \in Tx
  BY DEF LimitsInv
<1>1. CASE Reject(h, s, added)
  <2>1. GoodPool(mp') /\ Less(mp', mp)
    BY <1>0, <1>1, SamePool, GiveUpLess DEF Reject
  <2>2. TasksTyped'
    BY <1>0, <1>1, TasksStep DEF Reject, GiveUp
  <2>3. phase' # "room"
    BY <1>1 DEF Reject
  <2> QED BY <2>1, <2>2, <2>3, LessStep, LessPaid
<1>2. CASE Accept(h, s, added)
  <2> DEFINE par == Parents(s[1], rows)
             anc == Ancestors(mp, par)
  <2>1. /\ Passes(s, added) /\ HasRoom(mp, s[1]) /\ FamilyOK(Inserted(s, par, anc), anc)
        /\ mp' = Inserted(s, par, anc) /\ Advance(h, s, added) /\ phase' # "room"
    BY <1>2 DEF Accept
  <2>2. /\ s[1] \in Tx \ mp.pool /\ anc \in SUBSET Tx /\ Cardinality(anc) <= MaxAncestors
        /\ Pays(mp, s[1])
    BY <1>0, <2>1, PassedChecks
  <2> HIDE DEF par, anc
  <2>3. GoodPool(mp') /\ BoundedPool(mp')
    BY <1>0, <2>1, <2>2, InsertedGood
  <2>4. TasksTyped'
    BY <1>0, <2>1, TasksStep
  <2>5. PaidStep
    BY <1>0, <2>1, <2>2, InsertedPays DEF PaidStep
  <2> QED BY <2>1, <2>3, <2>4, <2>5 DEF LimitsInv, RoomInv
<1>3. CASE FamilyTooLarge(h, s, added)
  <2> DEFINE m == DropPackages(mp, Conflicts(mp, s[1]))
  <2>1. GoodPool(m) /\ Less(m, mp)
    BY <1>0, DropPackagesGood
  <2>2. GiveUp(h, added, m) /\ phase' # "room"
    BY <1>3 DEF FamilyTooLarge
  <2> HIDE DEF m
  <2>3. GoodPool(mp') /\ Less(mp', mp)
    BY <1>0, <2>1, <2>2, GiveUpLess
  <2>4. TasksTyped'
    BY <1>0, <2>2, TasksStep DEF GiveUp
  <2> QED BY <2>2, <2>3, <2>4, LessStep, LessPaid
<1>4. CASE SeekRoom(h, s, added)
  <2> DEFINE par == Parents(s[1], rows)
             anc == Ancestors(mp, par)
  <2>1. /\ Passes(s, added) /\ mp' = mp
        /\ adm' = [h |-> h, par |-> par, anc |-> anc]
        /\ task' = [task EXCEPT ![h] = [todo |-> s, added |-> added]]
    BY <1>4 DEF SeekRoom, poolVars
  <2>2. /\ s[1] \notin mp.pool /\ anc \in SUBSET Tx /\ Cardinality(anc) <= MaxAncestors
        /\ Pays(mp, s[1])
    BY <1>0, <2>1, PassedChecks
  <2> HIDE DEF par, anc
  <2>3. TasksTyped'
    BY <1>0, <2>1, TasksStep
  <2>4. adm'.h = h /\ adm'.anc = anc /\ task'[h] = [todo |-> s, added |-> added]
    BY <1>0, <2>1 DEF TasksTyped
  <2>5. task'[adm'.h] # NoTask /\ Rest' = s
    BY <2>4 DEF NoTask, Rest
  <2>6. Pays(mp, s[1])' /\ GoodPool(mp') /\ BoundedPool(mp')
    BY <1>0, <2>1, <2>2
  <2>7. RoomInv'
    BY <2>1, <2>2, <2>4, <2>5 DEF RoomInv
  <2>8. PaidStep
    BY <2>1 DEF PaidStep
  <2> QED BY <2>3, <2>6, <2>7, <2>8 DEF LimitsInv
<1> QED BY <1>1, <1>2, <1>3, <1>4 DEF AddTransaction

\* The eviction loop and its ends.
LEMMA MakeRoomLimits ==
  ASSUME LimitsInv, MakeRoom
  PROVE  LimitsInv' /\ PaidStep
<1>0. /\ GoodPool(mp) /\ BoundedPool(mp) /\ TasksTyped /\ phase = "room"
      /\ adm.h \in Handler /\ Rest[1] \notin mp.pool /\ task[adm.h] # NoTask
      /\ adm.anc \in SUBSET Tx /\ Cardinality(adm.anc) <= MaxAncestors /\ Pays(mp, Rest[1])
  BY DEF LimitsInv, RoomInv, MakeRoom, EvictNext, EvictGone, Outbid, AcceptInRoom,
         FamilyTooLargeInRoom, NoRoom
<1>00. Rest \in Seq(Tx) /\ Rest # <<>> /\ Rest[1] \in Tx /\ Added \in SUBSET Tx
  <2>1. Rest \in Seq(Tx) /\ Rest # <<>> /\ Added \in SUBSET Tx
    BY <1>0 DEF TasksTyped, TaskType, Rest, Added
  <2> QED BY <2>1
<1>1. CASE EvictNext
  <2>1. GoodPool(mp') /\ Less(mp', mp)
    BY <1>0, <1>1, DropPackagesGood DEF EvictNext
  <2>2. BoundedPool(mp') /\ Pays(mp', Rest[1])
    BY <1>0, <1>00, <2>1, BoundedLess, PaysLess
  <2>3. phase' = phase /\ adm' = adm /\ task' = task /\ Rest' = Rest
    BY <1>1 DEF EvictNext, Rest
  <2>4. RoomInv' /\ TasksTyped'
    BY <1>0, <2>1, <2>2, <2>3 DEF RoomInv, TasksTyped, Less
  <2> QED BY <2>1, <2>2, <2>4, LessPaid DEF LimitsInv
<1>2. CASE EvictGone
  <2>1. mp' = mp /\ phase' = phase /\ adm' = adm /\ task' = task /\ Rest' = Rest
    BY <1>2 DEF EvictGone, poolVars, Rest
  <2>2. RoomInv' /\ TasksTyped'
    BY <1>0, <2>1 DEF RoomInv, TasksTyped
  <2>3. Less(mp', mp)
    BY <1>0, <2>1, SamePool
  <2> QED BY <1>0, <2>1, <2>2, <2>3, LessPaid DEF LimitsInv
<1>3. CASE Outbid
  <2>1. GiveUp(adm.h, Added, mp) /\ phase' # "room"
    BY <1>3 DEF Outbid, LeaveRoom
  <2>2. GoodPool(mp') /\ Less(mp', mp)
    BY <1>0, <2>1, SamePool, GiveUpLess
  <2>3. TasksTyped'
    BY <1>0, <1>00, <2>1, TasksStep DEF GiveUp
  <2> QED BY <2>1, <2>2, <2>3, LessStep, LessPaid
<1>4. CASE AcceptInRoom
  <2>1. /\ HasRoom(mp, Rest[1]) /\ FamilyOK(Inserted(Rest, adm.par, adm.anc), adm.anc)
        /\ mp' = Inserted(Rest, adm.par, adm.anc) /\ Advance(adm.h, Rest, Added)
        /\ phase' # "room"
    BY <1>4 DEF AcceptInRoom, LeaveRoom
  <2>2. GoodPool(mp') /\ BoundedPool(mp')
    BY <1>0, <1>00, <2>1, InsertedGood
  <2>3. TasksTyped'
    BY <1>0, <1>00, <2>1, TasksStep
  <2>4. PaidStep
    BY <1>0, <1>00, <2>1, InsertedPays DEF PaidStep
  <2> QED BY <2>1, <2>2, <2>3, <2>4 DEF LimitsInv, RoomInv
<1>5. CASE FamilyTooLargeInRoom
  <2> DEFINE m == DropPackages(mp, Conflicts(mp, Rest[1]))
  <2>1. GoodPool(m) /\ Less(m, mp)
    BY <1>0, DropPackagesGood
  <2>2. GiveUp(adm.h, Added, m) /\ phase' # "room"
    BY <1>5 DEF FamilyTooLargeInRoom, LeaveRoom
  <2> HIDE DEF m
  <2>3. GoodPool(mp') /\ Less(mp', mp)
    BY <1>0, <2>1, <2>2, GiveUpLess
  <2>4. TasksTyped'
    BY <1>0, <1>00, <2>2, TasksStep DEF GiveUp
  <2> QED BY <2>2, <2>3, <2>4, LessStep, LessPaid
<1>6. CASE NoRoom
  <2>1. GiveUp(adm.h, Added, mp) /\ phase' # "room"
    BY <1>6 DEF NoRoom, LeaveRoom
  <2>2. GoodPool(mp') /\ Less(mp', mp)
    BY <1>0, <2>1, SamePool, GiveUpLess
  <2>3. TasksTyped'
    BY <1>0, <1>00, <2>1, TasksStep DEF GiveUp
  <2> QED BY <2>1, <2>2, <2>3, LessStep, LessPaid
<1> QED BY <1>1, <1>2, <1>3, <1>4, <1>5, <1>6 DEF MakeRoom

\* The chain moves and the clean-up after it.
LEMMA ChainLimits ==
  ASSUME LimitsInv, MoveChain \/ CleanUp
  PROVE  LimitsInv' /\ PaidStep
<1>0. GoodPool(mp) /\ Less(mp, mp)
  BY SamePool DEF LimitsInv
<1>1. task' = task /\ phase' # "room" /\ (mp' = mp \/ \E S : mp' = DropPackages(mp, S))
  <2>1. CASE MoveChain
    BY <2>1 DEF MoveChain, ConnectTip, Reorganise, StoreSide, StoreCollides, Arrives, poolVars
  <2>2. ASSUME NEW b \in NonGenesis, Confirm(b)
        PROVE  task' = task /\ phase' # "room" /\ \E S : mp' = DropPackages(mp, S)
    BY <2>2 DEF Confirm
  <2>3. ASSUME NEW t \in Tx, Revalidate(t)
        PROVE  task' = task /\ phase' # "room" /\ (mp' = mp \/ \E S : mp' = DropPackages(mp, S))
    BY <2>3 DEF Revalidate
  <2>4. CASE CleanupDone
    BY <2>4 DEF CleanupDone, poolVars
  <2> QED BY <2>1, <2>2, <2>3, <2>4 DEF CleanUp
<1>2. GoodPool(mp') /\ Less(mp', mp)
  BY <1>0, <1>1, DropPackagesGood
<1>3. TasksTyped'
  BY <1>1 DEF LimitsInv, TasksTyped
<1> QED BY <1>1, <1>2, <1>3, LessStep, LessPaid

\* An empty pool is within every limit.
LEMMA LimitsInit == AdmissionInit => LimitsInv
<1> SUFFICES ASSUME AdmissionInit PROVE LimitsInv
  OBVIOUS
<1>1. Total(VSize, {}) = 0
  BY Totals, TotalStep
<1>2. GoodPool(mp)
  BY <1>1, Totals DEF AdmissionInit, EmptyPool, GoodPool, Links
<1>3. BoundedPool(mp)
  BY FS_EmptySet, MempoolAssumption DEF AdmissionInit, EmptyPool, BoundedPool, MempoolAssumption
<1>4. TasksTyped /\ RoomInv
  BY DEF AdmissionInit, TasksTyped, RoomInv, TaskType, NoTask
<1> QED BY <1>2, <1>3, <1>4 DEF LimitsInv

\* Every step keeps the invariant, and what comes in has paid for what it
\* pushes out.
LEMMA LimitsStep ==
  ASSUME LimitsInv, [AdmissionNext]_admissionVars
  PROVE  LimitsInv' /\ [PaidStep]_admissionVars
<1>1. ASSUME NEW h \in Handler, Submit(h) PROVE LimitsInv' /\ PaidStep
  <2>1. CASE task[h] = NoTask /\ \E s \in Offers : AddTransaction(h, s, {})
    <3>1. PICK s \in Offers : AddTransaction(h, s, {})
      BY <2>1
    <3> QED BY <1>1, <3>1, OffersTyped, AddTransactionLimits DEF Submit
  <2>2. CASE task[h] # NoTask /\ AddTransaction(h, task[h].todo, task[h].added)
    <3>1. task[h].todo \in Seq(Tx) /\ task[h].todo # <<>> /\ task[h].added \in SUBSET Tx
      BY <2>2 DEF LimitsInv, TasksTyped, TaskType
    <3> QED BY <1>1, <2>2, <3>1, AddTransactionLimits DEF Submit
  <2> QED BY <1>1, <2>1, <2>2 DEF Submit
<1>2. CASE UNCHANGED admissionVars
  BY <1>2 DEF admissionVars, poolVars, chainVars, roomVars, cleanVars,
              LimitsInv, TasksTyped, RoomInv, Rest
<1> QED BY <1>1, <1>2, MakeRoomLimits, ChainLimits DEF AdmissionNext

\* The running totals are the sums over the pool, whatever came in, went out
\* or was rolled back.
THEOREM LoadAlwaysExact == AdmissionSpec => []LoadExact
<1>1. LimitsInv /\ [AdmissionNext]_admissionVars => LimitsInv'
  BY LimitsStep
<1>2. LimitsInv => LoadExact
  BY DEF LimitsInv, GoodPool, LoadExact
<1> QED BY <1>1, <1>2, LimitsInit, PTL DEF AdmissionSpec

\* The count and size limits and the ancestor and descendant limits of every
\* entry hold at every step, also within an eviction loop.
THEOREM LimitsAlwaysHold == AdmissionSpec => []WithinLimits
<1>1. LimitsInv /\ [AdmissionNext]_admissionVars => LimitsInv'
  BY LimitsStep
<1>2. LimitsInv => WithinLimits
  BY DEF LimitsInv, BoundedPool, WithinLimits
<1> QED BY <1>1, <1>2, LimitsInit, PTL DEF AdmissionSpec

\* A newcomer pays more than all it pushes out together, also when evictions
\* have changed the pool since the fees were compared.
THEOREM ReplacementsPay == AdmissionSpec => ReplacementPaysMore
<1>1. LimitsInv /\ [AdmissionNext]_admissionVars => LimitsInv'
  BY LimitsStep
<1>2. LimitsInv /\ [AdmissionNext]_admissionVars => [PaidStep]_admissionVars
  BY LimitsStep
<1> QED BY <1>1, <1>2, LimitsInit, PTL DEF AdmissionSpec, ReplacementPaysMore, PaidStep

-----------------------------------------------------------------------------
(* LinksMirror and InputsAvailable.  Neither holds of every input and      *)
(* schedule: a newcomer may spend what an ancestor of it spends and so     *)
(* push its own family out, the eviction loop may take an ancestor of the  *)
(* newcomer it makes room for, and a parent that a stored side block lists *)
(* counts as confirmed though it is in the pool.  The theorems say that    *)
(* these three are the only ways: where they do not happen, the links      *)
(* mirror each other and every input is there.                             *)

\* what the handlers ever submit
Offered == Loose \cup UNION Packages

\* a transaction's ancestors, in the pool or not
Forebears(t) == Reach(Funders(t), [u \in Tx |-> Funders(u)])

\* No transaction that is submitted spends what an ancestor of it spends.
NoSelfConflict ==
    \A t \in Offered : \A u \in Forebears(t) \cap Offered : TxIn[u] \cap TxIn[t] = {}

\* No eviction takes an ancestor of the newcomer.
FamilyStays == phase = "room" => adm.anc \subseteq mp.pool

\* No newcomer has a parent in the pool that the transactions table lists.
NoListedParent ==
    phase = "idle" => \A t \in Offered :
        Admissible(mp, t, tip, rows) => Funders(t) \cap mp.pool \cap rows = {}

\* A walk collects where it starts and what it passes, and stays within
\* every set that holds its start and is closed under its links.
LEMMA ReachClosed ==
  ASSUME NEW start \in SUBSET Tx, NEW next \in Links
  PROVE  /\ start \subseteq Reach(start, next)
         /\ Reach(start, next) \subseteq Tx
         /\ \A u \in Reach(start, next) : next[u] \subseteq Reach(start, next)
         /\ \A S : start \subseteq S /\ (\A u \in S \cap Tx : next[u] \subseteq S)
                     => Reach(start, next) \subseteq S
<1> DEFINE named == start \cup UNION {next[t] : t \in Tx}
<1>1. named \subseteq Tx
  BY DEF Links
<1>2. start \subseteq Reach(start, next) /\ Reach(start, next) \subseteq Tx
  BY <1>1 DEF Reach
<1>3. ASSUME NEW u \in Reach(start, next), NEW v \in next[u] PROVE v \in Reach(start, next)
  <2>1. u \in Tx /\ v \in named
    BY <1>2
  <2>2. ASSUME NEW S \in SUBSET named, start \subseteq S, \A w \in S : next[w] \subseteq S
        PROVE  v \in S
    <3>1. u \in S
      BY <2>2 DEF Reach
    <3> QED BY <2>2, <3>1
  <2> QED BY <2>1, <2>2 DEF Reach
<1>4. ASSUME NEW S, start \subseteq S, \A u \in S \cap Tx : next[u] \subseteq S,
             NEW v \in Reach(start, next)
      PROVE  v \in S
  <2> DEFINE S2 == S \cap named
  <2>1. S2 \in SUBSET named /\ start \subseteq S2
    BY <1>4
  <2>2. \A u \in S2 : next[u] \subseteq S2
    BY <1>1, <1>4
  <2>3. v \in S2
    BY <2>1, <2>2 DEF Reach
  <2> QED BY <2>3
<1> QED BY <1>2, <1>3, <1>4

\* Ancestors of ancestors are ancestors.
LEMMA ForebearsClosed ==
  ASSUME NEW t \in Tx
  PROVE  /\ Funders(t) \subseteq Forebears(t)
         /\ Forebears(t) \subseteq Tx
         /\ \A u \in Forebears(t) : Forebears(u) \subseteq Forebears(t)
<1> DEFINE next == [u \in Tx |-> Funders(u)]
<1>1. next \in Links /\ \A u \in Tx : next[u] = Funders(u) /\ Funders(u) \in SUBSET Tx
  BY DEF Links, Funders
<1>2. \A u \in Tx : Forebears(u) = Reach(Funders(u), next)
  BY DEF Forebears
<1> HIDE DEF next
<1>3. /\ Funders(t) \subseteq Forebears(t) /\ Forebears(t) \subseteq Tx
      /\ \A u \in Forebears(t) : next[u] \subseteq Forebears(t)
  BY <1>1, <1>2, ReachClosed
<1>4. ASSUME NEW u \in Forebears(t) PROVE Forebears(u) \subseteq Forebears(t)
  <2>1. u \in Tx /\ Funders(u) \subseteq Forebears(t)
    BY <1>1, <1>3
  <2> QED BY <1>1, <1>2, <1>3, <2>1, ReachClosed
<1> QED BY <1>3, <1>4

\* LinksMirror as a predicate of a pool value, with what makes it last:
\* recorded ancestors are ancestors, and only what was submitted comes in.
LinkedPool(m) ==
    /\ GoodPool(m)
    /\ m.pool \subseteq Offered
    /\ \A t \in Tx : m.anc[t] \subseteq Forebears(t)
    /\ \A t \in m.pool : /\ m.anc[t] \subseteq m.pool
                         /\ m.desc[t] = {u \in m.pool : t \in m.anc[u]}

\* Whatever leaves, the links of those that stay name each other.
LEMMA DropLinked ==
  ASSUME NEW m, NEW R, LinkedPool(m)
  PROVE  LinkedPool(Drop(m, R))
<1> DEFINE gone == m.pool \cap R
           n == Drop(m, R)
<1>1. /\ n.pool = m.pool \ gone
      /\ n.anc = Unlink(m.anc, m.desc, gone)
      /\ n.desc = Unlink(m.desc, m.anc, gone)
  BY DEF Drop
<1>2. GoodPool(n) /\ Less(n, m) /\ m.pool \subseteq Tx
  BY DropGood DEF LinkedPool, GoodPool
<1> HIDE DEF n, gone
<1>3. /\ gone \subseteq m.pool
      /\ \A t \in n.pool : /\ t \in Tx /\ t \in m.pool
                           /\ n.anc[t] = m.anc[t] \ {r \in gone : t \in m.desc[r]}
                           /\ n.desc[t] = m.desc[t] \ {r \in gone : t \in m.anc[r]}
  BY <1>1, <1>2 DEF Unlink, gone
<1>4. \A t \in m.pool : /\ m.anc[t] \subseteq m.pool
                        /\ m.desc[t] = {u \in m.pool : t \in m.anc[u]}
  BY DEF LinkedPool
<1>5. \A t \in n.pool : n.anc[t] = m.anc[t] \ gone
  BY <1>3, <1>4
<1>6. \A t \in n.pool : n.anc[t] \subseteq n.pool
  BY <1>1, <1>3, <1>4, <1>5
<1>7. ASSUME NEW t \in n.pool PROVE n.desc[t] = {u \in n.pool : t \in n.anc[u]}
  <2>1. n.desc[t] = m.desc[t] \ gone
    BY <1>3, <1>4
  <2>2. t \notin gone
    BY <1>1
  <2> QED BY <1>1, <1>3, <1>4, <1>5, <2>1, <2>2
<1>8. \A t \in Tx : n.anc[t] \subseteq Forebears(t)
  BY <1>2 DEF LinkedPool, Less
<1>9. n.pool \subseteq Offered
  BY <1>1 DEF LinkedPool
<1> QED BY <1>2, <1>6, <1>7, <1>8, <1>9 DEF LinkedPool, n

\* So do those of the survivors when packages leave.
LEMMA DropPackagesLinked ==
  ASSUME NEW m, NEW S, LinkedPool(m)
  PROVE  LinkedPool(DropPackages(m, S))
<1> DEFINE R == UNION {Package(m, t) : t \in S \cap m.pool}
<1>1. DropPackages(m, S) = Drop(m, R)
  BY DEF DropPackages
<1> HIDE DEF R
<1> QED BY <1>1, DropLinked

\* A newcomer whose ancestors are all there is linked with them.
LEMMA AddLinked ==
  ASSUME NEW m, NEW t \in Offered \ m.pool, t \in Tx, NEW par, NEW anc \in SUBSET m.pool,
         anc \subseteq Forebears(t), LinkedPool(m)
  PROVE  LinkedPool(Add(m, t, par, anc))
<1> DEFINE n == Add(m, t, par, anc)
<1>0. m.pool \subseteq Tx /\ m.anc \in [Tx -> SUBSET Tx] /\ m.desc[t] = {}
  BY DEF LinkedPool, GoodPool, Links
<1>1. GoodPool(n)
  BY <1>0, AddGood DEF LinkedPool
<1>2. /\ n.pool = m.pool \cup {t}
      /\ n.anc = [m.anc EXCEPT ![t] = anc]
      /\ n.desc = [u \in Tx |-> IF u \in anc \cap m.pool
                                THEN m.desc[u] \cup {t} ELSE m.desc[u]]
  BY DEF Add
<1> HIDE DEF n
<1>3. n.anc[t] = anc /\ \A u \in Tx : u # t => n.anc[u] = m.anc[u]
  BY <1>0, <1>2
<1>4. \A u \in n.pool : n.anc[u] \subseteq m.pool
  BY <1>2, <1>3, <1>0 DEF LinkedPool
<1>5. ASSUME NEW u \in n.pool PROVE n.desc[u] = {v \in n.pool : u \in n.anc[v]}
  <2>1. CASE u = t
    BY <1>0, <1>2, <1>4, <2>1
  <2>2. CASE u \in m.pool
    <3>1. m.desc[u] = {v \in m.pool : u \in m.anc[v]} /\ u \in Tx
      BY <2>2, <1>0 DEF LinkedPool
    <3>2. n.desc[u] = IF u \in anc THEN m.desc[u] \cup {t} ELSE m.desc[u]
      BY <1>2, <2>2, <3>1
    <3>3. \A v \in m.pool : n.anc[v] = m.anc[v]
      BY <1>0, <1>3
    <3> QED BY <1>2, <1>3, <3>1, <3>2, <3>3
  <2> QED BY <1>2, <2>1, <2>2
<1>6. \A u \in Tx : n.anc[u] \subseteq Forebears(u)
  BY <1>3 DEF LinkedPool
<1>7. n.pool \subseteq Offered
  BY <1>2 DEF LinkedPool
<1> QED BY <1>1, <1>2, <1>4, <1>5, <1>6, <1>7 DEF LinkedPool, n

\* Everything a removal of u takes descends from u.
LEMMA PackageDescends ==
  ASSUME NEW m, LinkedPool(m), NEW u \in m.pool, NEW a \in Package(m, u)
  PROVE  a = u \/ (a \in Tx /\ u \in Forebears(a))
<1>0. m.pool \subseteq Tx /\ m.desc \in Links /\ u \in Tx /\ m.desc[u] \in SUBSET Tx
  BY DEF LinkedPool, GoodPool, Links
<1>1. \A x \in Tx : \A y \in m.desc[x] : y \in Tx /\ x \in Forebears(y)
  <2> SUFFICES ASSUME NEW x \in Tx, NEW y \in m.desc[x] PROVE y \in Tx /\ x \in Forebears(y)
    OBVIOUS
  <2>1. x \in m.pool
    BY DEF LinkedPool, GoodPool
  <2>2. y \in m.pool /\ x \in m.anc[y]
    BY <2>1 DEF LinkedPool
  <2> QED BY <1>0, <2>2 DEF LinkedPool
<1> DEFINE S == {x \in Tx : u \in Forebears(x)}
<1>2. m.desc[u] \subseteq S
  BY <1>0, <1>1
<1>3. \A x \in S \cap Tx : m.desc[x] \subseteq S
  <2> SUFFICES ASSUME NEW x \in S, NEW y \in m.desc[x] PROVE y \in S
    OBVIOUS
  <2>1. y \in Tx /\ x \in Forebears(y) /\ u \in Forebears(x)
    BY <1>1
  <2> QED BY <2>1, ForebearsClosed
<1> HIDE DEF S
<1>4. Reach(m.desc[u], m.desc) \subseteq S
  BY <1>0, <1>2, <1>3, ReachClosed
<1> QED BY <1>4 DEF Package, Descendants, S

\* A newcomer that spends nothing its ancestors spend keeps them when it
\* replaces others.
LEMMA FamilyKept ==
  ASSUME NoSelfConflict, NEW m, LinkedPool(m), NEW t \in Offered, t \in Tx,
         NEW anc \in SUBSET m.pool, anc \subseteq Forebears(t)
  PROVE  anc \subseteq DropPackages(m, Conflicts(m, t)).pool
<1> DEFINE R == UNION {Package(m, u) : u \in Conflicts(m, t) \cap m.pool}
<1>1. DropPackages(m, Conflicts(m, t)).pool = m.pool \ (m.pool \cap R)
  BY DEF DropPackages, Drop
<1>2. ASSUME NEW a \in anc, a \in R PROVE FALSE
  <2>1. PICK u \in Conflicts(m, t) \cap m.pool : a \in Package(m, u)
    BY <1>2
  <2>2. a = u \/ (a \in Tx /\ u \in Forebears(a))
    BY <2>1, PackageDescends
  <2>3. u \in Forebears(t)
    BY <2>2, ForebearsClosed
  <2>4. u \in Offered /\ TxIn[u] \cap TxIn[t] # {}
    BY <2>1 DEF Conflicts, LinkedPool
  <2> QED BY <2>3, <2>4 DEF NoSelfConflict
<1> QED BY <1>1, <1>2

\* So an insertion keeps the links.
LEMMA InsertedLinked ==
  ASSUME NoSelfConflict, LinkedPool(mp), NEW s, s[1] \in Offered \ mp.pool, s[1] \in Tx,
         NEW par, NEW anc \in SUBSET mp.pool, anc \subseteq Forebears(s[1])
  PROVE  LinkedPool(Inserted(s, par, anc))
<1> DEFINE m == DropPackages(mp, Conflicts(mp, s[1]))
<1>1. LinkedPool(m) /\ m.pool \subseteq mp.pool
  BY DropPackagesLinked, DropPackagesLess
<1>2. anc \in SUBSET m.pool
  BY FamilyKept
<1>3. Inserted(s, par, anc) = Add(m, s[1], par, anc)
  BY DEF Inserted
<1> HIDE DEF m
<1>4. s[1] \in Offered \ m.pool
  BY <1>1
<1> QED BY <1>1, <1>2, <1>3, <1>4, AddLinked

\* The ancestors _collect_ancestors finds are in the pool, and they are
\* ancestors.
LEMMA PassedFamily ==
  ASSUME LinkedPool(mp), NEW s, NEW added, s[1] \in Tx, Passes(s, added)
  PROVE  LET par == Parents(s[1], rows)
             anc == Ancestors(mp, par)
         IN  /\ par \subseteq anc
             /\ anc \in SUBSET mp.pool
             /\ anc \subseteq Forebears(s[1])
<1> DEFINE par == Parents(s[1], rows)
           anc == Ancestors(mp, par)
           F == Forebears(s[1])
<1>1. par \subseteq mp.pool /\ par \subseteq Funders(s[1]) /\ par \in SUBSET Tx
  BY DEF Passes, Admissible, Connected, Parents, Funders
<1>2. mp.anc \in Links /\ mp.pool \subseteq Tx
  BY DEF LinkedPool, GoodPool
<1>3. \A u \in mp.pool \cap Tx : mp.anc[u] \subseteq mp.pool
  BY DEF LinkedPool
<1>4. par \subseteq F /\ F \subseteq Tx
  BY <1>1, ForebearsClosed
<1>5. \A u \in F \cap Tx : mp.anc[u] \subseteq F
  <2> SUFFICES ASSUME NEW u \in F, u \in Tx PROVE mp.anc[u] \subseteq F
    OBVIOUS
  <2>1. Forebears(u) \subseteq F
    BY ForebearsClosed
  <2> QED BY <2>1 DEF LinkedPool
<1>6. anc = Reach(par, mp.anc)
  BY DEF Ancestors
<1> HIDE DEF par, anc, F
<1>7. par \subseteq anc /\ anc \subseteq mp.pool /\ anc \subseteq F
  BY <1>1, <1>2, <1>3, <1>4, <1>5, <1>6, ReachClosed
<1> QED BY <1>7 DEF par, anc, F

\* Members that a suspended package has still to add were submitted.
TasksOffered == \A h \in Handler : task[h].todo \in Seq(Offered)

LinksInv ==
    /\ LinkedPool(mp)
    /\ TasksOffered
    /\ phase = "room" => adm.anc \subseteq Forebears(Rest[1])

\* The calls name transactions that are submitted.
LEMMA OfferedTyped ==
  /\ Offered \subseteq Tx
  /\ \A s \in Offers : s \in Seq(Offered) /\ s # <<>>
<1>1. Offered \subseteq Tx
  BY AdmissionAssumption DEF AdmissionAssumption, Offered
<1>2. ASSUME NEW s \in Offers PROVE s \in Seq(Offered)
  <2>1. CASE \E t \in Loose : s = <<t>>
    BY <2>1 DEF Offered
  <2>2. ASSUME NEW S \in Packages, s \in PackageOrders(S) PROVE s \in Seq(Offered)
    <3>1. S \in SUBSET Tx /\ S \subseteq Offered
      BY AdmissionAssumption DEF AdmissionAssumption, Offered
    <3>2. Cardinality(S) \in Nat
      BY <3>1, Totals, FiniteParts
    <3>3. s \in [1..Cardinality(S) -> S]
      BY <2>2 DEF PackageOrders
    <3>4. s \in [1..Cardinality(S) -> Offered]
      BY <3>1, <3>3
    <3> QED BY <3>2, <3>4
  <2> QED BY <2>1, <2>2 DEF Offers
<1> QED BY <1>1, <1>2, OffersTyped

\* A task goes on with members of what it was given.
LEMMA TasksOfferedStep ==
  ASSUME TasksTyped, TasksOffered, NEW h \in Handler, NEW s \in Seq(Offered), s # <<>>, NEW added,
         \/ task' = [task EXCEPT ![h] = NoTask]
         \/ task' = [task EXCEPT ![h] = [todo |-> s, added |-> added]]
         \/ Advance(h, s, added)
  PROVE  TasksOffered'
<1>1. Len(s) # 1 => Tail(s) \in Seq(Offered)
  OBVIOUS
<1>2. NoTask.todo \in Seq(Offered)
  BY DEF NoTask
<1>3. PICK x : task' = [task EXCEPT ![h] = x] /\ x.todo \in Seq(Offered)
  BY <1>1, <1>2 DEF Advance
<1> QED BY <1>3 DEF TasksOffered, TasksTyped

\* Admissions.
LEMMA AddTransactionLinks ==
  ASSUME NoSelfConflict, LimitsInv, LinksInv, phase = "idle", NEW h \in Handler,
         NEW s \in Seq(Offered), s # <<>>, NEW added, AddTransaction(h, s, added)
  PROVE  LinksInv'
<1>0. LinkedPool(mp) /\ GoodPool(mp) /\ TasksTyped /\ TasksOffered /\ s[1] \in Offered /\ s[1] \in Tx
  BY OfferedTyped DEF LinksInv, LimitsInv
<1>1. CASE Reject(h, s, added)
  <2>1. LinkedPool(mp') /\ phase' # "room"
    BY <1>0, <1>1, DropPackagesLinked DEF Reject, GiveUp
  <2>2. TasksOffered'
    BY <1>0, <1>1, TasksOfferedStep DEF Reject, GiveUp
  <2> QED BY <2>1, <2>2 DEF LinksInv
<1>2. CASE Accept(h, s, added)
  <2> DEFINE par == Parents(s[1], rows)
             anc == Ancestors(mp, par)
  <2>1. /\ Passes(s, added) /\ mp' = Inserted(s, par, anc) /\ Advance(h, s, added)
        /\ phase' # "room"
    BY <1>2 DEF Accept
  <2>2. anc \in SUBSET mp.pool /\ anc \subseteq Forebears(s[1])
    BY <1>0, <2>1, PassedFamily
  <2>3. s[1] \notin mp.pool
    BY <2>1 DEF Passes, Admissible
  <2> HIDE DEF par, anc
  <2>4. LinkedPool(mp')
    BY <1>0, <2>1, <2>2, <2>3, InsertedLinked
  <2>5. TasksOffered'
    BY <1>0, <2>1, TasksOfferedStep
  <2> QED BY <2>1, <2>4, <2>5 DEF LinksInv
<1>3. CASE FamilyTooLarge(h, s, added)
  <2> DEFINE m == DropPackages(mp, Conflicts(mp, s[1]))
  <2>1. LinkedPool(m)
    BY <1>0, DropPackagesLinked
  <2>2. GiveUp(h, added, m) /\ phase' # "room"
    BY <1>3 DEF FamilyTooLarge
  <2> HIDE DEF m
  <2>3. LinkedPool(mp')
    BY <2>1, <2>2, DropPackagesLinked DEF GiveUp
  <2>4. TasksOffered'
    BY <1>0, <2>2, TasksOfferedStep DEF GiveUp
  <2> QED BY <2>2, <2>3, <2>4 DEF LinksInv
<1>4. CASE SeekRoom(h, s, added)
  <2> DEFINE par == Parents(s[1], rows)
             anc == Ancestors(mp, par)
  <2>1. /\ Passes(s, added) /\ mp' = mp
        /\ adm' = [h |-> h, par |-> par, anc |-> anc]
        /\ task' = [task EXCEPT ![h] = [todo |-> s, added |-> added]]
    BY <1>4 DEF SeekRoom, poolVars
  <2>2. anc \subseteq Forebears(s[1])
    BY <1>0, <2>1, PassedFamily
  <2> HIDE DEF par, anc
  <2>3. TasksOffered'
    BY <1>0, <2>1, TasksOfferedStep
  <2>4. adm'.h = h /\ adm'.anc = anc /\ task'[h] = [todo |-> s, added |-> added]
    BY <1>0, <2>1 DEF TasksTyped
  <2>5. Rest' = s
    BY <2>4 DEF Rest
  <2> QED BY <1>0, <2>1, <2>2, <2>3, <2>4, <2>5 DEF LinksInv
<1> QED BY <1>1, <1>2, <1>3, <1>4 DEF AddTransaction

\* The eviction loop and its ends.
LEMMA MakeRoomLinks ==
  ASSUME NoSelfConflict, LimitsInv, LinksInv, FamilyStays, MakeRoom
  PROVE  LinksInv'
<1>0. /\ LinkedPool(mp) /\ TasksTyped /\ TasksOffered /\ phase = "room"
      /\ adm.h \in Handler /\ Rest[1] \notin mp.pool /\ task[adm.h] # NoTask
      /\ adm.anc \in SUBSET mp.pool /\ adm.anc \subseteq Forebears(Rest[1])
  BY DEF LimitsInv, LinksInv, RoomInv, FamilyStays, MakeRoom, EvictNext, EvictGone, Outbid,
         AcceptInRoom, FamilyTooLargeInRoom, NoRoom
<1>00. Rest \in Seq(Offered) /\ Rest # <<>> /\ Rest[1] \in Offered /\ Rest[1] \in Tx
  <2>1. Rest \in Seq(Offered) /\ Rest # <<>>
    BY <1>0 DEF TasksTyped, TasksOffered, Rest
  <2> QED BY <2>1, OfferedTyped
<1>1. CASE EvictNext
  <2>1. LinkedPool(mp')
    BY <1>0, <1>1, DropPackagesLinked DEF EvictNext
  <2>2. adm' = adm /\ task' = task /\ Rest' = Rest
    BY <1>1 DEF EvictNext, Rest
  <2> QED BY <1>0, <2>1, <2>2 DEF LinksInv, TasksOffered
<1>2. CASE EvictGone
  <2>1. mp' = mp /\ adm' = adm /\ task' = task /\ Rest' = Rest
    BY <1>2 DEF EvictGone, poolVars, Rest
  <2> QED BY <1>0, <2>1 DEF LinksInv, TasksOffered
<1>3. ASSUME NEW m, LinkedPool(m), GiveUp(adm.h, Added, m), phase' # "room" PROVE LinksInv'
  <2>1. LinkedPool(mp')
    BY <1>3, DropPackagesLinked DEF GiveUp
  <2>2. TasksOffered'
    BY <1>0, <1>00, <1>3, TasksOfferedStep DEF GiveUp
  <2> QED BY <1>3, <2>1, <2>2 DEF LinksInv
<1>4. CASE AcceptInRoom
  <2>1. /\ mp' = Inserted(Rest, adm.par, adm.anc) /\ Advance(adm.h, Rest, Added)
        /\ phase' # "room"
    BY <1>4 DEF AcceptInRoom, LeaveRoom
  <2>2. LinkedPool(mp')
    BY <1>0, <1>00, <2>1, InsertedLinked
  <2>3. TasksOffered'
    BY <1>0, <1>00, <2>1, TasksOfferedStep
  <2> QED BY <2>1, <2>2, <2>3 DEF LinksInv
<1>5. CASE FamilyTooLargeInRoom
  <2> DEFINE m == DropPackages(mp, Conflicts(mp, Rest[1]))
  <2>1. LinkedPool(m)
    BY <1>0, DropPackagesLinked
  <2>2. GiveUp(adm.h, Added, m) /\ phase' # "room"
    BY <1>5 DEF FamilyTooLargeInRoom, LeaveRoom
  <2> HIDE DEF m
  <2> QED BY <1>3, <2>1, <2>2
<1>6. CASE Outbid \/ NoRoom
  <2>1. GiveUp(adm.h, Added, mp) /\ phase' # "room"
    BY <1>6 DEF Outbid, NoRoom, LeaveRoom
  <2> QED BY <1>0, <1>3, <2>1
<1> QED BY <1>1, <1>2, <1>4, <1>5, <1>6 DEF MakeRoom

\* The chain moves and the clean-up after it.
LEMMA ChainLinks ==
  ASSUME LinksInv, MoveChain \/ CleanUp
  PROVE  LinksInv'
<1>1. task' = task /\ phase' # "room" /\ (mp' = mp \/ \E S : mp' = DropPackages(mp, S))
  <2>1. CASE MoveChain
    BY <2>1 DEF MoveChain, ConnectTip, Reorganise, StoreSide, StoreCollides, Arrives, poolVars
  <2>2. ASSUME NEW b \in NonGenesis, Confirm(b)
        PROVE  task' = task /\ phase' # "room" /\ \E S : mp' = DropPackages(mp, S)
    BY <2>2 DEF Confirm
  <2>3. ASSUME NEW t \in Tx, Revalidate(t)
        PROVE  task' = task /\ phase' # "room" /\ (mp' = mp \/ \E S : mp' = DropPackages(mp, S))
    BY <2>3 DEF Revalidate
  <2>4. CASE CleanupDone
    BY <2>4 DEF CleanupDone, poolVars
  <2> QED BY <2>1, <2>2, <2>3, <2>4 DEF CleanUp
<1>2. LinkedPool(mp')
  BY <1>1, DropPackagesLinked DEF LinksInv
<1> QED BY <1>1, <1>2 DEF LinksInv, TasksOffered

\* An empty pool is linked.
LEMMA LinksInit == AdmissionInit => LinksInv
<1> SUFFICES ASSUME AdmissionInit PROVE LinksInv
  OBVIOUS
<1>1. GoodPool(mp)
  BY LimitsInit DEF LimitsInv
<1>2. LinkedPool(mp)
  BY <1>1 DEF AdmissionInit, EmptyPool, LinkedPool
<1>3. TasksOffered
  <2>1. \A h \in Handler : task[h] = NoTask
    BY DEF AdmissionInit
  <2>2. NoTask.todo \in Seq(Offered)
    BY DEF NoTask
  <2> QED BY <2>1, <2>2 DEF TasksOffered
<1> QED BY <1>2, <1>3 DEF LinksInv, AdmissionInit

\* Every step keeps the links, while no eviction takes an ancestor of the
\* newcomer.
LEMMA LinksStep ==
  ASSUME NoSelfConflict, LimitsInv, LinksInv, FamilyStays, [AdmissionNext]_admissionVars
  PROVE  LinksInv'
<1>1. ASSUME NEW h \in Handler, Submit(h) PROVE LinksInv'
  <2>1. CASE task[h] = NoTask /\ \E s \in Offers : AddTransaction(h, s, {})
    <3>1. PICK s \in Offers : AddTransaction(h, s, {})
      BY <2>1
    <3> QED BY <1>1, <3>1, OfferedTyped, AddTransactionLinks DEF Submit
  <2>2. CASE task[h] # NoTask /\ AddTransaction(h, task[h].todo, task[h].added)
    <3>1. task[h].todo \in Seq(Offered) /\ task[h].todo # <<>>
      BY <2>2 DEF LimitsInv, TasksTyped, LinksInv, TasksOffered
    <3> QED BY <1>1, <2>2, <3>1, AddTransactionLinks DEF Submit
  <2> QED BY <1>1, <2>1, <2>2 DEF Submit
<1>2. CASE UNCHANGED admissionVars
  BY <1>2 DEF admissionVars, poolVars, roomVars, LinksInv, TasksOffered, Rest
<1> QED BY <1>1, <1>2, MakeRoomLinks, ChainLinks DEF AdmissionNext

\* Where no submitted transaction spends what an ancestor of it spends and no
\* eviction takes an ancestor of the newcomer, ancestor and descendant sets
\* name entries of the pool and mirror each other, through every replacement,
\* eviction, rollback and clean-up.
THEOREM LinksAlwaysMirror ==
  ASSUME NoSelfConflict
  PROVE  AdmissionSpec /\ []FamilyStays => []LinksMirror
<1>1. LimitsInv /\ [AdmissionNext]_admissionVars => LimitsInv'
  BY LimitsStep
<1>2. LimitsInv /\ LinksInv /\ FamilyStays /\ [AdmissionNext]_admissionVars => LinksInv'
  BY LinksStep
<1>3. LinksInv => LinksMirror
  BY DEF LinksInv, LinkedPool, LinksMirror
<1> QED BY <1>1, <1>2, <1>3, LimitsInit, LinksInit, PTL DEF AdmissionSpec

-----------------------------------------------------------------------------
(* InputsAvailable, along the same lines.  What a removal leaves behind    *)
(* has its inputs still, as every entry that spends an output of another   *)
(* is among its descendants.                                               *)

\* Every parent of an entry is known to the transactions table or in the
\* pool, and one in the pool is a recorded ancestor.
Fed(m, known) ==
    \A t \in m.pool : /\ Funders(t) \subseteq known \cup m.pool
                      /\ Funders(t) \cap m.pool \subseteq m.anc[t]

\* The inputs of t are unspent above b or made by transactions of S.
InputsIn(t, b, S) == TxIn[t] \subseteq UtxoOf(b) \cup OutsOf(S)

\* A removal takes the children with their parents.
LEMMA DropPackagesFed ==
  ASSUME NEW m, NEW S, NEW known, LinkedPool(m), Fed(m, known)
  PROVE  LET n == DropPackages(m, S)
         IN  /\ Fed(n, known)
             /\ \A t \in n.pool : Funders(t) \cap m.pool \subseteq n.pool
<1> DEFINE R == UNION {Package(m, t) : t \in S \cap m.pool}
           n == DropPackages(m, S)
           gone == m.pool \cap R
<1>0. m.pool \subseteq Tx /\ m.desc \in Links
  BY DEF LinkedPool, GoodPool
<1>1. n.pool = m.pool \ gone /\ n.anc = Unlink(m.anc, m.desc, gone)
  BY DEF DropPackages, Drop
<1>2. ASSUME NEW p \in R \cap m.pool, NEW t \in m.desc[p] PROVE t \in R
  <2>1. PICK u \in S \cap m.pool : p \in Package(m, u)
    OBVIOUS
  <2>2. u \in Tx /\ m.desc[u] \in SUBSET Tx
    BY <1>0 DEF Links
  <2>3. t \in Reach(m.desc[u], m.desc)
    BY <1>0, <2>1, <2>2, ReachClosed DEF Package, Descendants
  <2> QED BY <2>1, <2>3 DEF Package, Descendants
<1> HIDE DEF n, R
<1>3. ASSUME NEW t \in n.pool, NEW p \in Funders(t) \cap m.pool
      PROVE  p \in n.pool /\ p \in n.anc[t]
  <2>1. t \in m.pool /\ t \in Tx /\ t \notin R
    BY <1>0, <1>1
  <2>2. p \in m.anc[t]
    BY <2>1 DEF Fed
  <2>3. t \in m.desc[p]
    BY <2>1, <2>2 DEF LinkedPool
  <2>4. p \notin R
    BY <1>2, <2>1, <2>3
  <2>5. n.anc[t] = m.anc[t] \ {r \in gone : t \in m.desc[r]}
    BY <1>1, <2>1 DEF Unlink
  <2> QED BY <1>1, <2>2, <2>4, <2>5
<1>4. n.pool \subseteq m.pool
  BY <1>1
<1>5. Fed(n, known)
  BY <1>3, <1>4 DEF Fed
<1> QED BY <1>3, <1>5 DEF n

\* So the survivors have their inputs.
LEMMA DropPackagesInputs ==
  ASSUME NEW m, NEW S, NEW known, LinkedPool(m), Fed(m, known), NEW b,
         NEW t \in DropPackages(m, S).pool, InputsIn(t, b, m.pool)
  PROVE  InputsIn(t, b, DropPackages(m, S).pool)
<1> DEFINE n == DropPackages(m, S)
<1>1. Funders(t) \cap m.pool \subseteq n.pool
  BY DropPackagesFed
<1>2. m.pool \subseteq Tx
  BY DEF LinkedPool, GoodPool
<1> HIDE DEF n
<1>3. ASSUME NEW o \in TxIn[t], o \in OutsOf(m.pool) PROVE o \in OutsOf(n.pool)
  <2>1. PICK p \in m.pool : o \in TxOut[p]
    BY <1>3 DEF OutsOf
  <2>2. p \in Funders(t)
    BY <1>2, <2>1 DEF Funders
  <2> QED BY <1>1, <2>1, <2>2 DEF OutsOf
<1>4. InputsIn(t, b, n.pool)
  BY <1>3 DEF InputsIn
<1> QED BY <1>4 DEF n

\* The newcomer t has its parents among anc, but for those that are known.
Complete(m, t, anc, known, b) ==
    /\ t \notin known
    /\ Funders(t) \subseteq known \cup anc
    /\ Funders(t) \cap m.pool \subseteq anc
    /\ InputsIn(t, b, anc)

\* An insertion keeps the pool fed, and the newcomer and the others have
\* their inputs.
LEMMA InsertedFed ==
  ASSUME NoSelfConflict, LinkedPool(mp), NEW s, s[1] \in Offered \ mp.pool, s[1] \in Tx,
         NEW par, NEW anc \in SUBSET mp.pool, anc \subseteq Forebears(s[1]),
         NEW known, Fed(mp, known), NEW b, Complete(mp, s[1], anc, known, b)
  PROVE  LET n == Inserted(s, par, anc)
         IN  /\ Fed(n, known)
             /\ (\A t \in mp.pool : InputsIn(t, b, mp.pool)) =>
                   \A t \in n.pool : InputsIn(t, b, n.pool)
<1> DEFINE m == DropPackages(mp, Conflicts(mp, s[1]))
           n == Inserted(s, par, anc)
<1>1. Fed(m, known) /\ m.pool \subseteq mp.pool /\ LinkedPool(m)
  BY DropPackagesFed, DropPackagesLess, DropPackagesLinked
<1>2. anc \subseteq m.pool
  BY FamilyKept
<1>3. n = Add(m, s[1], par, anc)
  BY DEF Inserted
<1>4. \A t \in m.pool : InputsIn(t, b, mp.pool) => InputsIn(t, b, m.pool)
  BY DropPackagesInputs
<1> HIDE DEF m, n
<1>5. n.pool = m.pool \cup {s[1]} /\ n.anc = [m.anc EXCEPT ![s[1]] = anc]
  BY <1>3 DEF Add
<1>6. m.anc \in [Tx -> SUBSET Tx] /\ m.pool \subseteq Tx
  BY <1>1 DEF LinkedPool, GoodPool, Links
<1>7. n.anc[s[1]] = anc /\ \A t \in m.pool : n.anc[t] = m.anc[t]
  BY <1>1, <1>5, <1>6
<1>8. ASSUME NEW t \in n.pool
      PROVE  Funders(t) \subseteq known \cup n.pool /\ Funders(t) \cap n.pool \subseteq n.anc[t]
  <2>1. CASE t = s[1]
    <3>1. s[1] \notin Funders(s[1])
      <4>1. s[1] \notin known /\ s[1] \notin anc
        BY DEF Complete
      <4> QED BY <4>1 DEF Complete
    <3> QED BY <1>1, <1>2, <1>5, <1>7, <2>1, <3>1 DEF Complete
  <2>2. CASE t \in m.pool
    <3>1. Funders(t) \subseteq known \cup m.pool /\ Funders(t) \cap m.pool \subseteq m.anc[t]
      BY <1>1, <2>2 DEF Fed
    <3>2. s[1] \notin known /\ s[1] \notin m.pool
      BY <1>1 DEF Complete
    <3> QED BY <1>5, <1>7, <2>2, <3>1, <3>2
  <2> QED BY <1>5, <2>1, <2>2
<1>9. ASSUME \A t \in mp.pool : InputsIn(t, b, mp.pool), NEW t \in n.pool
      PROVE  InputsIn(t, b, n.pool)
  <2>1. OutsOf(anc) \subseteq OutsOf(n.pool) /\ OutsOf(m.pool) \subseteq OutsOf(n.pool)
    BY <1>2, <1>5 DEF OutsOf
  <2>2. CASE t = s[1]
    BY <2>1, <2>2 DEF Complete, InputsIn
  <2>3. CASE t \in m.pool
    BY <1>1, <1>4, <1>9, <2>1, <2>3 DEF InputsIn
  <2> QED BY <1>5, <2>2, <2>3
<1> QED BY <1>8, <1>9 DEF Fed, n

\* The checks of add_transaction leave the newcomer complete.
LEMMA PassedComplete ==
  ASSUME LinkedPool(mp), phase = "idle", NoListedParent, NEW s, NEW added,
         s[1] \in Offered, s[1] \in Tx, Passes(s, added)
  PROVE  Complete(mp, s[1], Ancestors(mp, Parents(s[1], rows)), rows, tip)
<1> DEFINE par == Parents(s[1], rows)
           anc == Ancestors(mp, par)
<1>1. par \subseteq anc
  BY PassedFamily
<1>2. par = Funders(s[1]) \ rows
  BY DEF Parents
<1>3. Admissible(mp, s[1], tip, rows)
  BY DEF Passes
<1>4. s[1] \notin rows /\ TxIn[s[1]] \subseteq UtxoOf(tip) \cup OutsOf(mp.pool)
  BY <1>3 DEF Admissible, Valid
<1> HIDE DEF par, anc
<1>5. Funders(s[1]) \subseteq rows \cup anc
  BY <1>1, <1>2
<1>6. Funders(s[1]) \cap mp.pool \subseteq anc
  BY <1>1, <1>2, <1>3 DEF NoListedParent
<1>7. ASSUME NEW o \in TxIn[s[1]], o \in OutsOf(mp.pool) PROVE o \in OutsOf(anc)
  <2>1. PICK p \in mp.pool : o \in TxOut[p]
    BY <1>7 DEF OutsOf
  <2>2. p \in Funders(s[1])
    BY <2>1 DEF Funders, LinkedPool, GoodPool
  <2> QED BY <1>6, <2>1, <2>2 DEF OutsOf
<1> QED BY <1>4, <1>5, <1>6, <1>7 DEF Complete, InputsIn, anc, par

\* All entries have their inputs.
AllIn == \A t \in mp.pool : InputsIn(t, tip, mp.pool)

FeedInv ==
    /\ Fed(mp, rows)
    /\ phase # "clean" => AllIn
    /\ phase = "room" => Complete(mp, Rest[1], adm.anc, rows, tip)
    /\ phase = "clean" /\ conn = {} =>
          \A t \in mp.pool \ todo : InputsIn(t, tip, mp.pool)

\* Removing packages, whatever else moves.
LEMMA FeedLess ==
  ASSUME NEW S, NEW m, LinkedPool(m), Fed(m, rows), mp' = DropPackages(m, S), rows' = rows,
         tip' = tip, \A t \in m.pool : InputsIn(t, tip, m.pool)
  PROVE  Fed(mp', rows') /\ AllIn'
<1>1. Fed(mp', rows')
  BY DropPackagesFed
<1>2. mp'.pool \subseteq m.pool
  BY DropPackagesLess
<1>3. \A t \in mp'.pool : InputsIn(t, tip, mp'.pool)
  BY <1>2, DropPackagesInputs
<1> QED BY <1>1, <1>3 DEF AllIn

\* Admissions.
LEMMA AddTransactionFeed ==
  ASSUME NoSelfConflict, LimitsInv, LinksInv, FeedInv, NoListedParent, phase = "idle",
         NEW h \in Handler, NEW s \in Seq(Offered), s # <<>>, NEW added,
         AddTransaction(h, s, added)
  PROVE  FeedInv'
<1>0. /\ LinkedPool(mp) /\ TasksTyped /\ s[1] \in Offered /\ s[1] \in Tx
      /\ Fed(mp, rows) /\ AllIn
  BY OfferedTyped DEF LinksInv, LimitsInv, FeedInv
<1>1. CASE Reject(h, s, added)
  <2>1. /\ mp' = DropPackages(mp, added) /\ rows' = rows /\ tip' = tip /\ phase' = "idle"
    BY <1>1 DEF Reject, GiveUp, chainVars
  <2>2. Fed(mp', rows') /\ AllIn'
    BY <1>0, <2>1, FeedLess DEF AllIn
  <2> QED BY <2>1, <2>2 DEF FeedInv
<1>2. CASE Accept(h, s, added)
  <2> DEFINE par == Parents(s[1], rows)
             anc == Ancestors(mp, par)
  <2>1. /\ Passes(s, added) /\ mp' = Inserted(s, par, anc)
        /\ rows' = rows /\ tip' = tip /\ phase' = "idle"
    BY <1>2 DEF Accept, chainVars
  <2>2. anc \in SUBSET mp.pool /\ anc \subseteq Forebears(s[1])
    BY <1>0, <2>1, PassedFamily
  <2>3. s[1] \notin mp.pool
    BY <2>1 DEF Passes, Admissible
  <2>4. Complete(mp, s[1], anc, rows, tip)
    BY <1>0, <2>1, PassedComplete
  <2> HIDE DEF par, anc
  <2>5. Fed(mp', rows) /\ \A t \in mp'.pool : InputsIn(t, tip, mp'.pool)
    BY <1>0, <2>1, <2>2, <2>3, <2>4, InsertedFed DEF AllIn
  <2> QED BY <2>1, <2>5 DEF FeedInv, AllIn
<1>3. CASE FamilyTooLarge(h, s, added)
  <2> DEFINE m == DropPackages(mp, Conflicts(mp, s[1]))
  <2>1. LinkedPool(m) /\ Fed(m, rows) /\ m.pool \subseteq mp.pool
    BY <1>0, DropPackagesLinked, DropPackagesFed, DropPackagesLess
  <2>2. \A t \in m.pool : InputsIn(t, tip, m.pool)
    BY <1>0, <2>1, DropPackagesInputs DEF AllIn
  <2>3. mp' = DropPackages(m, added) /\ rows' = rows /\ tip' = tip /\ phase' = "idle"
    BY <1>3 DEF FamilyTooLarge, GiveUp, chainVars
  <2> HIDE DEF m
  <2>4. Fed(mp', rows') /\ AllIn'
    BY <2>1, <2>2, <2>3, FeedLess
  <2> QED BY <2>3, <2>4 DEF FeedInv
<1>4. CASE SeekRoom(h, s, added)
  <2> DEFINE par == Parents(s[1], rows)
             anc == Ancestors(mp, par)
  <2>1. /\ Passes(s, added) /\ mp' = mp /\ rows' = rows /\ tip' = tip /\ phase' = "room"
        /\ adm' = [h |-> h, par |-> par, anc |-> anc]
        /\ task' = [task EXCEPT ![h] = [todo |-> s, added |-> added]]
    BY <1>4 DEF SeekRoom, poolVars, chainVars
  <2>2. Complete(mp, s[1], anc, rows, tip)
    BY <1>0, <2>1, PassedComplete
  <2> HIDE DEF par, anc
  <2>3. adm'.h = h /\ adm'.anc = anc /\ task'[h] = [todo |-> s, added |-> added]
    BY <1>0, <2>1 DEF TasksTyped
  <2>4. Rest' = s
    BY <2>3 DEF Rest
  <2> QED BY <1>0, <2>1, <2>2, <2>3, <2>4 DEF FeedInv, AllIn
<1> QED BY <1>1, <1>2, <1>3, <1>4 DEF AddTransaction

\* The eviction loop and its ends.
LEMMA MakeRoomFeed ==
  ASSUME NoSelfConflict, LimitsInv, LinksInv, FeedInv, FamilyStays, MakeRoom
  PROVE  FeedInv'
<1>0. /\ LinkedPool(mp) /\ TasksTyped /\ TasksOffered /\ phase = "room"
      /\ adm.h \in Handler /\ Rest[1] \notin mp.pool /\ task[adm.h] # NoTask
      /\ adm.anc \in SUBSET mp.pool /\ adm.anc \subseteq Forebears(Rest[1])
      /\ Fed(mp, rows) /\ AllIn /\ Complete(mp, Rest[1], adm.anc, rows, tip)
  BY DEF LimitsInv, LinksInv, RoomInv, FamilyStays, FeedInv, MakeRoom, EvictNext, EvictGone,
         Outbid, AcceptInRoom, FamilyTooLargeInRoom, NoRoom
<1>00. Rest[1] \in Offered /\ Rest[1] \in Tx
  <2>1. Rest \in Seq(Offered) /\ Rest # <<>>
    BY <1>0 DEF TasksTyped, TasksOffered, Rest
  <2> QED BY <2>1, OfferedTyped
<1>1. CASE EvictNext
  <2>1. /\ mp' = DropPackages(mp, {queue[1]}) /\ rows' = rows /\ tip' = tip
        /\ phase' = "room" /\ adm' = adm /\ Rest' = Rest
    BY <1>0, <1>1 DEF EvictNext, chainVars, Rest
  <2>2. Fed(mp', rows') /\ AllIn' /\ mp'.pool \subseteq mp.pool
    BY <1>0, <2>1, FeedLess, DropPackagesLess DEF AllIn
  <2>3. Complete(mp', Rest[1], adm.anc, rows, tip)
    BY <1>0, <2>2 DEF Complete
  <2> QED BY <2>1, <2>2, <2>3 DEF FeedInv
<1>2. CASE EvictGone
  <2>1. mp' = mp /\ rows' = rows /\ tip' = tip /\ phase' = "room" /\ adm' = adm /\ Rest' = Rest
    BY <1>0, <1>2 DEF EvictGone, poolVars, chainVars, Rest
  <2> QED BY <1>0, <2>1 DEF FeedInv, AllIn
<1>3. CASE Outbid \/ NoRoom
  <2>1. mp' = DropPackages(mp, Added) /\ rows' = rows /\ tip' = tip /\ phase' = "idle"
    BY <1>3 DEF Outbid, NoRoom, GiveUp, LeaveRoom, chainVars
  <2>2. Fed(mp', rows') /\ AllIn'
    BY <1>0, <2>1, FeedLess DEF AllIn
  <2> QED BY <2>1, <2>2 DEF FeedInv
<1>4. CASE AcceptInRoom
  <2>1. /\ mp' = Inserted(Rest, adm.par, adm.anc)
        /\ rows' = rows /\ tip' = tip /\ phase' = "idle"
    BY <1>4 DEF AcceptInRoom, LeaveRoom, chainVars
  <2>2. Fed(mp', rows) /\ \A t \in mp'.pool : InputsIn(t, tip, mp'.pool)
    BY <1>0, <1>00, <2>1, InsertedFed DEF AllIn
  <2> QED BY <2>1, <2>2 DEF FeedInv, AllIn
<1>5. CASE FamilyTooLargeInRoom
  <2> DEFINE m == DropPackages(mp, Conflicts(mp, Rest[1]))
  <2>1. LinkedPool(m) /\ Fed(m, rows) /\ m.pool \subseteq mp.pool
    BY <1>0, DropPackagesLinked, DropPackagesFed, DropPackagesLess
  <2>2. \A t \in m.pool : InputsIn(t, tip, m.pool)
    BY <1>0, <2>1, DropPackagesInputs DEF AllIn
  <2>3. mp' = DropPackages(m, Added) /\ rows' = rows /\ tip' = tip /\ phase' = "idle"
    BY <1>5 DEF FamilyTooLargeInRoom, GiveUp, LeaveRoom, chainVars
  <2> HIDE DEF m
  <2>4. Fed(mp', rows') /\ AllIn'
    BY <2>1, <2>2, <2>3, FeedLess
  <2> QED BY <2>3, <2>4 DEF FeedInv
<1> QED BY <1>1, <1>2, <1>3, <1>4, <1>5 DEF MakeRoom

\* The chain moves: parents stay known, and after a move of the tip there is
\* a block the clean-up has to see.
LEMMA MoveChainFeed ==
  ASSUME CleanInv, FeedInv, NEW b \in NonGenesis,
         ConnectTip(b) \/ Reorganise(b) \/ StoreSide(b) \/ StoreCollides(b)
  PROVE  FeedInv'
<1>0. mp' = mp /\ rows \subseteq rows' /\ phase = "idle"
  BY DEF ConnectTip, Reorganise, StoreSide, StoreCollides, Arrives, poolVars
<1>1. Fed(mp', rows')
  BY <1>0 DEF FeedInv, Fed
<1>2. CASE ConnectTip(b)
  BY <1>1, <1>2 DEF ConnectTip, FeedInv
<1>3. CASE Reorganise(b)
  <2>1. b \notin stored /\ b \in Anc[b] /\ phase' = "clean" /\ conn' = Anc[b] \ Anc[tip]
    BY <1>3, TreeAssumption DEF Reorganise, Arrives, NonGenesis
  <2>2. b \notin Anc[tip]
    BY <2>1 DEF CleanInv, ChainClosed
  <2>3. b \in conn'
    BY <2>1, <2>2
  <2> QED BY <1>1, <2>1, <2>3 DEF FeedInv
<1>4. CASE StoreSide(b) \/ StoreCollides(b)
  <2>1. tip' = tip /\ phase' = "idle"
    BY <1>0, <1>4 DEF StoreSide, StoreCollides
  <2> QED BY <1>0, <1>1, <2>1 DEF FeedInv, AllIn
<1> QED BY <1>2, <1>3, <1>4

\* The clean-up looks at every entry once the confirmed ones are out.
LEMMA CleanUpFeed ==
  ASSUME LinksInv, FeedInv, CleanUp
  PROVE  FeedInv'
<1>0. LinkedPool(mp) /\ Fed(mp, rows)
  BY DEF LinksInv, FeedInv
<1>1. ASSUME NEW b \in NonGenesis, Confirm(b) PROVE FeedInv'
  <2>1. /\ mp' = DropPackages(mp, BlockTxs(b)) /\ rows' = rows /\ phase' = "clean"
        /\ todo' = mp'.pool
    BY <1>1 DEF Confirm, chainVars
  <2>2. Fed(mp', rows')
    BY <1>0, <2>1, DropPackagesFed
  <2> QED BY <2>1, <2>2 DEF FeedInv
<1>2. ASSUME NEW t \in Tx, Revalidate(t) PROVE FeedInv'
  <2>1. /\ rows' = rows /\ tip' = tip /\ phase' = "clean" /\ conn' = conn /\ phase = "clean"
        /\ todo' = (todo \ {t}) \cap mp'.pool
        /\ mp' = IF StillGood(mp, t, tip, rows) THEN mp ELSE DropPackages(mp, {t})
    BY <1>2 DEF Revalidate, chainVars
  <2>2. CASE StillGood(mp, t, tip, rows)
    <3>1. mp' = mp /\ mp'.pool \ todo' \subseteq (mp.pool \ todo) \cup {t}
      BY <2>1, <2>2
    <3>2. InputsIn(t, tip, mp.pool)
      BY <2>2 DEF StillGood, Valid, InputsIn
    <3>3. conn' = {} => \A u \in mp'.pool \ todo' : InputsIn(u, tip', mp'.pool)
      BY <2>1, <3>1, <3>2 DEF FeedInv
    <3> QED BY <1>0, <2>1, <3>1, <3>3 DEF FeedInv
  <2>3. CASE ~StillGood(mp, t, tip, rows)
    <3>1. mp' = DropPackages(mp, {t})
      BY <2>1, <2>3
    <3>2. Fed(mp', rows') /\ mp'.pool \subseteq mp.pool \ {t}
      BY <1>0, <2>1, <3>1, DropPackagesFed, DropPackagesLess
    <3>3. ASSUME conn' = {}, NEW u \in mp'.pool \ todo' PROVE InputsIn(u, tip', mp'.pool)
      <4>1. u \in mp.pool \ todo
        BY <2>1, <3>2
      <4>2. InputsIn(u, tip, mp.pool)
        BY <2>1, <3>3, <4>1 DEF FeedInv
      <4> QED BY <1>0, <2>1, <3>1, <4>2, DropPackagesInputs
    <3> QED BY <2>1, <3>2, <3>3 DEF FeedInv
  <2> QED BY <2>2, <2>3
<1>3. CASE CleanupDone
  <2>1. /\ mp' = mp /\ rows' = rows /\ tip' = tip /\ phase' = "idle"
        /\ phase = "clean" /\ todo = {} /\ conn = {}
    BY <1>3 DEF CleanupDone, poolVars, chainVars
  <2> QED BY <1>0, <2>1 DEF FeedInv, AllIn
<1> QED BY <1>1, <1>2, <1>3 DEF CleanUp

\* Every step keeps the entries fed, while newcomers have no listed parent.
LEMMA FeedStep ==
  ASSUME NoSelfConflict, CleanInv, LimitsInv, LinksInv, FeedInv, FamilyStays, NoListedParent,
         [AdmissionNext]_admissionVars
  PROVE  FeedInv'
<1>1. ASSUME NEW h \in Handler, Submit(h) PROVE FeedInv'
  <2>1. CASE task[h] = NoTask /\ \E s \in Offers : AddTransaction(h, s, {})
    <3>1. PICK s \in Offers : AddTransaction(h, s, {})
      BY <2>1
    <3> QED BY <1>1, <3>1, OfferedTyped, AddTransactionFeed DEF Submit
  <2>2. CASE task[h] # NoTask /\ AddTransaction(h, task[h].todo, task[h].added)
    <3>1. task[h].todo \in Seq(Offered) /\ task[h].todo # <<>>
      BY <2>2 DEF LimitsInv, TasksTyped, LinksInv, TasksOffered
    <3> QED BY <1>1, <2>2, <3>1, AddTransactionFeed DEF Submit
  <2> QED BY <1>1, <2>1, <2>2 DEF Submit
<1>2. CASE UNCHANGED admissionVars
  BY <1>2 DEF admissionVars, poolVars, chainVars, roomVars, cleanVars, FeedInv, AllIn, Rest
<1> QED BY <1>1, <1>2, MakeRoomFeed, MoveChainFeed, CleanUpFeed DEF AdmissionNext, MoveChain

\* Where, besides, no newcomer has a parent in the pool that the transactions
\* table lists already, every input of every pool transaction is unspent on
\* the active chain or made by another pool transaction whenever a miner may
\* look: removals take whole families, and the clean-up after a block or a
\* reorganisation looks at every entry that was left.
THEOREM InputsAlwaysAvailable ==
  ASSUME NoSelfConflict
  PROVE  AdmissionSpec /\ []FamilyStays /\ []NoListedParent => []InputsAvailable
<1>1. AdmissionInit => FeedInv
  BY DEF AdmissionInit, EmptyPool, FeedInv, Fed, AllIn
<1>2. LimitsInv /\ [AdmissionNext]_admissionVars => LimitsInv'
  BY LimitsStep
<1>3. LimitsInv /\ LinksInv /\ FamilyStays /\ [AdmissionNext]_admissionVars => LinksInv'
  BY LinksStep
<1>4. CleanInv /\ LimitsInv /\ LinksInv /\ FeedInv /\ FamilyStays /\ NoListedParent
        /\ [AdmissionNext]_admissionVars => FeedInv'
  BY FeedStep
<1>5. FeedInv => InputsAvailable
  BY DEF FeedInv, AllIn, InputsIn, InputsAvailable, InsOf
<1> QED BY <1>1, <1>2, <1>3, <1>4, <1>5, LimitsInit, LinksInit, CleanInit, CleanStep, PTL
     DEF AdmissionSpec
=============================================================================
