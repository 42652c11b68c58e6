------------------------------- MODULE Mempool -------------------------------
(***************************************************************************)
(* node/mempool/pool.py as operators on a pool value                       *)
(*                                                                         *)
(*   m.pool    keys of transactions                                        *)
(*   m.before  the order of that dict: <<t, u>> when t was inserted first  *)
(*   m.anc     entry.ancestors      m.desc  entry.descendants              *)
(*   m.par     unconfirmed_parents  m.spent spent_utxos                    *)
(*   m.load    total_size, total_vsize and total_weight, as one measure    *)
(*                                                                         *)
(* A fee rate is a pair <<fee, vsize>>, compared without division.         *)
(* TxAdmission drives these operators.                                     *)
(***************************************************************************)
EXTENDS BlockTree, FiniteSetsExt

CONSTANTS
    Fee,                \* inputs minus outputs
    VSize,              \* virtual size
    Signals,            \* transactions with an opt-in RBF sequence number
    Nonstandard,        \* transactions MempoolPolicy.is_standard refuses
    Unfit,              \* Unfit[b]: transactions _validate_transaction refuses
                        \* for the height above b whatever the pool holds
                        \* (shape, amounts, scripts, version gate, maturity)
    IdOrder,            \* the order of txid strings, as ranks
    MinRelayFee,        \* policy.min_relay_fee
    MaxTransactions, MaxLoad,               \* limits.can_accept
    MaxAncestors, MaxAncestorSize,          \* limits of a transaction's family
    MaxDescendants, MaxDescendantSize,
    MaxReplaced,        \* the 100 of _can_replace
    MaxPackageCount, MaxPackageSize

ASSUME MempoolAssumption ==
    /\ IsFiniteSet(Tx)
    /\ Fee \in [Tx -> Nat]
    /\ VSize \in [Tx -> Nat \ {0}]
    /\ Signals \subseteq Tx
    /\ Nonstandard \subseteq Tx
    /\ Unfit \in [Block -> SUBSET Tx]
    /\ IdOrder \in [Tx -> Nat]
    /\ \A t, u \in Tx : IdOrder[t] = IdOrder[u] => t = u
    /\ MinRelayFee \in Nat
    /\ MaxTransactions \in Nat /\ MaxLoad \in Nat
    /\ MaxAncestors \in Nat /\ MaxAncestorSize \in Nat
    /\ MaxDescendants \in Nat /\ MaxDescendantSize \in Nat
    /\ MaxReplaced \in Nat
    /\ MaxPackageCount \in Nat /\ MaxPackageSize \in Nat

Links == [Tx -> SUBSET Tx]

PoolType ==
    [pool : SUBSET Tx, before : SUBSET (Tx \X Tx), anc : Links, desc : Links,
     par : Links, spent : SUBSET Outpoint, load : Int]

\* Mempool.__init__
EmptyPool ==
    [pool |-> {}, before |-> {}, anc |-> [t \in Tx |-> {}],
     desc |-> [t \in Tx |-> {}], par |-> [t \in Tx |-> {}], spent |-> {},
     load |-> 0]

InsOf(S) == UNION {TxIn[t] : t \in S}

OutsOf(S) == UNION {TxOut[t] : t \in S}

FeeOf(S) == MapThenSumSet(LAMBDA t : Fee[t], S)

SizeOf(S) == MapThenSumSet(LAMBDA t : VSize[t], S)

Rate(S) == <<FeeOf(S), SizeOf(S)>>

AtLeast(r, s) == r[1] * s[2] >= s[1] * r[2]

\* get_min_fee_for_vsize
MinFee(t) == VSize[t] * MinRelayFee

BaseFloor == <<MinRelayFee, 1>>

\* prev_tx_hash of the inputs
Funders(t) == {u \in Tx : TxOut[u] \cap TxIn[t] # {}}

-----------------------------------------------------------------------------
(* Families.                                                               *)

\* What a breadth-first walk along next collects, from start on.
Reach(start, next) ==
    LET named == start \cup UNION {next[t] : t \in Tx}
    IN  {t \in named : \A S \in SUBSET named :
            (start \subseteq S /\ \A u \in S : next[u] \subseteq S) => t \in S}

\* _get_descendants
Descendants(m, t) == Reach(m.desc[t], m.desc)

\* _collect_ancestors
Ancestors(m, parents) == Reach(parents, m.anc)

\* a transaction and what _remove_transaction_nolock takes with it
Package(m, t) == {t} \cup Descendants(m, t)

\* the members _descendant_package_stats sums over
PackageRate(m, t) == Rate(Package(m, t) \cap m.pool)

\* Fault: the inputs of a removed entry stay in spent_utxos.
UntrackNothing(m, gone) == m.spent

\* _untrack_spent_utxos
Untrack(m, gone) == m.spent \ InsOf(gone)

\* Fault: the txid is recorded instead of the inputs.
TrackTxid(m, t) == m.spent \cup {t}

\* _track_spent_utxos
Track(m, t) == m.spent \cup TxIn[t]

\* Fault: the survivors keep their links to removed entries.
UnlinkNothing(link, back, gone) ==
    [t \in Tx |-> IF t \in gone THEN {} ELSE link[t]]

\* A survivor loses its link to a removed entry that links back to it.
Unlink(link, back, gone) ==
    [t \in Tx |-> IF t \in gone
                  THEN {}
                  ELSE link[t] \ {r \in gone : t \in back[r]}]

\* Fault: the totals are not reduced.
UnloadNothing(m, gone) == m.load

\* total_size, total_vsize, total_weight after the entries gone
Unload(m, gone) == m.load - SizeOf(gone)

\* The entries R leave, with their totals, inputs, parents and links.
Drop(m, R) ==
    LET gone == m.pool \cap R
    IN  [pool   |-> m.pool \ gone,
         before |-> {p \in m.before : p[1] \notin gone /\ p[2] \notin gone},
         anc    |-> Unlink(m.anc, m.desc, gone),
         desc   |-> Unlink(m.desc, m.anc, gone),
         par    |-> [t \in Tx |-> IF t \in gone THEN {} ELSE m.par[t]],
         spent  |-> Untrack(m, gone),
         load   |-> Unload(m, gone)]

\* Fault: remove_transaction without include_descendants.
DropAlone(m, S) == Drop(m, S)

\* _remove_transaction_nolock(t, include_descendants=True) for every t in S
DropPackages(m, S) == Drop(m, UNION {Package(m, t) : t \in S \cap m.pool})

-----------------------------------------------------------------------------
(* Admission.                                                              *)

\* Fault: the count limit compared before the new entry is counted.
HasRoomLate(m, t) ==
    /\ Cardinality(m.pool) <= MaxTransactions
    /\ m.load + VSize[t] <= MaxLoad

\* limits.can_accept
HasRoom(m, t) ==
    /\ Cardinality(m.pool) + 1 <= MaxTransactions
    /\ m.load + VSize[t] <= MaxLoad

\* _find_conflicting_txids
Conflicts(m, t) == {u \in m.pool : TxIn[u] \cap TxIn[t] # {}}

\* conflicts and their descendants: replacement_set
Replaced(m, t) == UNION {Package(m, u) : u \in Conflicts(m, t)}

\* _is_txid_replaceable: signalled, or inherited along unconfirmed_parents
Replaceable(m, t) == Reach({t}, m.par) \cap m.pool \cap Signals # {}

\* Fault: the replacement has to match the old fees, not to exceed them by
\* the relay fee of its own size.
CanReplaceCheaply(m, t) ==
    LET all  == Replaced(m, t)
        live == all \cap m.pool
    IN  Conflicts(m, t) # {} =>
          /\ Cardinality(all) <= MaxReplaced
          /\ SizeOf(live) <= MaxPackageSize
          /\ \A u \in Conflicts(m, t) : Replaceable(m, u)
          /\ Funders(t) \cap m.pool \subseteq all \cup UNION {m.par[u] : u \in live}
          /\ Fee[t] >= FeeOf(live)

\* _can_replace
CanReplace(m, t) ==
    LET all  == Replaced(m, t)
        live == all \cap m.pool
    IN  Conflicts(m, t) # {} =>
          /\ Cardinality(all) <= MaxReplaced
          /\ SizeOf(live) <= MaxPackageSize
          /\ \A u \in Conflicts(m, t) : Replaceable(m, u)
          /\ Funders(t) \cap m.pool \subseteq all \cup UNION {m.par[u] : u \in live}
          /\ Fee[t] > FeeOf(live) + MinFee(t)
          /\ ~AtLeast(Rate(live), <<Fee[t], VSize[t]>>)

\* _validate_transaction above tip b; ignored is ignored_spent_outpoints
Valid(m, t, b, rows, ignored) ==
    /\ t \notin Unfit[b]
    /\ t \notin rows
    /\ TxIn[t] \subseteq UtxoOf(b) \cup OutsOf(m.pool)
    /\ TxIn[t] \cap m.spent \subseteq ignored

\* _check_dependencies: a parent that is in the transactions table counts as
\* confirmed, whichever branch holds it.
Parents(t, rows) == Funders(t) \ rows

Connected(m, t, rows) == Parents(t, rows) \subseteq m.pool

\* The checks of add_transaction before it looks for room, but for the fee
\* floor.
Admissible(m, t, b, rows) ==
    LET anc == Ancestors(m, Parents(t, rows))
    IN  /\ t \notin m.pool
        /\ CanReplace(m, t)
        /\ Valid(m, t, b, rows, InsOf(Conflicts(m, t)))
        /\ t \notin Nonstandard
        /\ Connected(m, t, rows)
        /\ Cardinality(anc) <= MaxAncestors
        /\ VSize[t] + SizeOf(anc \cap m.pool) <= MaxAncestorSize

\* The new entry: par are its parents and anc its ancestors, as collected
\* before room was made.
Add(m, t, par, anc) ==
    [pool   |-> m.pool \cup {t},
     before |-> m.before \cup (m.pool \X {t}),
     anc    |-> [m.anc EXCEPT ![t] = anc],
     desc   |-> [u \in Tx |-> IF u \in anc \cap m.pool
                              THEN m.desc[u] \cup {t} ELSE m.desc[u]],
     par    |-> [m.par EXCEPT ![t] = par],
     spent  |-> Track(m, t),
     load   |-> m.load + VSize[t]]

\* Fault: the descendant count is off by one.
FamilyOKLate(m, anc) ==
    \A a \in anc \cap m.pool :
        /\ Cardinality(m.desc[a]) <= MaxDescendants + 1
        /\ VSize[a] + SizeOf(m.desc[a] \cap m.pool) <= MaxDescendantSize

\* the descendant limits of the ancestors of an entry just added
FamilyOK(m, anc) ==
    \A a \in anc \cap m.pool :
        /\ Cardinality(m.desc[a]) <= MaxDescendants
        /\ VSize[a] + SizeOf(m.desc[a] \cap m.pool) <= MaxDescendantSize

\* _eviction_rank: t is evicted before u
Cheaper(r, s) == ~AtLeast(r, s)

EvictedBefore(m, t, u) ==
    LET p == PackageRate(m, t)
        q == PackageRate(m, u)
        d == <<Fee[t], VSize[t]>>
        e == <<Fee[u], VSize[u]>>
    IN  \/ Cheaper(p, q)
        \/ /\ AtLeast(p, q) /\ AtLeast(q, p)
           /\ \/ Cheaper(d, e)
              \/ /\ AtLeast(d, e) /\ AtLeast(e, d)
                 /\ \/ p[2] > q[2]
                    \/ p[2] = q[2] /\ IdOrder[t] < IdOrder[u]

\* sorted(self.transactions, key=self._eviction_rank)
EvictionQueue(m) ==
    [i \in 1..Cardinality(m.pool) |->
        CHOOSE t \in m.pool :
            Cardinality({u \in m.pool : EvictedBefore(m, u, t)}) = i - 1]

\* handle_connected_block keeps an entry of the pool.
StillGood(m, t, b, rows) ==
    /\ Valid(m, t, b, rows, TxIn[t])
    /\ Connected(m, t, rows)
    /\ t \notin Nonstandard
    /\ Fee[t] >= MinFee(t)

-----------------------------------------------------------------------------
(* Packages.                                                               *)

\* the results _sort_package_txs may have: parents first
PackageOrders(S) ==
    {s \in [1..Cardinality(S) -> S] :
        /\ \A t \in S : \E i \in DOMAIN s : s[i] = t
        /\ \A i, j \in DOMAIN s : s[i] \in Funders(s[j]) => i < j}

\* add_package's own checks: count, weight and _estimate_package_fee, which
\* must find every input (an input of a member may be an output of another)
PackageFits(m, S, b) ==
    /\ Cardinality(S) <= MaxPackageCount
    /\ SizeOf(S) <= MaxPackageSize
    /\ InsOf(S) \subseteq UtxoOf(b) \cup OutsOf(m.pool) \cup OutsOf(S)
=============================================================================
