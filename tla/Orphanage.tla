------------------------------ MODULE Orphanage ------------------------------
(***************************************************************************)
(* node/p2p/orphanage.py: the bounded pool of blocks whose parent is not   *)
(* indexed yet.  A pool is a sequence of entries [blk, src] in the order   *)
(* of received_at, oldest first (dict order, which time.time() follows);   *)
(* parent_map and source_map are derived from it.                          *)
(***************************************************************************)
EXTENDS BlockTree

CONSTANTS
    Peer,               \* handler contexts that deliver blocks
    NoPeer,             \* source_peer=None
    MaxOrphans,         \* Orphanage.max_orphans
    MaxOrphansPerPeer   \* Orphanage.max_orphans_per_peer

ASSUME OrphanageAssumption ==
    /\ NoPeer \notin Peer
    /\ MaxOrphans \in Nat \ {0}
    /\ MaxOrphansPerPeer \in Nat \ {0}

OrphanEntry == [blk : NonGenesis, src : Peer \cup {NoPeer}]

HasOrphan(q, b) == \E i \in 1..Len(q) : q[i].blk = b

\* get_children: parent_map[b]
Children(q, b) == {c \in NonGenesis : Parent[c] = b /\ HasOrphan(q, c)}

\* self.orphans.pop of the entry at place i
PopAt(q, i) == SubSeq(q, 1, i - 1) \o SubSeq(q, i + 1, Len(q))

\* remove_orphan; a block is in the pool at most once
RemoveOrphan(q, b) ==
    IF HasOrphan(q, b)
    THEN PopAt(q, CHOOSE i \in 1..Len(q) : q[i].blk = b)
    ELSE q

\* cleanup_expired: the n entries older than max_age are the n oldest.
CleanupExpired(q, n) == SubSeq(q, n + 1, Len(q))

\* places of the entries that source_map credits to s
FromSource(q, s) == {i \in 1..Len(q) : q[i].src = s}

\* _evict_oldest_from_source
EvictOldestFromSource(q, s) ==
    PopAt(q, CHOOSE i \in FromSource(q, s) : \A j \in FromSource(q, s) : i <= j)

\* _evict_oldest
EvictOldest(q) == PopAt(q, 1)

\* Fault: the per-source limit compared with > instead of >=.
AddOrphanLate(q, b, s) ==
    IF HasOrphan(q, b)
    THEN q
    ELSE LET own == IF s # NoPeer /\ Cardinality(FromSource(q, s)) > MaxOrphansPerPeer
                    THEN EvictOldestFromSource(q, s) ELSE q
             all == IF Len(own) >= MaxOrphans THEN EvictOldest(own) ELSE own
         IN  Append(all, [blk |-> b, src |-> s])

\* add_orphan: a full source makes room from its own blocks, a full pool
\* from anybody's.
AddOrphan(q, b, s) ==
    IF HasOrphan(q, b)
    THEN q
    ELSE LET own == IF s # NoPeer /\ Cardinality(FromSource(q, s)) >= MaxOrphansPerPeer
                    THEN EvictOldestFromSource(q, s) ELSE q
             all == IF Len(own) >= MaxOrphans THEN EvictOldest(own) ELSE own
         IN  Append(all, [blk |-> b, src |-> s])

\* A pool within both limits that holds no block twice.
PoolBounded(q) ==
    /\ Len(q) <= MaxOrphans
    /\ \A p \in Peer : Cardinality(FromSource(q, p)) <= MaxOrphansPerPeer
    /\ \A i, j \in 1..Len(q) : q[i].blk = q[j].blk => i = j
=============================================================================
