----------------------------- MODULE BlockRelay -----------------------------
(* Nodes that exchange transactions, blocks, compact blocks and headers over *)
(* ordered links: BerzCoinNode._on_p2p_message, BlockSync, HeaderChain and   *)
(* the two broadcasts of ConnectionManager, every node running the same      *)
(* code.  Accepting a block is abstracted to the outcome ChainState shows;   *)
(* blocks form a tree in which each one adds the same work.                  *)
EXTENDS Naturals, Sequences, FiniteSets, SequencesExt

CONSTANTS Node, Links,      \* a set of two-element sets of nodes
          Block, Genesis,
          PathTo,           \* block -> the chain from genesis to it
          Txs,              \* block -> its transactions after the coinbase
          Tx,
          MaxMissing,       \* compact_max_missing_indexes
          HeadersLimit,     \* 2000, headers in one message
          Gated,            \* authority_chain_enabled
          AllowedLag,       \* blocks behind the best peer, 2
          KnownLimit,       \* 200 000 and 50 000, the sizes _known_* are cleared at
          MaxFaults         \* bound on messages dropped and pool entries lost

\* A block's path leads to it from genesis, and every block on it is where its
\* own path ends; the limits are numbers.
ASSUME RelayAssumption ==
    /\ \A b \in Block : /\ PathTo[b] \in Seq(Block) /\ PathTo[b] # <<>>
                         /\ PathTo[b][Len(PathTo[b])] = b
                         /\ \A i \in 1..Len(PathTo[b]) : Len(PathTo[PathTo[b][i]]) = i
    /\ HeadersLimit \in Nat \ {0}

VARIABLES node,     \* the state of every node
          chan,     \* <<sender, receiver>> -> messages on the way, oldest first
          mined,    \* blocks mined so far
          faults
relayVars == <<node, chan, mined, faults>>

(* A hash in the byte order of header.hash() and in that of hash_hex() *)
Raw(b) == <<b, "raw">>
Hex(b) == <<b, "hex">>
Flip(h) == <<h[1], IF h[2] = "raw" THEN "hex" ELSE "raw">>

Parent(b) == PathTo[b][Len(PathTo[b]) - 1]
Height(b) == Len(PathTo[b]) - 1
Main(s, h) == PathTo[s.tip][h + 1]        \* get_block_by_height, up to the tip
Pairs == {p \in Node \X Node : {p[1], p[2]} \in Links}
Peers(n) == {m \in Node : {m, n} \in Links}
Over(f, g) == [x \in DOMAIN f \cup DOMAIN g |-> IF x \in DOMAIN g THEN g[x] ELSE f[x]]
Set(f, x, v) == [y \in DOMAIN f \cup {x} |-> IF y = x THEN v ELSE f[y]]
Unset(f, S) == [y \in DOMAIN f \ S |-> f[y]]
Nothing == [x \in {} |-> 0]

(* add to a bounded memory that is emptied when it overflows *)
Remember(S, x) == IF Cardinality(S \cup {x}) > KnownLimit THEN {} ELSE S \cup {x}

(* get_best_height_peer, by the heights of the version messages, which are   *)
(* never brought up to date                                                  *)
BestPeers(n) == {p \in Peers(n) : \A k \in Peers(n) : node[n].heights[k] <= node[n].heights[p]}
Behind(n) == \E p \in Peers(n) : node[n].heights[p] > Height(node[n].tip)
-----------------------------------------------------------------------------
StartState(n, tips, compact) ==
    LET chain == Range(PathTo[tips[n]])
    IN  [index |-> chain, tip |-> tips[n], heights |-> [p \in Peers(n) |-> Height(tips[p])],
         orphans |-> {}, known |-> {}, knownTx |-> {},
         pool |-> {}, compact |-> Nothing, timer |-> {}, asked |-> {},
         rows |-> [b \in chain |-> Height(b)], atHeight |-> Nothing, heightOf |-> Nothing,
         tally |-> [p \in Peers(n) |-> [ok |-> 0, bad |-> 0, compact |-> compact]]]

(* the nodes have shaken hands, each with its own tip; compact: whether they *)
(* asked each other for compact blocks                                       *)
RelayInit(tips, compact) ==
    /\ node = [n \in Node |-> StartState(n, tips, compact)]
    /\ chan = [p \in Pairs |-> <<>>]
    /\ mined = UNION {Range(PathTo[tips[n]]) : n \in Node}
    /\ faults = 0

(* put messages, a function from peers to sequences, on the links of n *)
Send(channels, n, msgs) ==
    [p \in Pairs |-> IF p[1] = n THEN channels[p] \o msgs[p[2]] ELSE channels[p]]
To(p, ms) == [q \in Node |-> IF q = p THEN ms ELSE <<>>]
Silence == [q \in Node |-> <<>>]
Take(n, m) == [chan EXCEPT ![<<m, n>>] = Tail(@)]

(* broadcast_block: to every peer, in the form it asked for *)
Announcement(s, n, b) ==
    [p \in Node |-> IF p \notin Peers(n) THEN <<>>
                    ELSE IF s.tally[p].compact
                         THEN <<[type |-> "cmpctblock", block |-> b]>>
                         ELSE <<[type |-> "inv", kind |-> "block", hash |-> Raw(b)]>>]

(* on_transaction's broadcast: to every peer but the source *)
TxAnnouncement(n, t, source) ==
    [p \in Node |-> IF p \in Peers(n) \ {source}
                    THEN <<[type |-> "inv", kind |-> "tx", hash |-> <<t, "hex">>]>> ELSE <<>>]

Both(m1, m2) == [p \in Node |-> m1[p] \o m2[p]]

(* on_block for a block with exactly its transactions: the new state, what   *)
(* is announced, and whether the block was adopted.  Its transactions leave  *)
(* the pool.                                                                 *)
AcceptOne(n, s, b) ==
    IF b \in s.index THEN [s |-> s, out |-> Silence, ok |-> FALSE]
    ELSE IF Parent(b) \notin s.index
         THEN [s |-> [s EXCEPT !.orphans = @ \cup {b}], out |-> Silence, ok |-> FALSE]
    ELSE IF Height(b) <= Height(s.tip)
         THEN [s |-> [s EXCEPT !.index = @ \cup {b}, !.rows = Set(@, b, Height(b))],
               out |-> Silence, ok |-> FALSE]
    ELSE LET t == [s EXCEPT !.index = @ \cup {b}, !.tip = b, !.rows = Set(@, b, Height(b)),
                            !.known = Remember(@, b),
                            !.pool = @ \ UNION {Range(Txs[c]) : c \in Range(PathTo[b])}]
         IN  [s |-> t, out |-> Announcement(t, n, b), ok |-> TRUE]

(* a round of _process_orphan_children: a child of the new tip is tried.     *)
(* Where all blocks are of one branch there is at most one child; ChainState *)
(* models the loop over several.                                             *)
Retry(n, r) ==
    LET children == {c \in r.s.orphans : Parent(c) = r.s.tip}
        c == CHOOSE x \in children : TRUE
        next == AcceptOne(n, [r.s EXCEPT !.orphans = @ \ {c}], c)
    IN  IF children = {} THEN r
        ELSE [s |-> next.s, out |-> Both(r.out, next.out), ok |-> TRUE]

(* the block, and the orphans that follow it *)
Accept(n, s, b) ==
    LET first == AcceptOne(n, s, b)
        tried[k \in 0..Cardinality(s.orphans)] ==
            IF k = 0 THEN first ELSE Retry(n, tried[k - 1])
    IN  IF first.ok THEN tried[Cardinality(s.orphans)] ELSE first

(* Peer.record_compact_result *)
Tally(t, success) ==
    LET bad == IF ~success THEN t.bad + 1 ELSE IF t.bad > 0 THEN t.bad - 1 ELSE 0
        ok == IF success THEN t.ok + 1 ELSE t.ok
    IN  [ok |-> ok, bad |-> bad,
         compact |-> t.compact /\ (success \/ bad < 3 \/ bad <= 2 * ok)]
Counted(s, p, success) == [s EXCEPT !.tally[p] = Tally(@, success)]

(* the compact request for a block is over *)
Resolved(s, b) == [s EXCEPT !.timer = @ \ {b}, !.compact = Unset(@, {b})]
-----------------------------------------------------------------------------
(* One handler per command: the outcomes, a new state and messages sent.     *)
Reply(s, p, ms) == {[s |-> s, out |-> To(p, ms)]}
Done(s) == {[s |-> s, out |-> Silence]}
GetBlock(b) == <<[type |-> "getdata", kind |-> "block", hash |-> Raw(b)]>>

(* Fault: a block is remembered as known when it is announced *)
FaultInv(n, p, m, s) ==
    IF m.kind = "block" /\ m.hash[1] \notin s.known
    THEN Reply([s EXCEPT !.known = Remember(@, m.hash[1])], p, GetBlock(m.hash[1]))
    ELSE Done(s)

OnInv(n, p, m, s) ==
    LET key == IF m.kind = "tx" THEN m.hash ELSE Flip(m.hash)
        Is(b) == Hex(b) = key
    IN  CASE m.kind = "tx" /\ key[1] \in s.knownTx -> Done(s)
          [] m.kind = "tx" /\ key[1] \in s.pool \ s.knownTx ->
               Done([s EXCEPT !.knownTx = Remember(@, key[1])])
          [] m.kind = "block" /\ \E b \in s.known : Is(b) -> Done(s)
          [] m.kind = "block" /\ (\E b \in s.index : Is(b)) /\ ~\E b \in s.known : Is(b) ->
               Done([s EXCEPT !.known = Remember(@, key[1])])
          [] OTHER -> Reply(s, p, <<[type |-> "getdata", kind |-> m.kind, hash |-> m.hash]>>)

(* tx, with on_transaction: a new one that no block of the chain confirms *)
OnTx(n, p, m, s) ==
    LET confirmed == \E b \in Range(PathTo[s.tip]) : m.tx \in Range(Txs[b])
    IN  IF m.tx \in s.knownTx \cup s.pool \/ confirmed THEN Done(s)
        ELSE {[s |-> [s EXCEPT !.pool = @ \cup {m.tx}, !.knownTx = Remember(@, m.tx)],
               out |-> TxAnnouncement(n, m.tx, p)]}

OnBlock(n, p, m, s) ==
    IF m.block \in s.known THEN Done(Resolved(s, m.block))
    ELSE {[s |-> r.s, out |-> r.out] : r \in {Accept(n, Resolved(s, m.block), m.block)}}

(* _build_compact_candidate: the positions the pool cannot fill *)
Missing(s, b) == {i \in DOMAIN Txs[b] : Txs[b][i] \notin s.pool}

(* what is kept of a compact block that could not be used at once *)
Waiting(s, p, b) ==
    LET entry == [peer |-> p, wanted |-> Missing(s, b),
                  have |-> [i \in DOMAIN Txs[b] \ Missing(s, b) |-> Txs[b][i]]]
    IN  [s EXCEPT !.compact = Set(@, b, entry), !.timer = @ \cup {b}]

OnCmpctBlock(n, p, m, s) ==
    LET b == m.block
    IN  CASE b \in s.known -> Done(Counted(s, p, TRUE))
          [] b \in s.index \ s.known ->
               Done(Counted([s EXCEPT !.known = Remember(@, b)], p, TRUE))
          [] b \notin s.index \cup s.known /\ Missing(s, b) = {} ->
               UNION {IF r.ok THEN {[s |-> Counted(Resolved(r.s, b), p, TRUE), out |-> r.out]}
                      ELSE Reply(Counted(Waiting(r.s, p, b), p, FALSE), p, GetBlock(b)) :
                        r \in {Accept(n, s, b)}}
          [] OTHER ->
               IF Cardinality(Missing(s, b)) <= MaxMissing
               THEN Reply(Waiting(s, p, b), p,
                          <<[type |-> "getblocktxn", block |-> b, wanted |-> Missing(s, b)]>>)
               ELSE Reply(Counted(Waiting(s, p, b), p, FALSE), p, GetBlock(b))

InOrder(S) == CHOOSE q \in [1..Cardinality(S) -> S] :
                  \A i, j \in 1..Cardinality(S) : i < j => q[i] < q[j]

OnGetBlockTxn(n, p, m, s) ==
    IF m.block \notin s.index THEN Done(s)
    ELSE {[s |-> s, out |-> To(p, <<[type |-> "blocktxn", block |-> m.block,
                                     txs |-> [i \in DOMAIN q |-> Txs[m.block][q[i]]]]>>)] :
            q \in {InOrder(m.wanted)}}

(* the answers fill the positions wanted by the entry as it is now; a block  *)
(* put together wrongly fails validation and is dropped                      *)
OnBlockTxn(n, p, m, s) ==
    LET b == m.block
        e == s.compact[b]
        filled == [i \in DOMAIN e.have \cup e.wanted |->
                     IF i \in DOMAIN e.have THEN e.have[i]
                     ELSE m.txs[Cardinality({j \in e.wanted : j <= i})]]
    IN  IF b \notin DOMAIN s.compact THEN Done(s)
        ELSE IF Cardinality(e.wanted) # Len(m.txs)
             THEN Reply(Counted([s EXCEPT !.timer = @ \cup {b}], p, FALSE), p, GetBlock(b))
        ELSE IF filled = Txs[b]
             THEN {[s |-> Counted(Resolved(r.s, b), p, r.ok), out |-> r.out] :
                     r \in {Accept(n, s, b)}}
        ELSE Done(Counted(Resolved(s, b), p, FALSE))

OnGetData(n, p, m, s) ==
    CASE m.kind = "tx" /\ m.hash[1] \in s.pool ->
           Reply(s, p, <<[type |-> "tx", tx |-> m.hash[1]]>>)
      [] m.kind = "block" /\ (\E b \in s.index : Hex(b) = Flip(m.hash)) ->
           Reply(s, p, <<[type |-> "block", block |-> m.hash[1]]>>)
      [] OTHER -> Done(s)
-----------------------------------------------------------------------------
(* HeaderChain: the row of a block gives its height; a header is looked up   *)
(* by height in a cache, then in the rows                                    *)
HeaderAt(s, h) ==
    LET at == {b \in DOMAIN s.rows : s.rows[b] = h}
    IN  IF h \in DOMAIN s.atHeight THEN {s.atHeight[h]} ELSE at

(* ChainState.get_header: the headers it may return for a height *)
get_header(s, h) ==
    IF h > Height(s.tip) THEN {}
    ELSE LET b == Main(s, h)
         IN  IF b \in DOMAIN s.heightOf THEN HeaderAt(s, s.heightOf[b]) ELSE {b}

(* and what asking for a set of heights, lowest first, leaves in the caches *)
CacheHeaders(s, H) ==
    LET fresh == {h \in H : h <= Height(s.tip) /\ Main(s, h) \notin DOMAIN s.heightOf}
        row(h) == s.rows[Main(s, h)]
        last(x) == CHOOSE h \in fresh : row(h) = x /\ \A k \in fresh : row(k) = x => k <= h
    IN  [s EXCEPT !.atHeight = Over(@, [x \in {row(h) : h \in fresh} |-> Main(s, last(x))]),
                  !.heightOf = Over(@, [b \in {Main(s, h) : h \in fresh} |-> s.rows[b]])]

(* get_height of a locator hash, as the getheaders handler asks for it *)
HeightFor(s, hash) == {s.rows[b] : b \in {c \in DOMAIN s.rows : Hex(c) = hash}}

(* the height getheaders and getblocks answers start from *)
StartHeight(s, locator) ==
    LET hits == {i \in DOMAIN locator : HeightFor(s, locator[i]) # {}}
        first == CHOOSE i \in hits : \A j \in hits : i <= j
    IN  IF hits = {} THEN 0 ELSE (CHOOSE x \in HeightFor(s, locator[first]) : TRUE) + 1

Served(s, locator) == {h \in 0..Height(s.tip) :
    StartHeight(s, locator) <= h /\ h < StartHeight(s, locator) + HeadersLimit}

OnGetHeaders(n, p, m, s) ==
    LET from == StartHeight(s, m.locator)
        count == Cardinality(Served(s, m.locator))
    IN  {[s |-> t, out |-> To(p, <<[type |-> "headers", headers |->
            [i \in 1..count |-> CHOOSE b \in get_header(t, from + i - 1) : TRUE]]>>)] :
              t \in {CacheHeaders(s, Served(s, m.locator))}}

(* _build_locator: for chains of up to eleven blocks every hash, and genesis *)
Locator(s) == [i \in 1..(Height(s.tip) + 1) |-> Raw(Main(s, Height(s.tip) + 1 - i))]
              \o <<Raw(Genesis)>>

(* process_headers: the batch is recorded above the current best height;     *)
(* then more headers are asked for, or the blocks above the best height      *)
(* Fault: the cache by height is filled one height too low *)
FaultAddHeaders(s, q, best) ==
    LET heights == [b \in Range(q) |-> best + (CHOOSE i \in DOMAIN q : q[i] = b)]
    IN  [s EXCEPT !.rows = Over(@, heights), !.heightOf = Over(@, heights),
                  !.atHeight = Over(@, [h \in best..(best + Len(q) - 1) |-> q[h - best + 1]])]

AddHeaders(s, q, best) ==
    LET heights == [b \in Range(q) |-> best + (CHOOSE i \in DOMAIN q : q[i] = b)]
    IN  [s EXCEPT !.rows = Over(@, heights), !.heightOf = Over(@, heights),
                  !.atHeight = Over(@, [h \in (best + 1)..(best + Len(q)) |-> q[h - best]])]

(* _request_blocks: what get_header knows above the best height *)
RequestBlocks(s, p) ==
    LET best == Height(s.tip)
        heights == {h \in (best + 1)..s.heights[p] : get_header(s, h) # {}}
        hash(h) == Raw(CHOOSE b \in get_header(s, h) : TRUE)
    IN  {[s |-> [s EXCEPT !.asked = @ \cup {hash(h) : h \in heights}],
          out |-> To(p, [i \in DOMAIN q |-> [type |-> "getdata", kind |-> "block",
                                              hash |-> hash(q[i])]])] :
           q \in {InOrder(heights)}}

OnHeaders(n, p, m, s) ==
    IF m.headers = <<>> THEN Done(s)
    ELSE UNION {IF Len(m.headers) = HeadersLimit
                THEN Reply(t, p, <<[type |-> "getheaders", locator |-> Locator(t)]>>)
                ELSE RequestBlocks(t, p) :
                  t \in {AddHeaders(CacheHeaders(s, {Height(s.tip)}), m.headers, Height(s.tip))}}
-----------------------------------------------------------------------------
Handle(n, p, m, s) ==
    CASE m.type = "inv"         -> OnInv(n, p, m, s)
      [] m.type = "tx"          -> OnTx(n, p, m, s)
      [] m.type = "block"       -> OnBlock(n, p, m, s)
      [] m.type = "cmpctblock"  -> OnCmpctBlock(n, p, m, s)
      [] m.type = "getblocktxn" -> OnGetBlockTxn(n, p, m, s)
      [] m.type = "blocktxn"    -> OnBlockTxn(n, p, m, s)
      [] m.type = "getdata"     -> OnGetData(n, p, m, s)
      [] m.type = "getheaders"  -> OnGetHeaders(n, p, m, s)
      [] m.type = "headers"     -> OnHeaders(n, p, m, s)

(* while catching up a node of an authority network ignores relay messages *)
Ignored(n, m) ==
    /\ Gated /\ \E p \in BestPeers(n) : node[n].heights[p] > Height(node[n].tip) + AllowedLag
    /\ m.type \in {"inv", "tx", "cmpctblock"}

Receive(n, p) ==
    /\ chan[<<p, n>>] # <<>>
    /\ \E m \in {Head(chan[<<p, n>>])} :
       \E r \in IF Ignored(n, m) THEN Done(node[n]) ELSE Handle(n, p, m, node[n]) :
         /\ node' = [node EXCEPT ![n] = r.s]
         /\ chan' = Send(Take(n, p), n, r.out)
    /\ UNCHANGED <<mined, faults>>

(* _peer_rate_limited: the message over the limit is thrown away *)
RateLimited(n, p) ==
    /\ chan[<<p, n>>] # <<>> /\ faults < MaxFaults
    /\ chan' = Take(n, p) /\ faults' = faults + 1
    /\ UNCHANGED <<node, mined>>

(* the pool loses an entry: expiry, replacement or pressure *)
PoolLoses(n, t) ==
    /\ t \in node[n].pool /\ faults < MaxFaults
    /\ node' = [node EXCEPT ![n].pool = @ \ {t}] /\ faults' = faults + 1
    /\ UNCHANGED <<chan, mined>>

(* a wallet hands its node a transaction; a node mines on its tip *)
SubmitTx(n, t) ==
    /\ t \notin UNION {node[k].pool \cup node[k].knownTx : k \in Node}
    /\ \A b \in mined : t \notin Range(Txs[b])
    /\ \E r \in OnTx(n, n, [tx |-> t], node[n]) :
         node' = [node EXCEPT ![n] = r.s] /\ chan' = Send(chan, n, r.out)
    /\ UNCHANGED <<mined, faults>>

Mine(n, b) ==
    /\ b \notin mined /\ b # Genesis /\ Parent(b) = node[n].tip
    /\ \E r \in {Accept(n, node[n], b)} :
         node' = [node EXCEPT ![n] = r.s] /\ chan' = Send(chan, n, r.out)
    /\ mined' = mined \cup {b}
    /\ UNCHANGED faults

(* a round of _run_sync_loop: ask the highest peer for headers.  Rounds are  *)
(* half a minute apart, so the exchange of the last one is over.             *)
SyncRound(n) ==
    /\ Behind(n)
    /\ \E p \in BestPeers(n) :
        /\ chan[<<n, p>>] = <<>> /\ chan[<<p, n>>] = <<>>
        /\ chan' = Send(chan, n, To(p,
                       <<[type |-> "getheaders", locator |-> Locator(node[n])]>>))
    /\ UNCHANGED <<node, mined, faults>>

(* _handle_stale_compact_requests, for requests that timed out *)
StaleCompact(n, b) ==
    LET s == node[n]
        p == s.compact[b].peer
    IN  /\ b \in s.timer
        /\ IF b \in DOMAIN s.compact
           THEN /\ node' = [node EXCEPT ![n] =
                     Counted([s EXCEPT !.timer = @ \ {b}], p, FALSE)]
                /\ chan' = Send(chan, n, To(p, GetBlock(b)))
           ELSE node' = [node EXCEPT ![n].timer = @ \ {b}] /\ UNCHANGED chan
        /\ UNCHANGED <<mined, faults>>

(* some transactions and blocks enter the network at one node *)
RelayNext(source, txs, blocks) ==
    \/ \E p \in Pairs : Receive(p[1], p[2]) \/ RateLimited(p[1], p[2])
    \/ \E t \in txs : SubmitTx(source, t)
    \/ \E b \in blocks : Mine(source, b)
    \/ \E n \in Node :
        \/ \E t \in Tx : PoolLoses(n, t)
        \/ \E b \in Block : StaleCompact(n, b)
        \/ SyncRound(n)

(* what is on the way arrives, the sync loops keep running *)
RelayFairness ==
    /\ \A p \in Pairs : WF_relayVars(Receive(p[1], p[2]))
    /\ \A n \in Node : WF_relayVars(SyncRound(n))
-----------------------------------------------------------------------------
(* A header the node serves for a height is that of its active block there,  *)
(* whatever heights the synchronisation has left in the header rows and      *)
(* caches, as long as all blocks are of one branch.                          *)
ServesOwnChain ==
    \A n \in Node : \A h \in 0..Height(node[n].tip) :
        get_header(node[n], h) = {Main(node[n], h)}

(* Every block that is mined reaches every node that is not behind the       *)
(* network, through announcements, compact blocks that need transactions,    *)
(* late answers and fall-backs to the whole block, unless a message was      *)
(* thrown away by the rate limit or a pool lost an entry on the way.         *)
BlocksSpread ==
    \A b \in Block :
        b \in mined ~> \/ \A n \in Node : Behind(n) \/ b \in node[n].index
                       \/ faults > 0

(* A node that starts behind the network reaches the height it saw its peers *)
(* have (docs/RUNBOOK_ADMISSION.md: "A node behind tip can connect and       *)
(* sync").                                                                   *)
BehindCatchesUp ==
    \A n \in Node : <>~Behind(n)
=============================================================================
