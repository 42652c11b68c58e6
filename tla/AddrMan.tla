------------------------------ MODULE AddrMan ------------------------------
(* AddrMan: the address book of the node, with the operator's static peers   *)
(* and the anchors that survive a restart, and the filter gossiped addresses *)
(* pass on their way into it (ConnectionManager.filter_and_add_addrs).       *)
EXTENDS PeerScoring

CONSTANTS MaxAddresses,   \* max_addresses
          Configured,     \* connect=/addnode=/bootstrap peers: address -> priority
          Routable,       \* ipaddress.ip_address(host).is_global
          MaxAccept,      \* addresses of one addr message looked at
          NetgroupCap,    \* and accepted per netgroup, 64
          RetryBackoff,   \* fail_count -> seconds since the last attempt
          MaxTries        \* bound on success and failure counts

\* The limits are counts, and the operator names peers by their addresses.
ASSUME BookAssumption ==
    /\ IsFiniteSet(Address) /\ DOMAIN Configured \subseteq Address
    /\ MaxAddresses \in Nat /\ MaxAccept \in Nat

VARIABLES book,        \* addresses, new_addresses and tried_addresses
          static,      \* static_peers with static_peer_priority
          anchors,     \* anchor_peers
          anchorFile   \* anchors.json

addrVars == <<book, static, anchors, anchorFile>>

EmptyBook == [info |-> EmptyMap, new |-> {}, tried |-> {}]
Known(b) == DOMAIN b.info

(* AddressInfo.should_retry *)
should_retry(i, t) == i.fail > 0 => t - i.attempt >= RetryBackoff[i.fail]

(* Fault: the evicted address stays among the tried ones *)
Fault_evict(b, old) ==
    [b EXCEPT !.info = Drop(@, {old}), !.new = @ \ {old}]

(* what _evict_oldest removes; min() takes the first of several oldest *)
evict(b, old) ==
    [b EXCEPT !.info = Drop(@, {old}), !.new = @ \ {old}, !.tried = @ \ {old}]

Oldest(b) == {a \in Known(b) : \A c \in Known(b) : b.info[a].seen <= b.info[c].seen}

(* a new AddressInfo *)
fresh(b, a, t) ==
    [b EXCEPT !.info = Put(@, a, [seen |-> t, attempt |-> 0, ok |-> 0, fail |-> 0]),
              !.new = @ \cup {a}]

(* add: the books that result, one for each address that may be the oldest *)
add(b, a, t) ==
    IF a \in Known(b) THEN {[b EXCEPT !.info[a].seen = t]}
    ELSE IF Cardinality(Known(b)) < MaxAddresses THEN {fresh(b, a, t)}
    ELSE {fresh(evict(b, old), a, t) : old \in Oldest(b)}

(* add_static_peer: the address counts as tried from the start *)
AddStatic(b, a, t) ==
    {[c EXCEPT !.new = @ \ {a}, !.tried = @ \cup {a}] : c \in add(b, a, t)}

(* add, for the addresses at some places of a list in turn *)
AddAt(b, q, places, t) ==
    FoldLeftDomain(LAMBDA books, i : IF i \in places THEN UNION {add(c, q[i], t) : c \in books}
                                                     ELSE books,
                   {b}, q)

(* add_many: all the books in which the addresses of a set have been added *)
AddMany(b, S, t) == AddAt(b, SetToSeq(S), 1..Cardinality(S), t)

(* The book at start-up: anchors from the file, then the configured peers *)
StartBooks(file, t) ==
    FoldLeft(LAMBDA books, a : UNION {AddStatic(c, a, t) : c \in books},
             AddMany(EmptyBook, file, t), SetToSeq(DOMAIN Configured))
-----------------------------------------------------------------------------
AddrInit ==
    /\ anchorFile = {} /\ anchors = {} /\ static = Configured
    /\ book \in StartBooks(anchorFile, now)

Learn(a) ==
    /\ book' \in add(book, a, now)
    /\ UNCHANGED <<static, anchors, anchorFile>>

(* a DNS seed answers with a list; add_from_dns_seed, in a worker thread *)
LearnFromSeed(answer) ==
    /\ book' \in AddMany(book, answer, now)
    /\ UNCHANGED <<static, anchors, anchorFile>>

AddStaticPeer(a, priority) ==
    LET old == IF a \in DOMAIN static THEN static[a] ELSE priority
    IN  /\ static' = Put(static, a, MinOf({old, priority}))
        /\ book' \in AddStatic(book, a, now)
        /\ UNCHANGED <<anchors, anchorFile>>

AddAnchor(a) ==
    /\ anchors' = anchors \cup {a} /\ anchorFile' = anchors'
    /\ book' \in add(book, a, now)
    /\ UNCHANGED static

SetAnchors(S) ==
    /\ anchors' = S /\ anchorFile' = S
    /\ book' \in AddMany(book, S, now)
    /\ UNCHANGED static

MarkGood(a) ==
    /\ a \in Known(book) /\ book.info[a].ok < MaxTries
    /\ book' = [book EXCEPT !.info[a].ok = @ + 1, !.info[a].attempt = now,
                            !.new = @ \ {a},
                            !.tried = @ \cup (book.new \cap {a})]
    /\ UNCHANGED <<static, anchors, anchorFile>>

MarkFailed(a) ==
    /\ a \in Known(book) /\ book.info[a].fail < MaxTries
    /\ book' = [book EXCEPT !.info[a].fail = @ + 1, !.info[a].attempt = now]
    /\ UNCHANGED <<static, anchors, anchorFile>>

(* The sequences sorted() and shuffle() can leave a set in *)
SortedBy(S, Leq(_, _)) ==
    {q \in SetToSeqs(S) : \A i, j \in DOMAIN q : i < j => Leq(q[i], q[j])}
Rate(a, b) ==   \* success_rate of a at least that of b
    LET i == book.info[a] j == book.info[b]
        x == MaxOf({1, i.ok + i.fail}) y == MaxOf({1, j.ok + j.fail})
    IN  i.ok * y >= j.ok * x
Take(q, n) == SubSeq(q, 1, MinOf({n, Len(q)}))

AppendNew(q, r) == FoldLeft(LAMBDA p, a : IF a \in Range(p) THEN p ELSE Append(p, a), q, r)
Merged(s, t, n, count) ==
    Take(Take(AppendNew(Take(s, count), Take(t, count)), count) \o n, count)

StaticOrders == SortedBy(DOMAIN static \cap Known(book),
                         LAMBDA a, b : static[a] <= static[b])

(* get_addresses, the answers it can give: static peers by priority, then    *)
(* the tried ones due for a retry by success rate, then new ones in any order *)
get_addresses(count) ==
    LET due(S) == {a \in S : should_retry(book.info[a], now)}
    IN  {Merged(s, t, n, count) : s \in StaticOrders,
            t \in SortedBy(due(book.tried), Rate), n \in SetToSeqs(due(book.new))}

(* filter_and_add_addrs: what one addr message may leave in the book.  A     *)
(* message over the limit costs its sender, on top of what it added.         *)
FilterAndAdd(source, addrs) ==
    LET looked == Take(addrs, MaxAccept)
        first(i) == \A j \in 1..(i - 1) : looked[j] # looked[i]
        passes(i) == first(i) /\ looked[i] \in Routable
        counted(i) == passes(i) /\ Cardinality({j \in 1..(i - 1) :
              passes(j) /\ GroupOf[looked[j]] = GroupOf[looked[i]]}) < NetgroupCap
        asked == {HostOf[looked[i]] : i \in {j \in DOMAIN looked : counted(j)}}
        kept == {i \in DOMAIN looked : counted(i) /\ ~IsActive(bans, HostOf[looked[i]], now)}
    IN  /\ book' \in AddAt(book, looked, kept, now)
        /\ UNCHANGED <<static, anchors, anchorFile>>
        /\ IF Len(addrs) > MaxAccept
           THEN RecordBad(source, "addr_spam")
           ELSE /\ bans' = Drop(bans, asked \cap Expired(bans, now))
                /\ SaveBans
                /\ UNCHANGED <<scores, offenses, scoreFile>>

ClearBook ==
    /\ book' = EmptyBook /\ static' = EmptyMap
    /\ anchors' = {} /\ anchorFile' = {}

(* only the anchors and the configuration outlive the process; a crash while *)
(* the anchor file is rewritten loses the anchors                            *)
RestartBook(torn) ==
    /\ anchorFile' = IF torn THEN {} ELSE anchorFile
    /\ anchors' = anchorFile' /\ static' = Configured
    /\ book' \in StartBooks(anchorFile', now)

(* the operations on a set of addresses *)
BookNext(Addrs) ==
    /\ UNCHANGED scoreVars
    /\ \/ \E a \in Addrs :
            \/ Learn(a) \/ MarkGood(a) \/ MarkFailed(a) \/ AddAnchor(a)
            \/ AddStaticPeer(a, 10)
       \/ \E S \in SUBSET Addrs : Cardinality(S) = 2 /\ (LearnFromSeed(S) \/ SetAnchors(S))
       \/ ClearBook
       \/ \E torn \in BOOLEAN : RestartBook(torn)

(* addr messages of one peer, and the bans of their subjects *)
GossipNext(Addrs, source) ==
    \/ \E n \in 1..(MaxAccept + 1) :
         \E addrs \in [1..n -> Addrs] : FilterAndAdd(source, addrs)
    \/ \E a \in Addrs : SetBan(a, Day) /\ UNCHANGED addrVars

(* scores, bans and the book of a node that any peer may send addresses to *)
PeerNext ==
    \/ ScoreNext(Address) /\ UNCHANGED <<addrVars, now>>
    \/ BookNext(Address) /\ UNCHANGED now
    \/ \E source \in Address : GossipNext(Address, source) /\ UNCHANGED now
    \/ Tick /\ UNCHANGED <<scoreVars, addrVars>>

PeerSpec == ScoreInit /\ now = 0 /\ AddrInit /\ [][PeerNext]_<<scoreVars, now, addrVars>>
-----------------------------------------------------------------------------
(* The new and the tried addresses split the book between them and it stays  *)
(* within its limit, so that get_addresses, which looks every one of them up *)
(* in the book, cannot fail on an address that eviction removed.             *)
BookConsistent ==
    /\ book.new \cap book.tried = {}
    /\ book.new \cup book.tried = Known(book)
    /\ Cardinality(Known(book)) <= MaxAddresses

(* Whatever the size asked for, what is offered for dialling is in the book, *)
(* and an address that failed is offered before its backoff is over only     *)
(* when the operator configured it.                                          *)
PickedUsable ==
    \A n \in 1..MaxAddresses : \A q \in get_addresses(n) : \A a \in Range(q) :
        /\ a \in Known(book)
        /\ \/ a \in DOMAIN static
           \/ book.info[a].fail = 0
           \/ now - book.info[a].attempt >= RetryBackoff[book.info[a].fail]

(* The address book can be dialled from: it is consistent, and what it picks *)
(* is in it and due.                                                         *)
BookUsable == BookConsistent /\ PickedUsable
=============================================================================
