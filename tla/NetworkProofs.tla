---------------------------- MODULE NetworkProofs ----------------------------
(***************************************************************************)
(* Proofs about the ban list (PeerScoring, with the operations AddrMan     *)
(* adds), the address book (AddrMan), the connection manager (ConnMan) and *)
(* the admission of nodes (Authority), for any number of addresses, hosts, *)
(* connections, nodes, keys and votes and for every limit, however join    *)
(* messages are repeated, altered and delayed.                             *)
(***************************************************************************)
EXTENDS AddrMan, Authority, ConnMan, FoldProofs, SequenceTheorems

(* Bans                                                                    *)

\* The file holds the list: _save is called whenever the list changed.
BansSaved == banFile = bans

\* What a step that is no operator's and no torn file's does to the list:
\* every ban still active stays, and the file follows.
Keeps ==
    /\ \A h : IsActive(bans, h, now) => h \in DOMAIN bans'
    /\ banFile' = bans'

\* Dropping what has expired drops no active ban.
LEMMA DropKeeps ==
  ASSUME NEW D, D \subseteq Expired(bans, now), bans' = Drop(bans, D),
         BansSaved, SaveBans
  PROVE  Keeps
BY DEF Drop, Expired, IsActive, BansSaved, SaveBans, Keeps

\* A new ban replaces the entry of its host and leaves the others.
LEMMA PutKeeps ==
  ASSUME NEW a, NEW d, bans' = ban(bans, a, d, now), BansSaved, SaveBans
  PROVE  Keeps
BY DEF ban, Put, IsActive, BansSaved, SaveBans, Keeps

\* The list stays as it is.
LEMMA SameKeeps ==
  ASSUME UNCHANGED bans, BansSaved, SaveBans \/ UNCHANGED banFile
  PROVE  Keeps
BY DEF IsActive, BansSaved, SaveBans, Keeps

\* Penalties, with the ban they may call for.
LEMMA BadKeeps ==
  ASSUME BansSaved, NEW a, NEW r, RecordBad(a, r)
  PROVE  Keeps
<1>1. SaveBans /\ \/ UNCHANGED bans
                  \/ \E d : bans' = ban(bans, a, d, now)
  BY Zenon DEF RecordBad
<1> QED BY <1>1, PutKeeps, SameKeeps

\* The operations on scores and bans: each keeps the active bans, or is one
\* that lifts them.
LEMMA ScoreKeeps ==
  ASSUME BansSaved, ScoreNext(Address)
  PROVE  \/ Keeps
         \/ ClearBanned \/ \E a \in Address : Unban(a)
         \/ \E torn \in SUBSET {"scores", "bans"} : "bans" \in torn /\ Restart(torn)
<1>1. ASSUME NEW a, RecordGood(a) PROVE Keeps
  BY <1>1, DropKeeps DEF RecordGood, cleanup_expired
<1>2. ASSUME NEW a, AskBanned(a) PROVE Keeps
  BY <1>2, DropKeeps DEF AskBanned
<1>3. ASSUME NEW a, NEW r, RecordBad(a, r) PROVE Keeps
  BY <1>3, BadKeeps
<1>4. ASSUME NEW a, NEW d, SetBan(a, d) PROVE Keeps
  BY <1>4, PutKeeps DEF SetBan
<1>5. ASSUME ListBanned PROVE Keeps
  BY <1>5, DropKeeps DEF ListBanned, cleanup_expired
<1>6. ASSUME NEW torn, "bans" \notin torn, Restart(torn) PROVE Keeps
  BY <1>6 DEF Restart, cleanup_expired, Drop, Expired, IsActive, BansSaved, Keeps
<1> QED BY <1>1, <1>2, <1>3, <1>4, <1>5, <1>6 DEF ScoreNext

\* An addr message may have the bans it meets looked up, and its sender
\* banned; the book itself touches no ban.
LEMMA BookKeeps ==
  ASSUME BansSaved,
         \/ BookNext(Address)
         \/ \E source \in Address : GossipNext(Address, source)
  PROVE  Keeps
<1>1. ASSUME NEW source, NEW addrs, FilterAndAdd(source, addrs) PROVE Keeps
  <2>1. \/ RecordBad(source, "addr_spam")
        \/ SaveBans /\ \E D : bans' = Drop(bans, D \cap Expired(bans, now))
    BY <1>1, Zenon DEF FilterAndAdd
  <2>2. ASSUME NEW D, SaveBans, bans' = Drop(bans, D \cap Expired(bans, now)) PROVE Keeps
    BY <2>2, DropKeeps
  <2> QED BY <2>1, <2>2, BadKeeps
<1>2. ASSUME NEW a, SetBan(a, Day) PROVE Keeps
  BY <1>2, PutKeeps DEF SetBan
<1>3. ASSUME UNCHANGED scoreVars PROVE Keeps
  BY <1>3, SameKeeps DEF scoreVars
<1> QED BY <1>1, <1>2, <1>3 DEF BookNext, GossipNext

\* What lifts bans writes the file too.
LEMMA LiftSaves ==
  ASSUME BansSaved,
         \/ ClearBanned \/ \E a \in Address : Unban(a)
         \/ \E torn \in SUBSET {"scores", "bans"} : "bans" \in torn /\ Restart(torn)
  PROVE  BansSaved'
BY DEF ClearBanned, Unban, Restart, SaveBans, BansSaved

\* A ban whose time is not up leaves the list only when the operator lifts it
\* or a crash tears the file: not by a clean-up, an addr message, a success of
\* the peer or a restart (BanManager, PeerScoringManager, AddrMan).
THEOREM BansHonoured == PeerSpec => BansHold
<1> DEFINE Lift == \/ ClearBanned \/ \E a \in Address : Unban(a)
                   \/ \E torn \in SUBSET {"scores", "bans"} : "bans" \in torn /\ Restart(torn)
           Held == \A h \in Host : IsActive(bans, h, now') /\ h \notin DOMAIN bans'
                                   => \/ ClearBanned
                                      \/ \E a \in Address : Unban(a)
                                      \/ \E torn \in SUBSET {"scores", "bans"} :
                                           "bans" \in torn /\ Restart(torn)
<1>1. ScoreInit => BansSaved
  BY DEF ScoreInit, BansSaved
<1>2. ASSUME BansSaved, [PeerNext]_<<scoreVars, now, addrVars>>
      PROVE  BansSaved' /\ [Held]_<<scoreVars, now>>
  <2>1. CASE UNCHANGED bans /\ UNCHANGED banFile
    <3>1. \A h : IsActive(bans, h, now') => h \in DOMAIN bans'
      BY <2>1 DEF IsActive
    <3> QED BY <3>1, <2>1, <1>2 DEF BansSaved
  <2>2. CASE Keeps /\ UNCHANGED now
    BY <2>2 DEF Keeps, BansSaved
  <2>3. CASE Lift
    BY <2>3, <1>2, LiftSaves
  <2>4. \/ UNCHANGED bans /\ UNCHANGED banFile
        \/ Keeps /\ UNCHANGED now
        \/ Lift
    <3>1. CASE ScoreNext(Address) /\ UNCHANGED <<addrVars, now>>
      BY <3>1, <1>2, ScoreKeeps
    <3>2. CASE BookNext(Address) /\ UNCHANGED now
      BY <3>2, <1>2, BookKeeps
    <3>3. CASE \E source \in Address : GossipNext(Address, source) /\ UNCHANGED now
      BY <3>3, <1>2, BookKeeps
    <3>4. CASE UNCHANGED scoreVars
      BY <3>4 DEF scoreVars
    <3> QED BY <1>2, <3>1, <3>2, <3>3, <3>4 DEF PeerNext
  <2> QED BY <2>1, <2>2, <2>3, <2>4
<1> QED BY <1>1, <1>2, PTL DEF PeerSpec, BansHold

-----------------------------------------------------------------------------
(* The address book                                                        *)

Info == [seen : Nat, attempt : Nat, ok : Nat, fail : Nat]

Books == [info : UNION {[D -> Info] : D \in SUBSET Address},
          new : SUBSET Address, tried : SUBSET Address]

\* Books whose new and tried addresses are those it knows, within the limit.
GoodBooks ==
    {b \in Books : /\ b.new \cap b.tried = {}
                   /\ b.new \cup b.tried = Known(b)
                   /\ Cardinality(Known(b)) <= MaxAddresses}

BookInv ==
    /\ now \in Nat /\ book \in GoodBooks
    /\ anchors \subseteq Address /\ anchorFile \subseteq Address

\* A book with some of its fields replaced.
LEMMA BookFields ==
  ASSUME NEW b, b = [info |-> b.info, new |-> b.new, tried |-> b.tried],
         NEW f, NEW N, NEW T
  PROVE  /\ [b EXCEPT !.info = f, !.new = N] = [info |-> f, new |-> N, tried |-> b.tried]
         /\ [b EXCEPT !.info = f, !.new = N, !.tried = T] = [info |-> f, new |-> N, tried |-> T]
         /\ [b EXCEPT !.new = N, !.tried = T] = [info |-> b.info, new |-> N, tried |-> T]
         /\ [b EXCEPT !.info = f] = [info |-> f, new |-> b.new, tried |-> b.tried]
<1>1. b \in [info : {b.info}, new : {b.new}, tried : {b.tried}]
  OBVIOUS
<1>2. \A g, M, S : \A c \in [info : {g}, new : {M}, tried : {S}] : c = [info |-> g, new |-> M, tried |-> S]
  OBVIOUS
<1>3. [b EXCEPT !.info = f, !.new = N] \in [info : {f}, new : {N}, tried : {b.tried}]
  BY <1>1
<1>4. [b EXCEPT !.info = f, !.new = N, !.tried = T] \in [info : {f}, new : {N}, tried : {T}]
  BY <1>1
<1>5. [b EXCEPT !.new = N, !.tried = T] \in [info : {b.info}, new : {N}, tried : {T}]
  BY <1>1
<1>6. [b EXCEPT !.info = f] \in [info : {f}, new : {b.new}, tried : {b.tried}]
  BY <1>1
<1> QED BY <1>2, <1>3, <1>4, <1>5, <1>6, Zenon

\* What a good book is made of.
LEMMA BookParts ==
  ASSUME NEW b \in GoodBooks
  PROVE  /\ b = [info |-> b.info, new |-> b.new, tried |-> b.tried]
         /\ Known(b) \in SUBSET Address /\ IsFiniteSet(Known(b))
         /\ b.info \in [Known(b) -> Info]
         /\ b.new \in SUBSET Address /\ b.tried \in SUBSET Address
         /\ b.new \cap b.tried = {} /\ b.new \cup b.tried = Known(b)
         /\ Cardinality(Known(b)) \in Nat /\ Cardinality(Known(b)) <= MaxAddresses
<1>1. b \in Books /\ b.new \cap b.tried = {} /\ b.new \cup b.tried = Known(b)
      /\ Cardinality(Known(b)) <= MaxAddresses
  BY DEF GoodBooks
<1>2. PICK D \in SUBSET Address : b.info \in [D -> Info]
  BY <1>1 DEF Books
<1>3. Known(b) = D
  BY <1>2 DEF Known
<1>4. IsFiniteSet(D) /\ Cardinality(D) \in Nat
  BY BookAssumption, FS_Subset, FS_CardinalityType
<1>5. /\ b = [info |-> b.info, new |-> b.new, tried |-> b.tried]
      /\ b.new \in SUBSET Address /\ b.tried \in SUBSET Address
  BY <1>1 DEF Books
<1> QED BY <1>1, <1>2, <1>3, <1>4, <1>5

\* And what makes one.
LEMMA MakeBook ==
  ASSUME NEW D \in SUBSET Address, NEW f \in [D -> Info],
         NEW N \in SUBSET Address, NEW T \in SUBSET Address,
         N \cap T = {}, N \cup T = D, Cardinality(D) <= MaxAddresses
  PROVE  /\ [info |-> f, new |-> N, tried |-> T] \in GoodBooks
         /\ Known([info |-> f, new |-> N, tried |-> T]) = D
<1> DEFINE b == [info |-> f, new |-> N, tried |-> T]
<1>1. b.info = f /\ b.new = N /\ b.tried = T /\ b \in Books
  BY DEF Books
<1>2. Known(b) = D
  BY <1>1 DEF Known
<1> HIDE DEF b
<1> QED BY <1>1, <1>2 DEF GoodBooks, b

\* A book that knows nothing.
LEMMA EmptyGood == EmptyBook \in GoodBooks
<1>1. EmptyMap \in [{} -> Info] /\ Cardinality({}) <= MaxAddresses
  BY BookAssumption, FS_EmptySet DEF EmptyMap
<1>2. {} \cap {} = {} /\ {} \cup {} = {} /\ {} \in SUBSET Address
  OBVIOUS
<1> QED BY <1>1, <1>2, MakeBook, Zenon DEF EmptyBook

\* One address that was not known, in a book with room for it.
LEMMA FreshGood ==
  ASSUME NEW b \in GoodBooks, NEW a \in Address \ Known(b), NEW t \in Nat,
         Cardinality(Known(b)) < MaxAddresses
  PROVE  fresh(b, a, t) \in GoodBooks /\ a \in Known(fresh(b, a, t))
<1> DEFINE i == [seen |-> t, attempt |-> 0, ok |-> 0, fail |-> 0]
           f == Put(b.info, a, i)
           D == Known(b) \cup {a}
           c == fresh(b, a, t)
<1>1. /\ b = [info |-> b.info, new |-> b.new, tried |-> b.tried]
      /\ Known(b) \in SUBSET Address /\ IsFiniteSet(Known(b)) /\ b.info \in [Known(b) -> Info]
      /\ b.new \in SUBSET Address /\ b.tried \in SUBSET Address
      /\ b.new \cap b.tried = {} /\ b.new \cup b.tried = Known(b)
      /\ Cardinality(Known(b)) \in Nat
  BY BookParts
<1>2. c = [info |-> f, new |-> b.new \cup {a}, tried |-> b.tried]
  <2>1. c = [b EXCEPT !.info = f, !.new = b.new \cup {a}]
    BY DEF fresh
  <2> HIDE DEF c, f
  <2>2. b = [info |-> b.info, new |-> b.new, tried |-> b.tried]
    BY <1>1
  <2> QED BY <2>1, <2>2, BookFields, Zenon
<1>3. i \in Info
  BY DEF Info
<1>4. f \in [D -> Info]
  BY <1>1, <1>3 DEF Put
<1>5. Cardinality(D) = Cardinality(Known(b)) + 1
  BY <1>1, FS_AddElement
<1>6. Cardinality(D) <= MaxAddresses
  BY <1>1, <1>5, BookAssumption
<1> HIDE DEF f, c, i
<1>7. D \in SUBSET Address /\ (b.new \cup {a}) \cap b.tried = {} /\ (b.new \cup {a}) \cup b.tried = D
      /\ b.new \cup {a} \in SUBSET Address /\ a \in D
  BY <1>1
<1> HIDE DEF D
<1>8. c \in GoodBooks /\ Known(c) = D
  BY <1>1, <1>2, <1>4, <1>6, <1>7, MakeBook
<1> QED BY <1>7, <1>8 DEF c

\* Eviction makes room.
LEMMA EvictGood ==
  ASSUME NEW b \in GoodBooks, NEW old \in Known(b)
  PROVE  /\ evict(b, old) \in GoodBooks /\ Known(evict(b, old)) = Known(b) \ {old}
         /\ Cardinality(Known(evict(b, old))) < MaxAddresses
<1> DEFINE f == Drop(b.info, {old})
           D == Known(b) \ {old}
<1>1. /\ b = [info |-> b.info, new |-> b.new, tried |-> b.tried]
      /\ Known(b) \in SUBSET Address /\ IsFiniteSet(Known(b)) /\ b.info \in [Known(b) -> Info]
      /\ b.new \in SUBSET Address /\ b.tried \in SUBSET Address
      /\ b.new \cap b.tried = {} /\ b.new \cup b.tried = Known(b)
      /\ Cardinality(Known(b)) \in Nat /\ Cardinality(Known(b)) <= MaxAddresses
  BY BookParts
<1>2. evict(b, old) = [info |-> f, new |-> b.new \ {old}, tried |-> b.tried \ {old}]
  <2>1. evict(b, old) = [b EXCEPT !.info = f, !.new = b.new \ {old}, !.tried = b.tried \ {old}]
    BY DEF evict
  <2> HIDE DEF f
  <2>2. b = [info |-> b.info, new |-> b.new, tried |-> b.tried]
    BY <1>1
  <2> QED BY <2>1, <2>2, BookFields, Zenon
<1>3. f \in [D -> Info]
  BY <1>1 DEF Drop
<1>4. Cardinality(D) = Cardinality(Known(b)) - 1
  BY <1>1, FS_RemoveElement, Zenon
<1>5. Cardinality(D) < MaxAddresses /\ Cardinality(D) <= MaxAddresses
  BY <1>1, <1>4, BookAssumption
<1>6. D \in SUBSET Address /\ (b.new \ {old}) \cap (b.tried \ {old}) = {}
      /\ (b.new \ {old}) \cup (b.tried \ {old}) = D
      /\ b.new \ {old} \in SUBSET Address /\ b.tried \ {old} \in SUBSET Address
  BY <1>1
<1> HIDE DEF f, D
<1>7. evict(b, old) \in GoodBooks /\ Known(evict(b, old)) = D
  BY <1>2, <1>3, <1>5, <1>6, MakeBook
<1> QED BY <1>5, <1>7 DEF D

\* One address with new counts or times.
LEMMA InfoGood ==
  ASSUME NEW b \in GoodBooks, NEW a \in Known(b), NEW i \in Info,
         NEW N \in SUBSET Address, NEW T \in SUBSET Address, N \cap T = {}, N \cup T = Known(b)
  PROVE  /\ [info |-> [b.info EXCEPT ![a] = i], new |-> N, tried |-> T] \in GoodBooks
         /\ Known([info |-> [b.info EXCEPT ![a] = i], new |-> N, tried |-> T]) = Known(b)
<1> DEFINE f == [b.info EXCEPT ![a] = i]
           D == Known(b)
<1>1. D \in SUBSET Address /\ b.info \in [D -> Info] /\ Cardinality(D) <= MaxAddresses
  BY BookParts
<1>2. f \in [D -> Info]
  BY <1>1
<1> HIDE DEF f, D
<1>3. N \cup T = D
  BY DEF D
<1>4. /\ [info |-> f, new |-> N, tried |-> T] \in GoodBooks
      /\ Known([info |-> f, new |-> N, tried |-> T]) = D
  BY <1>1, <1>2, <1>3, MakeBook
<1> QED BY <1>4 DEF f, D

\* Every book that add may leave is good and has the address.
LEMMA AddGood ==
  ASSUME NEW b \in GoodBooks, NEW a \in Address, NEW t \in Nat, NEW c \in add(b, a, t)
  PROVE  c \in GoodBooks /\ a \in Known(c)
<1>1. /\ b = [info |-> b.info, new |-> b.new, tried |-> b.tried]
      /\ Known(b) \in SUBSET Address /\ IsFiniteSet(Known(b)) /\ b.info \in [Known(b) -> Info]
      /\ b.new \in SUBSET Address /\ b.tried \in SUBSET Address
      /\ b.new \cap b.tried = {} /\ b.new \cup b.tried = Known(b)
  BY BookParts
<1>2. CASE a \in Known(b)
  <2> DEFINE i == [b.info[a] EXCEPT !.seen = t]
  <2>1. c = [b EXCEPT !.info[a].seen = t]
    BY <1>2 DEF add
  <2>2. c = [info |-> [b.info EXCEPT ![a] = i], new |-> b.new, tried |-> b.tried]
    BY <1>1, <2>1
  <2>3. i \in Info
    BY <1>1, <1>2 DEF Info
  <2> HIDE DEF i
  <2>4. c \in GoodBooks /\ Known(c) = Known(b)
    BY <1>1, <1>2, <2>2, <2>3, InfoGood
  <2> QED BY <1>2, <2>4
<1>3. CASE a \notin Known(b) /\ Cardinality(Known(b)) < MaxAddresses
  <2>1. c = fresh(b, a, t)
    BY <1>3 DEF add
  <2> QED BY <1>3, <2>1, FreshGood
<1>4. CASE a \notin Known(b) /\ ~(Cardinality(Known(b)) < MaxAddresses)
  <2>1. PICK old \in Oldest(b) : c = fresh(evict(b, old), a, t)
    BY <1>4 DEF add
  <2>2. old \in Known(b)
    BY DEF Oldest
  <2> DEFINE d == evict(b, old)
  <2>3. d \in GoodBooks /\ a \in Address \ Known(d) /\ Cardinality(Known(d)) < MaxAddresses
    BY <1>4, <2>2, EvictGood
  <2> HIDE DEF d
  <2>4. c = fresh(d, a, t)
    BY <2>1 DEF d
  <2> QED BY <2>3, <2>4, FreshGood
<1> QED BY <1>2, <1>3, <1>4

\* The operator's address is added and moved to the tried ones.
LEMMA StaticGood ==
  ASSUME NEW b \in GoodBooks, NEW a \in Address, NEW t \in Nat, NEW c \in AddStatic(b, a, t)
  PROVE  c \in GoodBooks
<1> DEFINE Moved(d) == [d EXCEPT !.new = d.new \ {a}, !.tried = d.tried \cup {a}]
<1>1. PICK d \in add(b, a, t) : c = Moved(d)
  <2>1. c \in {Moved(d) : d \in add(b, a, t)}
    BY Zenon DEF AddStatic
  <2> HIDE DEF Moved
  <2> QED BY <2>1
<1>2. d \in GoodBooks /\ a \in Known(d)
  BY AddGood
<1>3. /\ d = [info |-> d.info, new |-> d.new, tried |-> d.tried]
      /\ Known(d) \in SUBSET Address /\ d.info \in [Known(d) -> Info]
      /\ d.new \in SUBSET Address /\ d.tried \in SUBSET Address
      /\ d.new \cap d.tried = {} /\ d.new \cup d.tried = Known(d)
      /\ Cardinality(Known(d)) <= MaxAddresses
  BY <1>2, BookParts
<1>4. c = [info |-> d.info, new |-> d.new \ {a}, tried |-> d.tried \cup {a}]
  <2>1. d = [info |-> d.info, new |-> d.new, tried |-> d.tried]
    BY <1>3
  <2> QED BY <1>1, <2>1, BookFields, Zenon
<1>5. /\ (d.new \ {a}) \cap (d.tried \cup {a}) = {} /\ (d.new \ {a}) \cup (d.tried \cup {a}) = Known(d)
      /\ d.new \ {a} \in SUBSET Address /\ d.tried \cup {a} \in SUBSET Address
  BY <1>2, <1>3
<1> QED BY <1>3, <1>4, <1>5, MakeBook

\* The list that a finite set of addresses is worked off in.
LEMMA ListOf ==
  ASSUME NEW S \in SUBSET Address
  PROVE  Cardinality(S) \in Nat /\ SetToSeq(S) \in [1..Cardinality(S) -> S]
<1>1. IsFiniteSet(S)
  BY BookAssumption, FS_Subset
<1>2. Cardinality(S) \in Nat /\ ExistsBijection(1..Cardinality(S), S)
  BY <1>1, FS_CardinalityType
<1>3. \E f \in [1..Cardinality(S) -> S] : IsInjective(f)
  BY <1>2 DEF ExistsBijection, Bijection, Injection
<1> QED BY <1>2, <1>3 DEF SetToSeq

\* Addresses added one after the other leave good books.
LEMMA AddAtGood ==
  ASSUME NEW b \in GoodBooks, NEW n \in Nat, NEW q \in [1..n -> Address], NEW places, NEW t \in Nat
  PROVE  AddAt(b, q, places, t) \in SUBSET GoodBooks
<1> DEFINE A == SUBSET GoodBooks
           id == [i \in DOMAIN q |-> i]
           D == DOMAIN id
           Op(B, i) == IF i \in places THEN UNION {add(c, q[i], t) : c \in B} ELSE B
           Works(f) == f = [s \in SUBSET D |->
                              IF s = {} THEN {b} ELSE Op(f[s \ {Max(s)}], id[Max(s)])]
           g == [p \in A \X (1..n) |-> Op(p[1], p[2])]
           base == {b}
<1>1. D = 1..n /\ id \in [1..n -> 1..n]
  OBVIOUS
<1>2. base \in A
  OBVIOUS
<1>3. AddAt(b, q, places, t) = (CHOOSE f : Works(f))[D]
  BY DEF AddAt, FoldLeftDomain, FoldLeft, MapThenFoldSet
<1>4. \A B \in A, i \in 1..n : Op(B, i) \in A
  BY AddGood
<1> HIDE DEF A, D, id, Op
<1>5. g \in [A \X (1..n) -> A] /\ \A B \in A, i \in 1..n : g[<<B, i>>] = Op(B, i)
  BY <1>4
<1> HIDE DEF g, base
<1>6. PICK f : WorksOff(f, n, id, A, g, base)
  BY <1>1, <1>2, <1>5, WorkOff
<1>7. \A s \in SUBSET D : s # {} => s \ {Max(s)} \in SUBSET D /\ id[Max(s)] \in 1..n
  BY <1>1, LastPlace
<1>8. Works(f)
  <2>1. f \in [SUBSET D -> A]
        /\ f = [s \in SUBSET D |-> IF s = {} THEN base ELSE g[<<f[s \ {Max(s)}], id[Max(s)]>>]]
    BY <1>1, <1>6 DEF WorksOff
  <2>2. \A s \in SUBSET D : s # {} => g[<<f[s \ {Max(s)}], id[Max(s)]>>] = Op(f[s \ {Max(s)}], id[Max(s)])
    BY <1>5, <1>7, <2>1
  <2> QED BY <2>1, <2>2 DEF base
<1> DEFINE e == CHOOSE h : Works(h)
<1>9. Works(e)
  <2> HIDE DEF Works
  <2> QED BY <1>8
<1> HIDE DEF e
<1>10. Follows(e, n, id, A, g)
  <2>1. e[{}] \in A
    BY <1>2, <1>9 DEF base
  <2>2. ASSUME NEW s \in SUBSET D, s # {}, e[s \ {Max(s)}] \in A
        PROVE  e[s] = g[<<e[s \ {Max(s)}], id[Max(s)]>>]
    BY <1>5, <1>7, <1>9, <2>2
  <2> QED BY <1>1, <2>1, <2>2 DEF Follows
<1>11. e[1..n] \in A
  BY <1>1, <1>5, <1>10, EndsIn
<1> QED BY <1>1, <1>3, <1>11 DEF e, A

\* A set of addresses.
LEMMA AddManyGood ==
  ASSUME NEW b \in GoodBooks, NEW S \in SUBSET Address, NEW t \in Nat
  PROVE  AddMany(b, S, t) \in SUBSET GoodBooks
<1>1. Cardinality(S) \in Nat /\ SetToSeq(S) \in [1..Cardinality(S) -> Address]
  BY ListOf
<1> QED BY <1>1, AddAtGood DEF AddMany

\* The configured peers, when the node starts.
LEMMA StartGood ==
  ASSUME NEW file \in SUBSET Address, NEW t \in Nat
  PROVE  StartBooks(file, t) \in SUBSET GoodBooks
<1> DEFINE A == SUBSET GoodBooks
           n == Cardinality(DOMAIN Configured)
           q == SetToSeq(DOMAIN Configured)
           D == DOMAIN q
           base == AddMany(EmptyBook, file, t)
           Op(B, a) == UNION {AddStatic(c, a, t) : c \in B}
           Works(f) == f = [s \in SUBSET D |->
                              IF s = {} THEN base ELSE Op(f[s \ {Max(s)}], q[Max(s)])]
           g == [p \in A \X Address |-> Op(p[1], p[2])]
<1>1. n \in Nat /\ q \in [1..n -> Address] /\ D = 1..n
  BY BookAssumption, ListOf
<1>2. base \in A
  BY EmptyGood, AddManyGood
<1>3. StartBooks(file, t) = (CHOOSE f : Works(f))[D]
  BY DEF StartBooks, FoldLeft, MapThenFoldSet
<1>4. \A B \in A, a \in Address : Op(B, a) \in A
  BY StaticGood
<1> HIDE DEF A, D, n, q, Op, base
<1>5. g \in [A \X Address -> A] /\ \A B \in A, a \in Address : g[<<B, a>>] = Op(B, a)
  BY <1>4
<1> HIDE DEF g
<1>6. PICK f : WorksOff(f, n, q, A, g, base)
  BY <1>1, <1>2, <1>5, WorkOff
<1>7. \A s \in SUBSET D : s # {} => s \ {Max(s)} \in SUBSET D /\ q[Max(s)] \in Address
  BY <1>1, LastPlace
<1>8. Works(f)
  <2>1. f \in [SUBSET D -> A]
        /\ f = [s \in SUBSET D |-> IF s = {} THEN base ELSE g[<<f[s \ {Max(s)}], q[Max(s)]>>]]
    BY <1>1, <1>6 DEF WorksOff
  <2>2. \A s \in SUBSET D : s # {} => g[<<f[s \ {Max(s)}], q[Max(s)]>>] = Op(f[s \ {Max(s)}], q[Max(s)])
    BY <1>5, <1>7, <2>1
  <2> QED BY <2>1, <2>2
<1> DEFINE e == CHOOSE h : Works(h)
<1>9. Works(e)
  <2> HIDE DEF Works
  <2> QED BY <1>8
<1> HIDE DEF e
<1>10. Follows(e, n, q, A, g)
  <2>1. e[{}] \in A
    BY <1>2, <1>9
  <2>2. ASSUME NEW s \in SUBSET D, s # {}, e[s \ {Max(s)}] \in A
        PROVE  e[s] = g[<<e[s \ {Max(s)}], q[Max(s)]>>]
    BY <1>5, <1>7, <1>9, <2>2
  <2> QED BY <1>1, <2>1, <2>2 DEF Follows
<1>11. e[1..n] \in A
  BY <1>1, <1>5, <1>10, EndsIn
<1> QED BY <1>1, <1>3, <1>11 DEF e, A

\* A list with those of another appended that it lacks.
LEMMA AppendNewTyped ==
  ASSUME NEW U, NEW p \in Seq(U), NEW r \in Seq(U)
  PROVE  AppendNew(p, r) \in Seq(U)
<1> DEFINE A == Seq(U)
           n == Len(r)
           D == DOMAIN r
           Op(q, a) == IF a \in Range(q) THEN q ELSE Append(q, a)
           Works(f) == f = [s \in SUBSET D |->
                              IF s = {} THEN p ELSE Op(f[s \ {Max(s)}], r[Max(s)])]
           g == [x \in A \X U |-> Op(x[1], x[2])]
<1>1. n \in Nat /\ r \in [1..n -> U] /\ D = 1..n /\ p \in A
  BY LenProperties
<1>3. AppendNew(p, r) = (CHOOSE f : Works(f))[D]
  BY DEF AppendNew, FoldLeft, MapThenFoldSet
<1>4. \A q \in A, a \in U : Op(q, a) \in A
  OBVIOUS
<1> HIDE DEF A, D, n, Op
<1>5. g \in [A \X U -> A] /\ \A q \in A, a \in U : g[<<q, a>>] = Op(q, a)
  BY <1>4
<1> HIDE DEF g
<1>6. PICK f : WorksOff(f, n, r, A, g, p)
  BY <1>1, <1>5, WorkOff
<1>7. \A s \in SUBSET D : s # {} => s \ {Max(s)} \in SUBSET D /\ r[Max(s)] \in U
  BY <1>1, LastPlace
<1>8. Works(f)
  <2>1. f \in [SUBSET D -> A]
        /\ f = [s \in SUBSET D |-> IF s = {} THEN p ELSE g[<<f[s \ {Max(s)}], r[Max(s)]>>]]
    BY <1>1, <1>6 DEF WorksOff
  <2>2. \A s \in SUBSET D : s # {} => g[<<f[s \ {Max(s)}], r[Max(s)]>>] = Op(f[s \ {Max(s)}], r[Max(s)])
    BY <1>5, <1>7, <2>1
  <2> QED BY <2>1, <2>2
<1> DEFINE e == CHOOSE h : Works(h)
<1>9. Works(e)
  <2> HIDE DEF Works
  <2> QED BY <1>8
<1> HIDE DEF e
<1>10. Follows(e, n, r, A, g)
  <2>1. e[{}] \in A
    BY <1>1, <1>9
  <2>2. ASSUME NEW s \in SUBSET D, s # {}, e[s \ {Max(s)}] \in A
        PROVE  e[s] = g[<<e[s \ {Max(s)}], r[Max(s)]>>]
    BY <1>5, <1>7, <1>9, <2>2
  <2> QED BY <1>1, <2>1, <2>2 DEF Follows
<1>11. e[1..n] \in A
  BY <1>1, <1>5, <1>10, EndsIn
<1> QED BY <1>1, <1>3, <1>11 DEF e, A

\* Each operation on the book.
LEMMA BookStep ==
  ASSUME BookInv, BookNext(Address), UNCHANGED now
  PROVE  BookInv'
<1>1. now \in Nat /\ now' = now /\ book \in GoodBooks /\ anchors \subseteq Address /\ anchorFile \subseteq Address
  BY DEF BookInv
<1>2. /\ book = [info |-> book.info, new |-> book.new, tried |-> book.tried]
      /\ book.info \in [Known(book) -> Info]
      /\ book.new \in SUBSET Address /\ book.tried \in SUBSET Address
      /\ book.new \cap book.tried = {} /\ book.new \cup book.tried = Known(book)
  BY <1>1, BookParts
<1>3. ASSUME book' \in GoodBooks, anchors' \subseteq Address, anchorFile' \subseteq Address PROVE BookInv'
  BY <1>1, <1>3 DEF BookInv
<1>4. ASSUME NEW a \in Address, Learn(a) \/ AddAnchor(a) PROVE BookInv'
  <2>1. book' \in add(book, a, now) /\ anchors' \subseteq Address /\ anchorFile' \subseteq Address
    BY <1>1, <1>4 DEF Learn, AddAnchor
  <2> QED BY <1>1, <1>3, <2>1, AddGood
<1>5. ASSUME NEW a \in Address, AddStaticPeer(a, 10) PROVE BookInv'
  <2>1. book' \in AddStatic(book, a, now) /\ UNCHANGED <<anchors, anchorFile>>
    BY <1>5 DEF AddStaticPeer
  <2> QED BY <1>1, <1>3, <2>1, StaticGood
<1>6. ASSUME NEW S \in SUBSET Address, LearnFromSeed(S) \/ SetAnchors(S) PROVE BookInv'
  <2>1. book' \in AddMany(book, S, now) /\ anchors' \subseteq Address /\ anchorFile' \subseteq Address
    BY <1>1, <1>6 DEF LearnFromSeed, SetAnchors
  <2> QED BY <1>1, <1>3, <2>1, AddManyGood
<1>7. ASSUME NEW a \in Address, MarkGood(a) PROVE BookInv'
  <2> DEFINE i == [book.info[a] EXCEPT !.ok = @ + 1, !.attempt = now]
             N == book.new \ {a}
             T == book.tried \cup (book.new \cap {a})
  <2>1. a \in Known(book) /\ UNCHANGED <<anchors, anchorFile>>
        /\ book' = [book EXCEPT !.info[a].ok = @ + 1, !.info[a].attempt = now,
                                !.new = @ \ {a}, !.tried = @ \cup (book.new \cap {a})]
    BY <1>7 DEF MarkGood
  <2>2. book.info[a] \in Info
    BY <1>2, <2>1
  <2>3. i \in Info
    <3>1. book.info[a].ok + 1 \in Nat
      BY <2>2 DEF Info
    <3>2. \A r \in Info, k, t \in Nat : [r EXCEPT !.ok = k, !.attempt = t] \in Info
      BY DEF Info
    <3> QED BY <1>1, <2>2, <3>1, <3>2, Zenon
  <2>4. book' = [info |-> [book.info EXCEPT ![a] = i], new |-> N, tried |-> T]
    <3> DEFINE f == [book.info EXCEPT ![a] = i]
    <3>1. book \in [info : {book.info}, new : {book.new}, tried : {book.tried}]
      BY <1>2
    <3>2. book' \in [info : {f}, new : {N}, tried : {T}]
      BY <1>2, <2>1, <2>2, <3>1 DEF Info
    <3> HIDE DEF f, N, T
    <3>3. book' = [info |-> f, new |-> N, tried |-> T]
      BY <3>2
    <3> QED BY <3>3 DEF f
  <2>5. N \in SUBSET Address /\ T \in SUBSET Address /\ N \cap T = {} /\ N \cup T = Known(book)
    BY <1>2
  <2> HIDE DEF i, N, T
  <2>6. book' \in GoodBooks
    <3>1. [info |-> [book.info EXCEPT ![a] = i], new |-> N, tried |-> T] \in GoodBooks
      BY <1>1, <2>1, <2>3, <2>5, InfoGood
    <3> QED BY <2>4, <3>1, Zenon
  <2> QED BY <1>1, <1>3, <2>1, <2>6
<1>8. ASSUME NEW a \in Address, MarkFailed(a) PROVE BookInv'
  <2> DEFINE i == [book.info[a] EXCEPT !.fail = @ + 1, !.attempt = now]
  <2>1. a \in Known(book) /\ UNCHANGED <<anchors, anchorFile>>
        /\ book' = [book EXCEPT !.info[a].fail = @ + 1, !.info[a].attempt = now]
    BY <1>8 DEF MarkFailed
  <2>2. book.info[a] \in Info
    BY <1>2, <2>1
  <2>3. i \in Info
    <3>1. book.info[a].fail + 1 \in Nat
      BY <2>2 DEF Info
    <3>2. \A r \in Info, k, t \in Nat : [r EXCEPT !.fail = k, !.attempt = t] \in Info
      BY DEF Info
    <3> QED BY <1>1, <2>2, <3>1, <3>2, Zenon
  <2>4. book' = [info |-> [book.info EXCEPT ![a] = i], new |-> book.new, tried |-> book.tried]
    <3> DEFINE f == [book.info EXCEPT ![a] = i]
    <3>1. book \in [info : {book.info}, new : {book.new}, tried : {book.tried}]
      BY <1>2
    <3>2. book' \in [info : {f}, new : {book.new}, tried : {book.tried}]
      BY <1>2, <2>1, <2>2, <3>1 DEF Info
    <3> HIDE DEF f
    <3>3. book' = [info |-> f, new |-> book.new, tried |-> book.tried]
      BY <3>2
    <3> QED BY <3>3 DEF f
  <2> HIDE DEF i
  <2>6. book' \in GoodBooks
    <3>1. [info |-> [book.info EXCEPT ![a] = i], new |-> book.new, tried |-> book.tried] \in GoodBooks
      BY <1>1, <1>2, <2>1, <2>3, InfoGood
    <3> QED BY <2>4, <3>1, Zenon
  <2> QED BY <1>1, <1>3, <2>1, <2>6
<1>9. ASSUME ClearBook PROVE BookInv'
  BY <1>3, <1>9, EmptyGood DEF ClearBook
<1>10. ASSUME NEW torn \in BOOLEAN, RestartBook(torn) PROVE BookInv'
  <2>1. anchorFile' \subseteq Address /\ anchors' = anchorFile' /\ book' \in StartBooks(anchorFile', now)
    BY <1>1, <1>10 DEF RestartBook
  <2> QED BY <1>1, <1>3, <2>1, StartGood
<1> QED BY <1>4, <1>5, <1>6, <1>7, <1>8, <1>9, <1>10 DEF BookNext

\* A list cut to a length.
LEMMA TakeTyped ==
  ASSUME NEW U, NEW q \in Seq(U), NEW n \in Nat
  PROVE  Take(q, n) \in Seq(U)
<1>1. MinOf({n, Len(q)}) \in {n, Len(q)} /\ MinOf({n, Len(q)}) <= Len(q)
  BY DEF MinOf
<1>2. MinOf({n, Len(q)}) \in 0..Len(q)
  BY <1>1
<1>3. SubSeq(q, 1, MinOf({n, Len(q)})) \in Seq(U)
  <2> DEFINE m == MinOf({n, Len(q)})
  <2>1. Len(q) \in Nat /\ q \in [1..Len(q) -> U] /\ m \in 0..Len(q)
    BY <1>2, LenProperties
  <2> HIDE DEF m
  <2>2. m \in Int /\ 1 \in Int /\ \A i \in 1..m : q[i] \in U
    BY <2>1
  <2>3. SubSeq(q, 1, m) \in Seq(U)
    BY <2>2, SubSeqProperties
  <2> QED BY <2>3 DEF m
<1> QED BY <1>3 DEF Take

\* An addr message adds some of its addresses.
LEMMA GossipStep ==
  ASSUME BookInv, NEW source, GossipNext(Address, source), UNCHANGED now
  PROVE  BookInv'
<1>1. now \in Nat /\ now' = now /\ book \in GoodBooks /\ anchors \subseteq Address /\ anchorFile \subseteq Address
  BY DEF BookInv
<1>2. ASSUME NEW n \in 1..(MaxAccept + 1), NEW addrs \in [1..n -> Address], FilterAndAdd(source, addrs)
      PROVE  BookInv'
  <2> DEFINE looked == Take(addrs, MaxAccept)
  <2>1. UNCHANGED <<anchors, anchorFile>> /\ \E kept : book' \in AddAt(book, looked, kept, now)
    BY <1>2, Zenon DEF FilterAndAdd
  <2>2. n \in Nat /\ addrs \in Seq(Address)
    BY BookAssumption, SeqDef
  <2>3. looked \in Seq(Address)
    BY <2>2, TakeTyped, BookAssumption
  <2> HIDE DEF looked
  <2>4. Len(looked) \in Nat /\ looked \in [1..Len(looked) -> Address]
    BY <2>3, LenProperties
  <2>5. book' \in GoodBooks
    BY <1>1, <2>1, <2>4, AddAtGood
  <2> QED BY <1>1, <2>1, <2>5 DEF BookInv
<1>3. ASSUME UNCHANGED addrVars PROVE BookInv'
  BY <1>1, <1>3 DEF addrVars, BookInv
<1> QED BY <1>2, <1>3 DEF GossipNext

\* Whatever get_addresses answers is a configured address of the book or one
\* that is due.
LEMMA Answers ==
  ASSUME BookInv, NEW n \in Nat, NEW q \in get_addresses(n), NEW a \in Range(q)
  PROVE  a \in Known(book) /\ (a \in DOMAIN static \/ should_retry(book.info[a], now))
<1> DEFINE Due(S) == {x \in S : should_retry(book.info[x], now)}
           Fixed == DOMAIN static \cap Known(book)
           U == Fixed \cup Due(book.tried) \cup Due(book.new)
<1>1. book.new \cup book.tried = Known(book)
  BY BookParts DEF BookInv
<1>2. PICK s \in SetToSeqs(Fixed), t \in SetToSeqs(Due(book.tried)), w \in SetToSeqs(Due(book.new)) :
         q = Merged(s, t, w, n)
  <2>1. PICK s \in StaticOrders, t \in SortedBy(Due(book.tried), Rate), w \in SetToSeqs(Due(book.new)) :
           q = Merged(s, t, w, n)
    BY DEF get_addresses, SortedBy
  <2>2. StaticOrders \subseteq SetToSeqs(Fixed)
    BY DEF StaticOrders, SortedBy
  <2>3. SortedBy(Due(book.tried), Rate) \subseteq SetToSeqs(Due(book.tried))
    BY DEF SortedBy
  <2> QED BY <2>1, <2>2, <2>3
<1>3. \A S : S \subseteq Address => SetToSeqs(S) \subseteq Seq(S)
  <2>1. ASSUME NEW S \in SUBSET Address, NEW x \in SetToSeqs(S) PROVE x \in Seq(S)
    <3>1. Cardinality(S) \in Nat
      BY ListOf
    <3>2. x \in [1..Cardinality(S) -> S]
      BY DEF SetToSeqs
    <3> QED BY <3>1, <3>2, SeqDef
  <2> QED BY <2>1
<1>4. Fixed \subseteq Address /\ Due(book.tried) \subseteq Address /\ Due(book.new) \subseteq Address
  BY BookParts DEF BookInv
<1>5. s \in Seq(U) /\ t \in Seq(U) /\ w \in Seq(U)
  <2>1. s \in Seq(Fixed) /\ t \in Seq(Due(book.tried)) /\ w \in Seq(Due(book.new))
    BY <1>2, <1>3, <1>4
  <2>2. \A S, R : S \subseteq R => Seq(S) \subseteq Seq(R)
    OBVIOUS
  <2> QED BY <2>1, <2>2
<1>6. \A x \in U : x \in Known(book) /\ (x \in DOMAIN static \/ should_retry(book.info[x], now))
  BY <1>1
<1> HIDE DEF U
<1>7. Merged(s, t, w, n) \in Seq(U)
  <2>1. AppendNew(Take(s, n), Take(t, n)) \in Seq(U)
    BY <1>5, TakeTyped, AppendNewTyped
  <2>2. Take(AppendNew(Take(s, n), Take(t, n)), n) \o w \in Seq(U)
    BY <1>5, <2>1, TakeTyped, ConcatProperties
  <2> QED BY <2>2, TakeTyped DEF Merged
<1>8. a \in U
  BY <1>2, <1>7 DEF Range
<1> QED BY <1>6, <1>8

\* In every reachable state the new and the tried addresses split the book,
\* which is within its limit, and whatever number is asked for, get_addresses
\* answers with addresses of the book that the operator configured or whose
\* backoff is over: through evictions, seeds, gossip and restarts (AddrMan,
\* ConnectionManager.filter_and_add_addrs).
THEOREM BookKept == PeerSpec => []BookUsable
<1>1. now = 0 /\ AddrInit => BookInv
  <2> SUFFICES ASSUME now = 0, AddrInit PROVE BookInv
    OBVIOUS
  <2>1. book \in StartBooks({}, 0) /\ anchors = {} /\ anchorFile = {}
    BY DEF AddrInit
  <2>2. StartBooks({}, 0) \in SUBSET GoodBooks
    BY StartGood
  <2> QED BY <2>1, <2>2 DEF BookInv
<1>2. BookInv /\ [PeerNext]_<<scoreVars, now, addrVars>> => BookInv'
  <2> SUFFICES ASSUME BookInv, [PeerNext]_<<scoreVars, now, addrVars>> PROVE BookInv'
    OBVIOUS
  <2>1. CASE UNCHANGED addrVars /\ (UNCHANGED now \/ Tick)
    BY <2>1 DEF addrVars, Tick, BookInv
  <2>2. CASE BookNext(Address) /\ UNCHANGED now
    BY <2>2, BookStep
  <2>3. CASE \E source \in Address : GossipNext(Address, source) /\ UNCHANGED now
    BY <2>3, GossipStep
  <2>4. CASE UNCHANGED <<scoreVars, now, addrVars>>
    BY <2>1, <2>4
  <2>5. CASE ScoreNext(Address) /\ UNCHANGED <<addrVars, now>>
    BY <2>1, <2>5
  <2>6. CASE Tick /\ UNCHANGED <<scoreVars, addrVars>>
    BY <2>1, <2>6
  <2> QED BY <2>2, <2>3, <2>4, <2>5, <2>6 DEF PeerNext
<1>3. BookInv => BookUsable
  <2> SUFFICES ASSUME BookInv PROVE BookUsable
    OBVIOUS
  <2>1. BookConsistent
    BY BookParts DEF BookInv, BookConsistent
  <2>2. ASSUME NEW n \in 1..MaxAddresses, NEW q \in get_addresses(n), NEW a \in Range(q)
        PROVE  /\ a \in Known(book)
               /\ \/ a \in DOMAIN static \/ book.info[a].fail = 0
                  \/ now - book.info[a].attempt >= RetryBackoff[book.info[a].fail]
    <3>1. n \in Nat
      BY BookAssumption
    <3>2. a \in Known(book) /\ (a \in DOMAIN static \/ should_retry(book.info[a], now))
      BY <2>2, <3>1, Answers
    <3>3. book.info[a] \in Info
      BY <3>2, BookParts DEF BookInv
    <3>4. book.info[a].fail \in Nat
      BY <3>3 DEF Info
    <3> QED BY <3>2, <3>4 DEF should_retry
  <2>3. PickedUsable
    BY <2>2 DEF PickedUsable
  <2> QED BY <2>1, <2>3 DEF BookUsable
<1> QED BY <1>1, <1>2, <1>3, PTL DEF PeerSpec

-----------------------------------------------------------------------------
(* Connections                                                             *)

Class == {"anchor", "block-relay-only", "full-relay"}

ConnRec == [addr : Address \cup {None}, dir : {"in", "out", "feeler", None},
            stage : {"free", "evicting", "shaking", "dialling", "live", "closing"},
            by : {"remote", "loop", "rpc", None}, victim : Conn \cup {None},
            shared : BOOLEAN]

ConnTyped ==
    /\ conn \in [Conn -> ConnRec]
    /\ peers \in [Address -> Conn \cup {None}]
    /\ inbound_peers \in [Address -> Conn \cup {None}]
    /\ outbound_peers \in [Address -> Conn \cup {None}]
    /\ klass \in [Address -> Class \cup {None}]
    /\ pending \in [Address -> Class \cup {None}]
    /\ maint \in [plan : Seq(Class), groups : [Group -> Nat], busy : BOOLEAN]
    /\ running \in BOOLEAN

\* The stages a connection goes through, and what is known of it in each.
Stages ==
    \A c \in Conn :
        /\ conn[c].stage # "free" => conn[c].addr \in Address
        /\ conn[c].stage \in {"evicting", "shaking"} =>
              conn[c].dir = "in" /\ conn[c].by = "remote"
        /\ conn[c].stage = "dialling" => conn[c].dir \in {"out", "feeler"}

\* A connection that was registered and whose socket is still open.
Held(c) == conn[c].stage \in {"live", "closing"}

\* An entry of a table names a connection of that address that is held.
EntriesHeld ==
    \A a \in Address : \A c \in {peers[a], inbound_peers[a], outbound_peers[a]} :
        c # None => Held(c) /\ conn[c].addr = a

\* Two held connections of one address know of it.
SharersMarked ==
    \A c, d \in Conn : Held(c) /\ Held(d) /\ c # d /\ conn[c].addr = conn[d].addr
                      => conn[c].shared

\* The tables are filled one entry at a time.
TablesFinite ==
    IsFiniteSet(Registered(inbound_peers)) /\ IsFiniteSet(Registered(outbound_peers))

TablesInv == ConnTyped /\ Stages /\ EntriesHeld /\ SharersMarked /\ TablesFinite
             /\ TablesAgree /\ LostOnlyByClash

\* A free Peer object and what a connection starts as have the types.
LEMMA FreeTyped ==
  /\ Free \in ConnRec /\ Free.stage = "free"
  /\ \A a \in Address : Shaking(a) \in ConnRec /\ Shaking(a).stage = "shaking"
        /\ Shaking(a).dir = "in" /\ Shaking(a).by = "remote" /\ Shaking(a).addr = a
BY DEF Free, Shaking, ConnRec

\* The Peer object NewPeer names is a free one.
LEMMA NewPeerFree ==
  ASSUME NEW c \in NewPeer
  PROVE  c \in Conn /\ conn[c].stage = "free"
<1>1. InStage("free") # {} /\ c = CHOOSE x \in InStage("free") : TRUE
  BY DEF NewPeer
<1>2. c \in InStage("free")
  BY <1>1
<1> QED BY <1>2 DEF InStage

\* While the tables stay, connections that are not held may become anything
\* that is not held, and live ones may begin to close.
QuietMove(c) ==
    \/ conn'[c] = conn[c]
    \/ /\ ~Held(c)
       /\ conn'[c] \in ConnRec
       /\ conn'[c].stage \notin {"live", "closing"}
       /\ conn'[c].stage # "free" => conn'[c].addr \in Address
       /\ conn'[c].stage \in {"evicting", "shaking"} =>
             conn'[c].dir = "in" /\ conn'[c].by = "remote"
       /\ conn'[c].stage = "dialling" => conn'[c].dir \in {"out", "feeler"}
    \/ Live(c) /\ conn'[c] = Closing(c)

\* Closing changes the stage and nothing else.
LEMMA ClosingFields ==
  ASSUME ConnTyped, NEW c \in Conn
  PROVE  /\ Closing(c) \in ConnRec /\ Closing(c).stage = "closing"
         /\ Closing(c).addr = conn[c].addr /\ Closing(c).by = conn[c].by
         /\ Closing(c).dir = conn[c].dir /\ Closing(c).shared = conn[c].shared
<1>1. conn[c] \in ConnRec
  BY DEF ConnTyped
<1> QED BY <1>1 DEF Closing, ConnRec

\* What a quiet move leaves of a connection.
LEMMA QuietFields ==
  ASSUME ConnTyped, Stages, NEW c \in Conn, QuietMove(c)
  PROVE  /\ conn'[c] \in ConnRec
         /\ Held(c)' <=> Held(c)
         /\ Held(c) => conn'[c].addr = conn[c].addr /\ conn'[c].by = conn[c].by
                       /\ conn'[c].shared = conn[c].shared
         /\ Live(c)' => Live(c)
         /\ conn'[c].stage # "free" => conn'[c].addr \in Address
         /\ conn'[c].stage \in {"evicting", "shaking"} =>
               conn'[c].dir = "in" /\ conn'[c].by = "remote"
         /\ conn'[c].stage = "dialling" => conn'[c].dir \in {"out", "feeler"}
<1>1. conn[c] \in ConnRec
  BY DEF ConnTyped
<1>2. CASE conn'[c] = conn[c]
  BY <1>1, <1>2 DEF Held, Live, Stages
<1>3. CASE ~Held(c) /\ conn'[c] \in ConnRec /\ conn'[c].stage \notin {"live", "closing"}
           /\ (conn'[c].stage # "free" => conn'[c].addr \in Address)
           /\ (conn'[c].stage \in {"evicting", "shaking"} =>
                  conn'[c].dir = "in" /\ conn'[c].by = "remote")
           /\ (conn'[c].stage = "dialling" => conn'[c].dir \in {"out", "feeler"})
  BY <1>3 DEF Held, Live
<1>4. CASE Live(c) /\ conn'[c] = Closing(c)
  BY <1>4, ClosingFields DEF Held, Live, Stages
<1> QED BY <1>2, <1>3, <1>4 DEF QuietMove

\* A step in which the tables stay and every connection moves quietly.
Quiet ==
    /\ UNCHANGED tables
    /\ conn' = [c \in Conn |-> conn'[c]] /\ \A c \in Conn : QuietMove(c)
    /\ pending' \in [Address -> Class \cup {None}]
    /\ maint' \in [plan : Seq(Class), groups : [Group -> Nat], busy : BOOLEAN]
    /\ running' \in BOOLEAN

\* Quiet steps keep the tables right.
LEMMA QuietTables ==
  ASSUME TablesInv, Quiet
  PROVE  TablesInv'
<1> USE DEF Quiet
<1>1. \A c \in Conn :
         /\ conn'[c] \in ConnRec
         /\ Held(c)' <=> Held(c)
         /\ Held(c) => conn'[c].addr = conn[c].addr /\ conn'[c].by = conn[c].by
                       /\ conn'[c].shared = conn[c].shared
         /\ Live(c)' => Live(c)
         /\ conn'[c].stage # "free" => conn'[c].addr \in Address
         /\ conn'[c].stage \in {"evicting", "shaking"} =>
               conn'[c].dir = "in" /\ conn'[c].by = "remote"
         /\ conn'[c].stage = "dialling" => conn'[c].dir \in {"out", "feeler"}
  BY QuietFields DEF TablesInv
<1>2. ConnTyped'
  <2>1. conn' \in [Conn -> ConnRec]
    BY <1>1
  <2> QED BY <2>1 DEF TablesInv, ConnTyped, tables
<1>3. Stages'
  BY <1>1 DEF Stages
<1>4. EntriesHeld'
  <2>1. \A a \in Address : {peers[a], inbound_peers[a], outbound_peers[a]} \subseteq Conn \cup {None}
    BY DEF TablesInv, ConnTyped
  <2>2. ASSUME NEW a \in Address, NEW c \in {peers[a], inbound_peers[a], outbound_peers[a]},
               c # None
        PROVE  Held(c)' /\ conn'[c].addr = a
    BY <2>1, <2>2, <1>1 DEF TablesInv, EntriesHeld
  <2> QED BY <2>2 DEF EntriesHeld, tables
<1>5. SharersMarked'
  BY <1>1 DEF TablesInv, SharersMarked
<1>6. TablesAgree'
  BY DEF TablesInv, TablesAgree, tables
<1>7. LostOnlyByClash'
  <2>1. ASSUME NEW c \in Conn, Live(c)', ~conn'[c].shared PROVE peers'[conn'[c].addr] = c
    <3>1. Live(c) /\ conn'[c].addr = conn[c].addr /\ ~conn[c].shared
      BY <1>1, <2>1 DEF Held, Live
    <3> QED BY <3>1 DEF TablesInv, LostOnlyByClash, tables
  <2> QED BY <2>1 DEF LostOnlyByClash
<1>8. TablesFinite'
  BY DEF TablesInv, TablesFinite, Registered, tables
<1> QED BY <1>2, <1>3, <1>4, <1>5, <1>6, <1>7, <1>8 DEF TablesInv

\* One connection that is not held becomes r.
LEMMA OneMoves ==
  ASSUME TablesInv, UNCHANGED tables, NEW c \in Conn, ~Held(c), NEW r \in ConnRec,
         conn' = [conn EXCEPT ![c] = r],
         r.stage \notin {"live", "closing"},
         r.stage # "free" => r.addr \in Address,
         r.stage \in {"evicting", "shaking"} => r.dir = "in" /\ r.by = "remote",
         r.stage = "dialling" => r.dir \in {"out", "feeler"},
         pending' \in [Address -> Class \cup {None}],
         maint' \in [plan : Seq(Class), groups : [Group -> Nat], busy : BOOLEAN],
         running' \in BOOLEAN
  PROVE  Quiet
<1>1. conn \in [Conn -> ConnRec]
  BY DEF TablesInv, ConnTyped
<1>2. conn' = [d \in Conn |-> conn'[d]] /\ conn'[c] = r
      /\ \A d \in Conn : d # c => conn'[d] = conn[d]
  BY <1>1
<1> QED BY <1>2 DEF Quiet, QuietMove

\* A live connection begins to close.
LEMMA OneCloses ==
  ASSUME TablesInv, UNCHANGED <<tables, pending, maint, running>>,
         NEW c \in Conn, Live(c), conn' = [conn EXCEPT ![c] = Closing(c)]
  PROVE  Quiet
<1>1. conn \in [Conn -> ConnRec]
  BY DEF TablesInv, ConnTyped
<1>2. conn' = [d \in Conn |-> conn'[d]] /\ conn'[c] = Closing(c)
      /\ \A d \in Conn : d # c => conn'[d] = conn[d]
  BY <1>1
<1> QED BY <1>2 DEF Quiet, QuietMove, TablesInv, ConnTyped

\* accept_connection and the handshakes that fail.
LEMMA AcceptQuiet ==
  ASSUME TablesInv, NEW c \in Conn
  PROVE  /\ \A a \in Address : AcceptConnection(c, a) => Quiet
         /\ EvictionDone(c) => Quiet
         /\ HandshakeFails(c) => Quiet
         /\ FeelerDone(c) => Quiet
<1>1. ConnTyped /\ Stages /\ maint \in [plan : Seq(Class), groups : [Group -> Nat], busy : BOOLEAN]
      /\ running \in BOOLEAN /\ pending \in [Address -> Class \cup {None}]
  BY DEF TablesInv, ConnTyped
<1>2. ASSUME NEW a \in Address, AcceptConnection(c, a) PROVE Quiet
  <2>1. ~Held(c) /\ conn' = [conn EXCEPT ![c] = Shaking(a)]
        /\ UNCHANGED <<tables, pending, maint, running>>
    BY <1>2 DEF AcceptConnection, InStage, Held
  <2> QED BY <2>1, <1>1, FreeTyped, OneMoves
<1>3. ASSUME EvictionDone(c) PROVE Quiet
  <2>1. ~Held(c) /\ conn[c].addr \in Address
        /\ UNCHANGED <<tables, pending, maint, running>>
    BY <1>3, <1>1 DEF EvictionDone, InStage, Held, Stages
  <2>2. \/ conn' = [conn EXCEPT ![c] = Shaking(conn[c].addr)]
        \/ conn' = [conn EXCEPT ![c] = Free]
    BY <1>3 DEF EvictionDone
  <2>3. CASE conn' = [conn EXCEPT ![c] = Shaking(conn[c].addr)]
    BY <2>1, <2>3, <1>1, FreeTyped, OneMoves
  <2>4. CASE conn' = [conn EXCEPT ![c] = Free]
    BY <2>1, <2>4, <1>1, FreeTyped, OneMoves
  <2> QED BY <2>2, <2>3, <2>4
<1>4. LoopFree(c) \in [plan : Seq(Class), groups : [Group -> Nat], busy : BOOLEAN]
  BY <1>1 DEF LoopFree
<1>5. ASSUME HandshakeFails(c) PROVE Quiet
  <2>1. ~Held(c) /\ conn' = [conn EXCEPT ![c] = Free] /\ UNCHANGED <<tables, running>>
        /\ maint' = LoopFree(c)
    BY <1>5 DEF HandshakeFails, InStage, Held
  <2>2. pending' \in [Address -> Class \cup {None}]
    BY <1>1, <1>5 DEF HandshakeFails
  <2> QED BY <2>1, <2>2, <1>1, <1>4, FreeTyped, OneMoves
<1>6. ASSUME FeelerDone(c) PROVE Quiet
  <2>1. ~Held(c) /\ conn' = [conn EXCEPT ![c] = Free] /\ UNCHANGED <<tables, pending, running>>
        /\ maint' = LoopFree(c)
    BY <1>6 DEF FeelerDone, InStage, Held
  <2> QED BY <2>1, <1>1, <1>4, FreeTyped, OneMoves
<1> QED BY <1>2, <1>3, <1>5, <1>6

\* accept_connection at the limit: the victim and the newcomer both move, and
\* they are not the same connection.
LEMMA EvictQuiet ==
  ASSUME TablesInv, NEW c \in Conn, NEW a \in Address, EvictForInbound(c, a)
  PROVE  Quiet
<1>1. ~Held(c) /\ UNCHANGED <<tables, pending, maint, running>>
  BY DEF EvictForInbound, InStage, Held
<1>2. PICK b \in Worst :
        LET v == inbound_peers[b]
            mine == Live(v)
        IN  conn' = [conn EXCEPT ![v] = IF mine THEN Closing(v) ELSE @,
                ![c] = [addr |-> a, dir |-> "in", stage |-> "evicting", by |-> "remote",
                        victim |-> IF mine THEN v ELSE None, shared |-> FALSE]]
  BY DEF EvictForInbound
<1> DEFINE v == inbound_peers[b]
           r == [addr |-> a, dir |-> "in", stage |-> "evicting", by |-> "remote",
                 victim |-> IF Live(v) THEN v ELSE None, shared |-> FALSE]
<1>3. b \in Address /\ v \in Conn /\ Held(v)
  <2>1. b \in Registered(inbound_peers)
    BY DEF Worst
  <2> QED BY <2>1 DEF Registered, TablesInv, ConnTyped, EntriesHeld
<1>4. conn \in [Conn -> ConnRec]
  BY DEF TablesInv, ConnTyped
<1>5. r \in ConnRec /\ r.addr = a /\ r.stage = "evicting" /\ r.dir = "in" /\ r.by = "remote"
  BY <1>3 DEF ConnRec
<1>6. conn' = [conn EXCEPT ![v] = IF Live(v) THEN Closing(v) ELSE conn[v], ![c] = r]
  BY <1>2
<1> HIDE DEF v, r
<1>7. conn' = [d \in Conn |-> conn'[d]] /\ conn'[c] = r
      /\ (v # c => conn'[v] = IF Live(v) THEN Closing(v) ELSE conn[v])
      /\ \A d \in Conn : d # c /\ d # v => conn'[d] = conn[d]
  BY <1>3, <1>4, <1>6
<1>8. \A d \in Conn : QuietMove(d)
  BY <1>1, <1>3, <1>5, <1>7 DEF QuietMove
<1> QED BY <1>1, <1>7, <1>8 DEF Quiet, TablesInv, ConnTyped

\* A loop that is between rounds.
LEMMA IdleTyped ==
  /\ Idle \in [plan : Seq(Class), groups : [Group -> Nat], busy : BOOLEAN]
  /\ Idle.plan = <<>>
BY DEF Idle

\* A round has a class for every free outbound slot.
LEMMA ClassesTyped ==
  ASSUME TablesInv, Size(outbound_peers) < MaxOutbound
  PROVE  /\ DesiredClasses \in Seq(Class)
         /\ Len(DesiredClasses) = MaxOutbound - Size(outbound_peers)
         /\ Size(outbound_peers) \in Nat
<1>1. Size(outbound_peers) \in Nat
  BY FS_CardinalityType DEF TablesInv, TablesFinite, Size
<1> DEFINE free == MaxOutbound - Size(outbound_peers)
<1>2. free \in Nat
  BY <1>1, ConnAssumption
<1>3. \E f \in [1..free -> Class] : DesiredClasses = f
  BY DEF DesiredClasses, Class
<1> HIDE DEF free
<1>4. PICK f \in [1..free -> Class] : DesiredClasses = f
  BY <1>3
<1>5. f \in Seq(Class) /\ Len(f) = free
  BY <1>2
<1> QED BY <1>1, <1>4, <1>5 DEF free

\* The counts of a round are numbers.
LEMMA GroupsTyped ==
  ASSUME TablesInv
  PROVE  [g \in Group |-> OfGroup(outbound_peers, g)] \in [Group -> Nat]
<1>1. ASSUME NEW g \in Group PROVE OfGroup(outbound_peers, g) \in Nat
  <2> DEFINE S == {b \in Registered(outbound_peers) : GroupOf[b] = g}
  <2>1. IsFiniteSet(S)
    BY FS_Subset DEF TablesInv, TablesFinite
  <2> QED BY <2>1, FS_CardinalityType DEF OfGroup
<1> QED BY <1>1

\* The maintenance loop, dials, feelers and the RPC connect.
LEMMA DialQuiet ==
  ASSUME TablesInv, NEW c \in Conn, NEW a \in Address
  PROVE  /\ DialNext(c, a) => Quiet
         /\ RpcConnect(c, a) => Quiet
         /\ RunFeeler(c, a) => Quiet
<1>1. maint \in [plan : Seq(Class), groups : [Group -> Nat], busy : BOOLEAN]
      /\ running \in BOOLEAN /\ pending \in [Address -> Class \cup {None}]
  BY DEF TablesInv, ConnTyped
<1>2. [maint EXCEPT !.busy = TRUE] \in [plan : Seq(Class), groups : [Group -> Nat], busy : BOOLEAN]
  BY <1>1
<1>3. ASSUME NEW class \in Class, NEW by \in {"loop", "rpc"}, Dial(c, a, class, by),
             maint' \in [plan : Seq(Class), groups : [Group -> Nat], busy : BOOLEAN]
      PROVE  Quiet
  <2> DEFINE r == [addr |-> a, dir |-> "out", stage |-> "dialling",
                   by |-> by, victim |-> None, shared |-> FALSE]
  <2>1. r \in ConnRec /\ r.stage = "dialling" /\ r.addr = a /\ r.dir = "out"
    BY DEF ConnRec
  <2>2. ~Held(c) /\ conn' = [conn EXCEPT ![c] = r] /\ UNCHANGED <<tables, running>>
    BY <1>3 DEF Dial, InStage, Held
  <2>3. pending' \in [Address -> Class \cup {None}]
    BY <1>1, <1>3 DEF Dial
  <2> HIDE DEF r
  <2> QED BY <2>1, <2>2, <2>3, <1>1, <1>3, OneMoves
<1>4. ASSUME DialNext(c, a) PROVE Quiet
  <2>1. Head(maint.plan) \in Class
    BY <1>1, <1>4 DEF DialNext
  <2>2. Dial(c, a, Head(maint.plan), "loop") /\ maint' = [maint EXCEPT !.busy = TRUE]
    BY <1>4 DEF DialNext
  <2> QED BY <2>1, <2>2, <1>2, <1>3
<1>5. ASSUME RpcConnect(c, a) PROVE Quiet
  BY <1>5, <1>1, <1>3 DEF RpcConnect, Class
<1>6. ASSUME RunFeeler(c, a) PROVE Quiet
  <2> DEFINE r == [addr |-> a, dir |-> "feeler", stage |-> "dialling",
                   by |-> "loop", victim |-> None, shared |-> FALSE]
  <2>1. r \in ConnRec /\ r.stage = "dialling" /\ r.addr = a /\ r.dir = "feeler"
    BY DEF ConnRec
  <2>2. ~Held(c) /\ conn' = [conn EXCEPT ![c] = r] /\ UNCHANGED <<tables, pending, running>>
        /\ maint' = [maint EXCEPT !.busy = TRUE]
    BY <1>6 DEF RunFeeler, InStage, Held
  <2> HIDE DEF r
  <2> QED BY <2>1, <2>2, <1>1, <1>2, OneMoves
<1> QED BY <1>4, <1>5, <1>6

\* Rounds begin, slots are skipped, peers begin to close, and the node stops.
LEMMA LoopQuiet ==
  ASSUME TablesInv
  PROVE  /\ Maintain => Quiet
         /\ SlotSkipped => Quiet
         /\ \A a \in Address : RotateOutbound(a) \/ EvictBadOutbound(a) => Quiet
         /\ \A c \in Conn : PeerEnds(c) => Quiet
         /\ Stop => Quiet
<1>1. maint \in [plan : Seq(Class), groups : [Group -> Nat], busy : BOOLEAN]
      /\ running \in BOOLEAN /\ pending \in [Address -> Class \cup {None}]
      /\ conn \in [Conn -> ConnRec]
  BY DEF TablesInv, ConnTyped
<1>2. ASSUME UNCHANGED <<conn, tables, pending, running>>,
             maint' \in [plan : Seq(Class), groups : [Group -> Nat], busy : BOOLEAN]
      PROVE  Quiet
  BY <1>1, <1>2 DEF Quiet, QuietMove
<1>3. ASSUME Maintain PROVE Quiet
  <2>1. maint' = [plan |-> DesiredClasses, busy |-> FALSE,
                  groups |-> [g \in Group |-> OfGroup(outbound_peers, g)]]
        /\ UNCHANGED <<conn, tables, pending, running>> /\ Size(outbound_peers) < MaxOutbound
    BY <1>3 DEF Maintain
  <2>2. DesiredClasses \in Seq(Class)
    BY <2>1, ClassesTyped
  <2> QED BY <2>1, <2>2, <1>2, GroupsTyped
<1>4. ASSUME SlotSkipped PROVE Quiet
  <2>1. UNCHANGED <<conn, tables, pending, running>>
        /\ maint' = IF Len(maint.plan) <= 1 THEN Idle ELSE [maint EXCEPT !.plan = Tail(@)]
    BY <1>4 DEF SlotSkipped
  <2>2. maint' \in [plan : Seq(Class), groups : [Group -> Nat], busy : BOOLEAN]
    <3>1. CASE Len(maint.plan) <= 1
      BY <3>1, <2>1, IdleTyped
    <3>2. CASE ~(Len(maint.plan) <= 1)
      <4>1. maint.plan # <<>> /\ maint.plan \in Seq(Class)
        BY <3>2, <1>1
      <4>2. Tail(maint.plan) \in Seq(Class)
        BY <4>1
      <4> QED BY <4>2, <3>2, <2>1, <1>1
    <3> QED BY <3>1, <3>2
  <2> QED BY <2>1, <2>2, <1>2
<1>5. ASSUME NEW a \in Address, RotateOutbound(a) \/ EvictBadOutbound(a) PROVE Quiet
  <2>1. a \in Registered(outbound_peers) /\ CloseOutbound(a)
    BY <1>5 DEF RotateOutbound, EvictBadOutbound
  <2>2. outbound_peers[a] \in Conn
    BY <2>1 DEF Registered, TablesInv, ConnTyped
  <2> QED BY <2>1, <2>2, OneCloses DEF CloseOutbound
<1>6. ASSUME NEW c \in Conn, PeerEnds(c) PROVE Quiet
  BY <1>6, OneCloses DEF PeerEnds
<1>7. ASSUME Stop PROVE Quiet
  <2>1. /\ running' = FALSE /\ maint' = Idle /\ UNCHANGED <<tables, pending>>
        /\ conn' = [c \in Conn |->
             IF conn[c].stage = "dialling" /\ conn[c].by = "loop" THEN Free
             ELSE IF Live(c) /\ peers[conn[c].addr] = c THEN Closing(c) ELSE conn[c]]
    BY <1>7 DEF Stop
  <2>2. ASSUME NEW c \in Conn PROVE QuietMove(c)
    <3>1. CASE conn[c].stage = "dialling" /\ conn[c].by = "loop"
      <4>1. conn'[c] = Free
        BY <2>1, <3>1
      <4> QED BY <4>1, <3>1, FreeTyped DEF QuietMove, Held
    <3>2. CASE ~(conn[c].stage = "dialling" /\ conn[c].by = "loop")
      <4>1. conn'[c] = IF Live(c) /\ peers[conn[c].addr] = c THEN Closing(c) ELSE conn[c]
        BY <2>1, <3>2
      <4> QED BY <4>1 DEF QuietMove
    <3> QED BY <3>1, <3>2
  <2>3. conn' = [c \in Conn |-> conn'[c]]
    BY <2>1
  <2> QED BY <2>1, <2>2, <2>3, <1>1, IdleTyped DEF Quiet
<1> QED BY <1>3, <1>4, <1>5, <1>6, <1>7

\* Adding one entry to a table, or clearing one, leaves it finite.
LEMMA RegisteredMoves ==
  ASSUME NEW t \in [Address -> Conn \cup {None}], NEW a \in Address, NEW x,
         IsFiniteSet(Registered(t))
  PROVE  /\ Registered([t EXCEPT ![a] = x]) \subseteq Registered(t) \cup {a}
         /\ Registered([t EXCEPT ![a] = None]) = Registered(t) \ {a}
         /\ IsFiniteSet(Registered([t EXCEPT ![a] = x]))
<1>1. Registered([t EXCEPT ![a] = x]) \subseteq Registered(t) \cup {a}
  BY DEF Registered
<1>2. Registered([t EXCEPT ![a] = None]) = Registered(t) \ {a}
  BY DEF Registered
<1>3. IsFiniteSet(Registered(t) \cup {a})
  BY FS_AddElement
<1> QED BY <1>1, <1>2, <1>3, FS_Subset

\* What add_peer makes of the connections: c is live, and everyone held at its
\* address is marked, c too when there was one.
LEMMA AddedConns ==
  ASSUME ConnTyped, NEW c \in Conn, NEW a \in Address, add_peer(c, a)
  PROVE  /\ conn' \in [Conn -> ConnRec]
         /\ conn'[c].stage = "live" /\ conn'[c].addr = conn[c].addr
         /\ conn'[c].dir = conn[c].dir /\ conn'[c].by = conn[c].by
         /\ \A d \in Conn : d # c /\ Held(d) /\ conn[d].addr = a => conn'[c].shared
         /\ \A d \in Conn : d # c =>
              /\ conn'[d].stage = conn[d].stage /\ conn'[d].addr = conn[d].addr
              /\ conn'[d].dir = conn[d].dir /\ conn'[d].by = conn[d].by
              /\ Held(d) /\ conn[d].addr = a => conn'[d].shared
              /\ ~(Held(d) /\ conn[d].addr = a) => conn'[d] = conn[d]
<1> DEFINE sharers == {d \in InStage("live") \cup InStage("closing") : conn[d].addr = a}
<1>1. conn' = [d \in Conn |->
         IF d = c THEN [conn[c] EXCEPT !.stage = "live", !.shared = sharers # {}]
         ELSE IF d \in sharers THEN [conn[d] EXCEPT !.shared = TRUE] ELSE conn[d]]
  BY DEF add_peer
<1>2. \A d \in Conn : d \in sharers <=> Held(d) /\ conn[d].addr = a
  BY DEF InStage, Held
<1>3. \A d \in Conn : conn[d] \in ConnRec
  BY DEF ConnTyped
<1> HIDE DEF sharers
<1>4. conn'[c] = [conn[c] EXCEPT !.stage = "live", !.shared = sharers # {}]
  BY <1>1
<1>5. conn'[c] \in ConnRec /\ conn'[c].stage = "live" /\ conn'[c].addr = conn[c].addr
      /\ conn'[c].dir = conn[c].dir /\ conn'[c].by = conn[c].by
      /\ (sharers # {} => conn'[c].shared)
  BY <1>3, <1>4 DEF ConnRec
<1>6. ASSUME NEW d \in Conn, d # c
      PROVE  /\ conn'[d] \in ConnRec
             /\ conn'[d].stage = conn[d].stage /\ conn'[d].addr = conn[d].addr
             /\ conn'[d].dir = conn[d].dir /\ conn'[d].by = conn[d].by
             /\ d \in sharers => conn'[d].shared
             /\ d \notin sharers => conn'[d] = conn[d]
  <2>1. conn'[d] = IF d \in sharers THEN [conn[d] EXCEPT !.shared = TRUE] ELSE conn[d]
    BY <1>1, <1>6
  <2> QED BY <2>1, <1>3 DEF ConnRec
<1>7. conn' \in [Conn -> ConnRec]
  BY <1>1, <1>5, <1>6
<1> QED BY <1>2, <1>5, <1>6, <1>7

\* The loop's slot is filled.
LEMMA FilledTyped ==
  ASSUME ConnTyped, NEW c \in Conn, conn[c].addr \in Address,
         conn[c].by = "loop" => maint.plan # <<>>
  PROVE  SlotFilled(c) \in [plan : Seq(Class), groups : [Group -> Nat], busy : BOOLEAN]
<1>1. maint \in [plan : Seq(Class), groups : [Group -> Nat], busy : BOOLEAN]
  BY DEF ConnTyped
<1>2. CASE conn[c].by # "loop"
  BY <1>1, <1>2 DEF SlotFilled
<1>3. CASE conn[c].by = "loop"
  <2>1. Tail(maint.plan) \in Seq(Class)
    BY <1>1, <1>3
  <2>2. GroupOf[conn[c].addr] \in Group
    BY DEF Group
  <2>3. [maint.groups EXCEPT ![GroupOf[conn[c].addr]] = @ + 1] \in [Group -> Nat]
    BY <2>2, <1>1
  <2> QED BY <2>1, <2>3, <1>3 DEF SlotFilled
<1> QED BY <1>2, <1>3

\* A handshake succeeds and the peer is entered, over whoever had the entry.
LEMMA DoneTables ==
  ASSUME TablesInv, NEW c \in Conn, HandshakeDone(c),
         conn[c].by = "loop" => maint.plan # <<>>
  PROVE  TablesInv'
<1> DEFINE a == conn[c].addr
<1>1. ConnTyped /\ Stages /\ EntriesHeld /\ SharersMarked /\ TablesFinite /\ TablesAgree
      /\ LostOnlyByClash
  BY DEF TablesInv
<1>2. conn[c].stage \in {"shaking", "dialling"} /\ conn[c].dir # "feeler" /\ add_peer(c, a)
      /\ maint' = SlotFilled(c) /\ UNCHANGED running
  BY DEF HandshakeDone, InStage
<1>3. a \in Address /\ ~Held(c) /\ conn[c].dir \in {"in", "out"}
  BY <1>1, <1>2 DEF Stages, Held
<1>4. c # None
  BY ConnAssumption
<1> HIDE DEF a
<1>5. /\ conn' \in [Conn -> ConnRec]
      /\ conn'[c].stage = "live" /\ conn'[c].addr = a
      /\ \A d \in Conn : d # c /\ Held(d) /\ conn[d].addr = a => conn'[c].shared
      /\ \A d \in Conn : d # c =>
           /\ conn'[d].stage = conn[d].stage /\ conn'[d].addr = conn[d].addr
           /\ conn'[d].dir = conn[d].dir /\ conn'[d].by = conn[d].by
           /\ Held(d) /\ conn[d].addr = a => conn'[d].shared
           /\ ~(Held(d) /\ conn[d].addr = a) => conn'[d] = conn[d]
  BY <1>1, <1>2, <1>3, AddedConns DEF a
<1>6. peers' = [peers EXCEPT ![a] = c]
  BY <1>2 DEF add_peer
<1>7. \/ /\ outbound_peers' = [outbound_peers EXCEPT ![a] = c]
         /\ klass' = [klass EXCEPT ![a] = IF pending[a] # None THEN pending[a] ELSE "full-relay"]
         /\ pending' = [pending EXCEPT ![a] = None]
         /\ UNCHANGED inbound_peers
      \/ /\ inbound_peers' = [inbound_peers EXCEPT ![a] = c]
         /\ UNCHANGED <<outbound_peers, klass, pending>>
  BY <1>2 DEF add_peer
<1>8. ConnTyped'
  <2>1. maint' \in [plan : Seq(Class), groups : [Group -> Nat], busy : BOOLEAN]
    BY <1>1, <1>2, <1>3, FilledTyped DEF a
  <2>2. klass' \in [Address -> Class \cup {None}] /\ pending' \in [Address -> Class \cup {None}]
    BY <1>1, <1>3, <1>7 DEF ConnTyped, Class
  <2>3. peers' \in [Address -> Conn \cup {None}]
        /\ inbound_peers' \in [Address -> Conn \cup {None}]
        /\ outbound_peers' \in [Address -> Conn \cup {None}]
    BY <1>1, <1>3, <1>6, <1>7 DEF ConnTyped
  <2> QED BY <2>1, <2>2, <2>3, <1>1, <1>2, <1>5 DEF ConnTyped
<1>9. Stages'
  BY <1>1, <1>3, <1>5 DEF Stages
<1>10. \A d \in Conn : Held(d) => Held(d)' /\ conn'[d].addr = conn[d].addr
  BY <1>3, <1>5 DEF Held
<1>11. EntriesHeld'
  <2>1. ASSUME NEW b \in Address,
               NEW d \in {peers'[b], inbound_peers'[b], outbound_peers'[b]}, d # None
        PROVE  Held(d)' /\ conn'[d].addr = b
    <3>1. (d = c /\ b = a) \/ d \in {peers[b], inbound_peers[b], outbound_peers[b]}
      BY <2>1, <1>1, <1>3, <1>6, <1>7 DEF ConnTyped
    <3>2. CASE d = c /\ b = a
      BY <3>2, <1>5 DEF Held
    <3>3. CASE d \in {peers[b], inbound_peers[b], outbound_peers[b]}
      <4>1. d \in Conn
        BY <3>3, <2>1, <1>1 DEF ConnTyped
      <4>2. Held(d) /\ conn[d].addr = b
        BY <3>3, <2>1, <1>1 DEF EntriesHeld
      <4> QED BY <4>1, <4>2, <1>10
    <3> QED BY <3>1, <3>2, <3>3
  <2> QED BY <2>1 DEF EntriesHeld
<1>12. SharersMarked'
  <2>1. ASSUME NEW d \in Conn, NEW e \in Conn, Held(d)', Held(e)', d # e,
               conn'[d].addr = conn'[e].addr
        PROVE  conn'[d].shared
    <3>1. CASE d = c
      BY <3>1, <2>1, <1>5 DEF Held
    <3>2. CASE e = c
      BY <3>2, <2>1, <1>5 DEF Held
    <3>3. CASE d # c /\ e # c
      <4>1. Held(d) /\ Held(e) /\ conn[d].addr = conn[e].addr
        BY <3>3, <2>1, <1>5 DEF Held
      <4>2. conn[d].shared
        BY <4>1, <2>1, <1>1 DEF SharersMarked
      <4> QED BY <4>1, <4>2, <3>3, <1>5
    <3> QED BY <3>1, <3>2, <3>3
  <2> QED BY <2>1 DEF SharersMarked
<1>13. TablesFinite'
  <2>1. IsFiniteSet(Registered([outbound_peers EXCEPT ![a] = c]))
        /\ IsFiniteSet(Registered([inbound_peers EXCEPT ![a] = c]))
    BY <1>1, <1>3, RegisteredMoves DEF TablesFinite, ConnTyped
  <2>2. CASE outbound_peers' = [outbound_peers EXCEPT ![a] = c] /\ UNCHANGED inbound_peers
    BY <2>1, <2>2, <1>1 DEF TablesFinite
  <2>3. CASE inbound_peers' = [inbound_peers EXCEPT ![a] = c] /\ UNCHANGED outbound_peers
    BY <2>1, <2>3, <1>1 DEF TablesFinite
  <2> QED BY <2>2, <2>3, <1>7
<1>14. TablesAgree'
  BY <1>1, <1>3, <1>4, <1>6, <1>7, ConnAssumption DEF ConnTyped, TablesAgree, Class, None
<1>15. LostOnlyByClash'
  <2>1. ASSUME NEW d \in Conn, Live(d)', ~conn'[d].shared PROVE peers'[conn'[d].addr] = d
    <3>1. CASE d = c
      BY <3>1, <1>1, <1>3, <1>5, <1>6 DEF ConnTyped
    <3>2. CASE d # c
      <4>1. Live(d) /\ conn[d].addr # a /\ conn'[d] = conn[d]
        BY <3>2, <2>1, <1>5 DEF Live, Held
      <4>2. peers[conn[d].addr] = d /\ conn[d].addr \in Address
        BY <4>1, <2>1, <1>1 DEF LostOnlyByClash, Stages, Live
      <4> QED BY <4>1, <4>2, <1>1, <1>6 DEF ConnTyped
    <3> QED BY <3>1, <3>2
  <2> QED BY <2>1 DEF LostOnlyByClash
<1> QED BY <1>8, <1>9, <1>11, <1>12, <1>13, <1>14, <1>15 DEF TablesInv

\* The socket has closed: the entries of the address go, whoever they name;
\* a live connection that loses its entry shared the address.
LEMMA GoneTables ==
  ASSUME TablesInv, NEW c \in Conn, PeerGone(c)
  PROVE  TablesInv'
<1> DEFINE a == conn[c].addr
<1>1. ConnTyped /\ Stages /\ EntriesHeld /\ SharersMarked /\ TablesFinite /\ TablesAgree
      /\ LostOnlyByClash
  BY DEF TablesInv
<1>2. /\ conn[c].stage = "closing" /\ conn' = [conn EXCEPT ![c] = Free]
      /\ peers' = [peers EXCEPT ![a] = None]
      /\ outbound_peers' = [outbound_peers EXCEPT ![a] = None]
      /\ inbound_peers' = [inbound_peers EXCEPT ![a] = None]
      /\ klass' = [klass EXCEPT ![a] = None] /\ pending' = [pending EXCEPT ![a] = None]
      /\ UNCHANGED <<maint, running>>
  BY DEF PeerGone, InStage
<1>3. a \in Address /\ Held(c)
  BY <1>1, <1>2 DEF Stages, Held
<1>4. conn' \in [Conn -> ConnRec] /\ conn'[c] = Free
      /\ \A d \in Conn : d # c => conn'[d] = conn[d]
  BY <1>1, <1>2, FreeTyped DEF ConnTyped
<1> HIDE DEF a
<1>5. ConnTyped'
  BY <1>1, <1>2, <1>3, <1>4 DEF ConnTyped
<1>6. Stages'
  BY <1>1, <1>4, FreeTyped DEF Stages
<1>7. EntriesHeld'
  <2>1. ASSUME NEW b \in Address,
               NEW d \in {peers'[b], inbound_peers'[b], outbound_peers'[b]}, d # None
        PROVE  Held(d)' /\ conn'[d].addr = b
    <3>1. b # a /\ d \in {peers[b], inbound_peers[b], outbound_peers[b]}
      BY <2>1, <1>1, <1>2, <1>3 DEF ConnTyped
    <3>2. d \in Conn /\ Held(d) /\ conn[d].addr = b
      BY <3>1, <2>1, <1>1 DEF ConnTyped, EntriesHeld
    <3> QED BY <3>1, <3>2, <1>4 DEF Held, a
  <2> QED BY <2>1 DEF EntriesHeld
<1>8. SharersMarked'
  BY <1>1, <1>4, FreeTyped DEF SharersMarked, Held
<1>9. TablesFinite'
  BY <1>1, <1>2, <1>3, RegisteredMoves DEF TablesFinite, ConnTyped
<1>10. TablesAgree'
  BY <1>1, <1>2, <1>3 DEF ConnTyped, TablesAgree
<1>11. LostOnlyByClash'
  <2>1. ASSUME NEW d \in Conn, Live(d)', ~conn'[d].shared PROVE peers'[conn'[d].addr] = d
    <3>1. d # c /\ conn'[d] = conn[d] /\ Live(d) /\ ~conn[d].shared
      BY <2>1, <1>4, FreeTyped DEF Live
    <3>2. conn[d].addr # a
      BY <3>1, <1>1, <1>3 DEF SharersMarked, Held, Live, a
    <3>3. peers[conn[d].addr] = d /\ conn[d].addr \in Address
      BY <3>1, <1>1 DEF LostOnlyByClash, Stages, Live
    <3> QED BY <3>1, <3>2, <3>3, <1>1, <1>2 DEF ConnTyped
  <2> QED BY <2>1 DEF LostOnlyByClash
<1> QED BY <1>5, <1>6, <1>7, <1>8, <1>9, <1>10, <1>11 DEF TablesInv

\* No connection, empty tables.
LEMMA InitTables == ConnInit => TablesInv
<1> SUFFICES ASSUME ConnInit PROVE TablesInv
  OBVIOUS
<1>1. ConnTyped
  BY FreeTyped, IdleTyped DEF ConnInit, ConnTyped
<1>2. \A c \in Conn : conn[c] = Free
  BY DEF ConnInit
<1>3. Stages /\ SharersMarked /\ LostOnlyByClash
  BY <1>2, FreeTyped DEF Stages, SharersMarked, LostOnlyByClash, Held, Live
<1>4. \A a \in Address : peers[a] = None /\ inbound_peers[a] = None
                         /\ outbound_peers[a] = None /\ klass[a] = None
  BY DEF ConnInit
<1>5. EntriesHeld /\ TablesAgree
  BY <1>4 DEF EntriesHeld, TablesAgree
<1>6. Registered(inbound_peers) = {} /\ Registered(outbound_peers) = {}
  BY <1>4 DEF Registered
<1>7. TablesFinite
  BY <1>6, FS_EmptySet DEF TablesFinite
<1> QED BY <1>1, <1>3, <1>5, <1>7 DEF TablesInv

-----------------------------------------------------------------------------
(* The maintenance loop                                                    *)

\* The dials of the loop: slots and feelers.
LoopDials == {c \in InStage("dialling") : conn[c].by = "loop"}

\* The loop has one dial at a time and waits for it, and the dial for a slot
\* stays within what the round counted.
LoopInv ==
    /\ \A c, d \in LoopDials : c = d
    /\ \A c \in LoopDials :
          /\ maint.busy
          /\ conn[c].dir = "out" => /\ maint.plan # <<>>
                                    /\ maint.groups[GroupOf[conn[c].addr]] < MaxOutboundPerGroup

\* The outbound peers the loop has connected, all and of one netgroup.
Mine == {a \in Registered(outbound_peers) : conn[outbound_peers[a]].by = "loop"}
MineIn(g) == {a \in Mine : GroupOf[a] = g}

\* What the loop has, with the slots it still has to fill, is within the
\* limit; during a round it has no more in a netgroup than it believes.
BudgetInv ==
    /\ Cardinality(Mine) + Len(maint.plan) <= MaxOutbound
    /\ \A g \in Group : Cardinality(MineIn(g)) <= MaxOutboundPerGroup
    /\ maint.plan # <<>> => \A g \in Group : Cardinality(MineIn(g)) <= maint.groups[g]

\* Nobody dials for the loop that did not before.
LEMMA LoopShrinks ==
  ASSUME LoopInv, UNCHANGED maint,
         \A d \in Conn : conn'[d].stage = "dialling" /\ conn'[d].by = "loop" => conn'[d] = conn[d]
  PROVE  LoopInv'
<1>1. \A d \in LoopDials' : d \in LoopDials /\ conn'[d] = conn[d]
  BY DEF LoopDials, InStage
<1> QED BY <1>1 DEF LoopInv

\* Nobody dials for the loop any more.
LEMMA LoopRests ==
  ASSUME \A d \in Conn : ~(conn'[d].stage = "dialling" /\ conn'[d].by = "loop")
  PROVE  LoopInv'
<1>1. LoopDials' = {}
  BY DEF LoopDials, InStage
<1> QED BY <1>1 DEF LoopInv

\* The end of one dial, which was the loop's only one if it was the loop's.
LEMMA DialEnds ==
  ASSUME LoopInv, NEW c \in Conn, conn[c].stage \in {"shaking", "dialling"},
         conn[c].stage = "shaking" => conn[c].by = "remote",
         conn'[c].stage # "dialling",
         \A d \in Conn : d # c /\ conn'[d].stage = "dialling" => conn'[d] = conn[d],
         conn[c].by # "loop" => maint' = maint
  PROVE  LoopInv'
<1>1. CASE conn[c].by # "loop"
  BY <1>1, LoopShrinks
<1>2. CASE conn[c].by = "loop"
  <2>1. c \in LoopDials
    BY <1>2 DEF LoopDials, InStage
  <2>2. \A d \in Conn : ~(conn'[d].stage = "dialling" /\ conn'[d].by = "loop")
    BY <2>1 DEF LoopInv, LoopDials, InStage
  <2> QED BY <2>2, LoopRests
<1> QED BY <1>1, <1>2

\* The loop dials when it waits for nothing.
LEMMA LoopDials1 ==
  ASSUME LoopInv, ~maint.busy, NEW c \in Conn, maint'.busy,
         \A d \in Conn : d # c => conn'[d] = conn[d],
         conn'[c].dir = "out" => /\ maint'.plan # <<>>
                                 /\ maint'.groups[GroupOf[conn'[c].addr]] < MaxOutboundPerGroup
  PROVE  LoopInv'
<1>1. LoopDials' \subseteq {c}
  BY DEF LoopInv, LoopDials, InStage
<1> QED BY <1>1 DEF LoopInv

\* What the loop has is finite.
LEMMA MineFinite ==
  ASSUME TablesInv
  PROVE  /\ IsFiniteSet(Mine) /\ Cardinality(Mine) \in Nat
         /\ \A g : IsFiniteSet(MineIn(g)) /\ Cardinality(MineIn(g)) \in Nat
<1>1. IsFiniteSet(Mine)
  BY FS_Subset DEF Mine, TablesInv, TablesFinite
<1>2. ASSUME NEW g PROVE IsFiniteSet(MineIn(g))
  BY <1>1, FS_Subset DEF MineIn
<1> QED BY <1>1, <1>2, FS_CardinalityType

\* The loop's peers do not grow in number, and the plan does not grow.
LEMMA BudgetShrinks ==
  ASSUME TablesInv, TablesInv', BudgetInv, Mine' \subseteq Mine,
         Len(maint'.plan) <= Len(maint.plan),
         maint'.plan # <<>> => maint.plan # <<>> /\ maint'.groups = maint.groups
  PROVE  BudgetInv'
<1>1. IsFiniteSet(Mine) /\ Cardinality(Mine) \in Nat /\ Cardinality(Mine') \in Nat
      /\ Cardinality(Mine') <= Cardinality(Mine)
  BY MineFinite, FS_Subset, FS_CardinalityType
<1>2. ASSUME NEW g \in Group
      PROVE  /\ Cardinality(MineIn(g)) \in Nat /\ Cardinality(MineIn(g)') \in Nat
             /\ Cardinality(MineIn(g)') <= Cardinality(MineIn(g))
  <2>1. MineIn(g)' \subseteq MineIn(g)
    BY DEF MineIn
  <2>2. IsFiniteSet(MineIn(g))
    BY MineFinite
  <2> QED BY <2>1, <2>2, FS_Subset, FS_CardinalityType
<1>3. Len(maint.plan) \in Nat /\ Len(maint'.plan) \in Nat
  BY DEF TablesInv, ConnTyped
<1>4. \A g \in Group : maint.groups[g] \in Nat
  BY DEF TablesInv, ConnTyped
<1>5. Cardinality(Mine') + Len(maint'.plan) <= MaxOutbound
  BY <1>1, <1>3, ConnAssumption DEF BudgetInv
<1>6. \A g \in Group : Cardinality(MineIn(g)') <= MaxOutboundPerGroup
  BY <1>2, ConnAssumption DEF BudgetInv
<1>7. maint'.plan # <<>> => \A g \in Group : Cardinality(MineIn(g)') <= maint'.groups[g]
  BY <1>2, <1>4 DEF BudgetInv
<1> QED BY <1>5, <1>6, <1>7 DEF BudgetInv

\* In a quiet step the loop keeps its peers.
LEMMA QuietMine ==
  ASSUME TablesInv, Quiet
  PROVE  Mine' = Mine
<1>1. \A a \in Registered(outbound_peers) : conn'[outbound_peers[a]].by = conn[outbound_peers[a]].by
  <2>1. ASSUME NEW a \in Registered(outbound_peers)
        PROVE  outbound_peers[a] \in Conn /\ Held(outbound_peers[a])
    BY DEF Registered, TablesInv, ConnTyped, EntriesHeld
  <2> QED BY <2>1, QuietFields DEF TablesInv, Quiet
<1> QED BY <1>1 DEF Mine, Quiet, tables, Registered

\* Connections that come in, end or are told to close are none of the loop's
\* dials; the loop's own dials end one at a time.
LEMMA LoopDialling ==
  ASSUME TablesInv, LoopInv, NEW c \in Conn
  PROVE  /\ \A a \in Address : AcceptConnection(c, a) \/ EvictForInbound(c, a) => LoopInv'
         /\ EvictionDone(c) => LoopInv'
         /\ PeerEnds(c) => LoopInv'
         /\ PeerGone(c) => LoopInv'
         /\ HandshakeDone(c) => LoopInv'
         /\ HandshakeFails(c) => LoopInv'
         /\ FeelerDone(c) => LoopInv'
<1>1. ConnTyped /\ Stages /\ conn \in [Conn -> ConnRec]
  BY DEF TablesInv, ConnTyped
<1>2. ASSUME UNCHANGED maint, NEW r, conn' = [conn EXCEPT ![c] = r], r.stage # "dialling"
      PROVE  LoopInv'
  <2>1. \A d \in Conn : conn'[d].stage = "dialling" => conn'[d] = conn[d]
    BY <1>1, <1>2
  <2> QED BY <2>1, <1>2, LoopShrinks
<1>3. ASSUME NEW a \in Address, AcceptConnection(c, a) PROVE LoopInv'
  BY <1>2, <1>3, FreeTyped DEF AcceptConnection
<1>4. ASSUME NEW a \in Address, EvictForInbound(c, a) PROVE LoopInv'
  <2>1. \A d \in Conn : conn'[d].stage = "dialling" => conn'[d] = conn[d]
    <3>1. PICK b \in Worst :
            LET v == inbound_peers[b]
                mine == Live(v)
            IN  conn' = [conn EXCEPT ![v] = IF mine THEN Closing(v) ELSE @,
                    ![c] = [addr |-> a, dir |-> "in", stage |-> "evicting", by |-> "remote",
                            victim |-> IF mine THEN v ELSE None, shared |-> FALSE]]
      BY <1>4 DEF EvictForInbound
    <3> DEFINE v == inbound_peers[b]
               r == [addr |-> a, dir |-> "in", stage |-> "evicting", by |-> "remote",
                     victim |-> IF Live(v) THEN v ELSE None, shared |-> FALSE]
    <3>2. conn' = [conn EXCEPT ![v] = IF Live(v) THEN Closing(v) ELSE conn[v], ![c] = r]
      BY <3>1
    <3>3. r.stage = "evicting"
      OBVIOUS
    <3>4. v \in Conn
      BY DEF Worst, Registered, TablesInv, ConnTyped
    <3>5. Closing(v).stage = "closing"
      BY <1>1, <3>4, ClosingFields
    <3> HIDE DEF v, r
    <3> QED BY <1>1, <3>2, <3>3, <3>4, <3>5
  <2> QED BY <2>1, <1>4, LoopShrinks DEF EvictForInbound
<1>5. ASSUME EvictionDone(c) PROVE LoopInv'
  <2>1. UNCHANGED maint /\ \/ conn' = [conn EXCEPT ![c] = Shaking(conn[c].addr)]
                           \/ conn' = [conn EXCEPT ![c] = Free]
        /\ conn[c].addr \in Address
    BY <1>1, <1>5 DEF EvictionDone, InStage, Stages
  <2> QED BY <2>1, <1>2, FreeTyped
<1>6. ASSUME PeerEnds(c) PROVE LoopInv'
  BY <1>1, <1>2, <1>6, ClosingFields DEF PeerEnds
<1>7. ASSUME PeerGone(c) PROVE LoopInv'
  BY <1>2, <1>7, FreeTyped DEF PeerGone
<1>8. ASSUME HandshakeDone(c) PROVE LoopInv'
  <2>1. /\ conn[c].stage \in {"shaking", "dialling"} /\ add_peer(c, conn[c].addr)
        /\ maint' = SlotFilled(c)
    BY <1>8 DEF HandshakeDone, InStage
  <2>2. conn[c].addr \in Address /\ (conn[c].stage = "shaking" => conn[c].by = "remote")
    BY <2>1, <1>1 DEF Stages
  <2>3. conn'[c].stage = "live"
        /\ \A d \in Conn : d # c =>
             /\ conn'[d].stage = conn[d].stage
             /\ ~(Held(d) /\ conn[d].addr = conn[c].addr) => conn'[d] = conn[d]
    BY <2>1, <2>2, <1>1, AddedConns
  <2>4. \A d \in Conn : d # c /\ conn'[d].stage = "dialling" => conn'[d] = conn[d]
    BY <2>3 DEF Held
  <2>5. conn[c].by # "loop" => maint' = maint
    BY <2>1 DEF SlotFilled
  <2> QED BY <2>1, <2>2, <2>3, <2>4, <2>5, DialEnds
<1>9. ASSUME conn[c].stage \in {"shaking", "dialling"}, conn' = [conn EXCEPT ![c] = Free],
             maint' = LoopFree(c)
      PROVE  LoopInv'
  <2>1. conn[c].stage = "shaking" => conn[c].by = "remote"
    BY <1>1 DEF Stages
  <2>2. conn'[c].stage # "dialling"
        /\ \A d \in Conn : d # c /\ conn'[d].stage = "dialling" => conn'[d] = conn[d]
    BY <1>1, <1>9, FreeTyped
  <2>3. conn[c].by # "loop" => maint' = maint
    BY <1>9 DEF LoopFree
  <2> QED BY <1>9, <2>1, <2>2, <2>3, DialEnds
<1>10. ASSUME HandshakeFails(c) PROVE LoopInv'
  BY <1>9, <1>10 DEF HandshakeFails, InStage
<1>11. ASSUME FeelerDone(c) PROVE LoopInv'
  BY <1>9, <1>11 DEF FeelerDone, InStage
<1> QED BY <1>3, <1>4, <1>5, <1>6, <1>7, <1>8, <1>10, <1>11

\* Dials begin, rounds begin and go on, and the node stops.
LEMMA LoopRounds ==
  ASSUME TablesInv, LoopInv
  PROVE  /\ \A c \in Conn, a \in Address :
              DialNext(c, a) \/ RpcConnect(c, a) \/ RunFeeler(c, a) => LoopInv'
         /\ \A a \in Address : RotateOutbound(a) \/ EvictBadOutbound(a) => LoopInv'
         /\ Maintain \/ SlotSkipped \/ Stop => LoopInv'
<1>1. ConnTyped /\ conn \in [Conn -> ConnRec]
      /\ maint \in [plan : Seq(Class), groups : [Group -> Nat], busy : BOOLEAN]
  BY DEF TablesInv, ConnTyped
<1>2. ASSUME NEW c \in Conn, NEW a \in Address, DialNext(c, a) PROVE LoopInv'
  <2> DEFINE r == [addr |-> a, dir |-> "out", stage |-> "dialling",
                   by |-> "loop", victim |-> None, shared |-> FALSE]
  <2>1. ~maint.busy /\ maint' = [maint EXCEPT !.busy = TRUE] /\ maint.plan # <<>>
        /\ maint.groups[GroupOf[a]] < MaxOutboundPerGroup /\ conn' = [conn EXCEPT ![c] = r]
    BY <1>2 DEF DialNext, Dial
  <2>2. r.addr = a
    OBVIOUS
  <2> HIDE DEF r
  <2>3. maint'.busy /\ maint'.plan = maint.plan /\ maint'.groups = maint.groups
    BY <1>1, <2>1
  <2>4. conn'[c].addr = a /\ \A d \in Conn : d # c => conn'[d] = conn[d]
    BY <1>1, <2>1, <2>2
  <2> QED BY <2>1, <2>3, <2>4, LoopDials1
<1>3. ASSUME NEW c \in Conn, NEW a \in Address, RpcConnect(c, a) PROVE LoopInv'
  <2> DEFINE r == [addr |-> a, dir |-> "out", stage |-> "dialling",
                   by |-> "rpc", victim |-> None, shared |-> FALSE]
  <2>1. UNCHANGED maint /\ conn' = [conn EXCEPT ![c] = r]
    BY <1>3 DEF RpcConnect, Dial
  <2>2. r.by = "rpc"
    OBVIOUS
  <2> HIDE DEF r
  <2>3. \A d \in Conn : conn'[d].by = "loop" => conn'[d] = conn[d]
    BY <1>1, <2>1, <2>2
  <2> QED BY <2>1, <2>3, LoopShrinks
<1>4. ASSUME NEW c \in Conn, NEW a \in Address, RunFeeler(c, a) PROVE LoopInv'
  <2> DEFINE r == [addr |-> a, dir |-> "feeler", stage |-> "dialling",
                   by |-> "loop", victim |-> None, shared |-> FALSE]
  <2>1. maint = Idle /\ maint' = [maint EXCEPT !.busy = TRUE] /\ conn' = [conn EXCEPT ![c] = r]
    BY <1>4 DEF RunFeeler
  <2>2. r.dir = "feeler"
    OBVIOUS
  <2> HIDE DEF r
  <2>3. ~maint.busy /\ maint'.busy
    BY <1>1, <2>1 DEF Idle
  <2>4. conn'[c].dir = "feeler" /\ \A d \in Conn : d # c => conn'[d] = conn[d]
    BY <1>1, <2>1, <2>2
  <2> QED BY <2>3, <2>4, LoopDials1
<1>5. ASSUME NEW a \in Address, RotateOutbound(a) \/ EvictBadOutbound(a) PROVE LoopInv'
  <2> DEFINE v == outbound_peers[a]
  <2>1. a \in Registered(outbound_peers) /\ conn' = [conn EXCEPT ![v] = Closing(v)]
        /\ UNCHANGED maint
    BY <1>5 DEF RotateOutbound, EvictBadOutbound, CloseOutbound
  <2>2. v \in Conn
    BY <2>1 DEF Registered, TablesInv, ConnTyped
  <2>3. Closing(v).stage = "closing"
    BY <1>1, <2>2, ClosingFields
  <2> HIDE DEF v
  <2>4. \A d \in Conn : conn'[d].stage = "dialling" => conn'[d] = conn[d]
    BY <1>1, <2>1, <2>2, <2>3
  <2> QED BY <2>1, <2>4, LoopShrinks
<1>6. ASSUME ~maint.busy, UNCHANGED conn PROVE LoopInv'
  <2>1. \A d \in Conn : ~(conn'[d].stage = "dialling" /\ conn'[d].by = "loop")
    BY <1>6 DEF LoopInv, LoopDials, InStage
  <2> QED BY <2>1, LoopRests
<1>7. ASSUME Maintain PROVE LoopInv'
  BY <1>6, <1>7 DEF Maintain, Idle
<1>8. ASSUME SlotSkipped PROVE LoopInv'
  BY <1>6, <1>8 DEF SlotSkipped
<1>9. ASSUME Stop PROVE LoopInv'
  <2>1. conn' = [c \in Conn |->
             IF conn[c].stage = "dialling" /\ conn[c].by = "loop" THEN Free
             ELSE IF Live(c) /\ peers[conn[c].addr] = c THEN Closing(c) ELSE conn[c]]
    BY <1>9 DEF Stop
  <2>2. ASSUME NEW d \in Conn PROVE ~(conn'[d].stage = "dialling" /\ conn'[d].by = "loop")
    <3>1. conn'[d] \in {Free, Closing(d)}
          \/ (conn'[d] = conn[d] /\ ~(conn[d].stage = "dialling" /\ conn[d].by = "loop"))
      BY <2>1
    <3> QED BY <3>1, <1>1, FreeTyped, ClosingFields
  <2> QED BY <2>2, LoopRests
<1> QED BY <1>2, <1>3, <1>4, <1>5, <1>7, <1>8, <1>9

\* Quiet steps in which the round's plan gets no longer.
LEMMA QuietBudget ==
  ASSUME TablesInv, BudgetInv, Quiet,
         Len(maint'.plan) <= Len(maint.plan),
         maint'.plan # <<>> => maint.plan # <<>> /\ maint'.groups = maint.groups
  PROVE  BudgetInv'
BY QuietTables, QuietMine, BudgetShrinks

\* One element more.
LEMMA OneMore ==
  ASSUME NEW S, IsFiniteSet(S), NEW x
  PROVE  /\ IsFiniteSet(S \cup {x}) /\ Cardinality(S \cup {x}) \in Nat
         /\ Cardinality(S \cup {x}) <= Cardinality(S) + 1
<1>1. Cardinality(S) \in Nat
  BY FS_CardinalityType
<1>2. IsFiniteSet(S \cup {x})
      /\ Cardinality(S \cup {x}) = IF x \in S THEN Cardinality(S) ELSE Cardinality(S) + 1
  BY FS_AddElement
<1> QED BY <1>1, <1>2

\* A round counts the outbound peers, of which the loop's are some.
LEMMA MaintainBudget ==
  ASSUME TablesInv, BudgetInv, Maintain
  PROVE  BudgetInv'
<1>1. maint' = [plan |-> DesiredClasses, busy |-> FALSE,
                groups |-> [g \in Group |-> OfGroup(outbound_peers, g)]]
      /\ Size(outbound_peers) < MaxOutbound
  BY DEF Maintain
<1>2. Mine' = Mine
  BY LoopQuiet, QuietMine
<1>3. Len(maint'.plan) = MaxOutbound - Size(outbound_peers) /\ Size(outbound_peers) \in Nat
  BY <1>1, ClassesTyped
<1>4. IsFiniteSet(Registered(outbound_peers))
  BY DEF TablesInv, TablesFinite
<1>5. Cardinality(Mine) <= Size(outbound_peers) /\ Cardinality(Mine) \in Nat
  <2>1. Mine \subseteq Registered(outbound_peers)
    BY DEF Mine
  <2> QED BY <2>1, <1>4, FS_Subset, MineFinite DEF Size
<1>6. ASSUME NEW g \in Group
      PROVE  MineIn(g)' = MineIn(g) /\ Cardinality(MineIn(g)) <= maint'.groups[g]
  <2> DEFINE S == {b \in Registered(outbound_peers) : GroupOf[b] = g}
  <2>1. MineIn(g) \subseteq S
    BY DEF MineIn, Mine
  <2>2. IsFiniteSet(S)
    BY <1>4, FS_Subset
  <2>3. maint'.groups[g] = Cardinality(S)
    BY <1>1 DEF OfGroup
  <2>4. Cardinality(MineIn(g)) <= Cardinality(S)
    BY <2>1, <2>2, FS_Subset
  <2> QED BY <2>3, <2>4, <1>2 DEF MineIn
<1>7. Cardinality(Mine') + Len(maint'.plan) <= MaxOutbound
  BY <1>2, <1>3, <1>5, ConnAssumption
<1> QED BY <1>6, <1>7 DEF BudgetInv

\* An entry for a makes at most one peer more the loop's.
LEMMA DoneMine ==
  ASSUME TablesInv, NEW c \in Conn, HandshakeDone(c)
  PROVE  /\ Mine' \subseteq Mine \cup {conn[c].addr}
         /\ conn[c].by # "loop" => Mine' \subseteq Mine
<1> DEFINE a == conn[c].addr
<1>1. ConnTyped /\ Stages /\ EntriesHeld
  BY DEF TablesInv
<1>2. conn[c].stage \in {"shaking", "dialling"} /\ add_peer(c, a)
  BY DEF HandshakeDone, InStage
<1>3. a \in Address /\ ~Held(c)
  BY <1>1, <1>2 DEF Stages, Held
<1> HIDE DEF a
<1>4. /\ conn'[c].by = conn[c].by
      /\ \A d \in Conn : d # c => conn'[d].by = conn[d].by
  BY <1>1, <1>2, <1>3, AddedConns
<1>5. outbound_peers' = [outbound_peers EXCEPT ![a] = c] \/ UNCHANGED outbound_peers
  BY <1>2 DEF add_peer
<1>6. ASSUME NEW b \in Mine'
      PROVE  b \in Mine \/ (b = a /\ outbound_peers'[a] = c)
  <2>1. b \in Address /\ outbound_peers'[b] # None /\ conn'[outbound_peers'[b]].by = "loop"
    BY <1>6 DEF Mine, Registered
  <2>2. CASE outbound_peers'[b] = outbound_peers[b]
    <3>1. outbound_peers[b] \in Conn /\ Held(outbound_peers[b])
      BY <2>1, <2>2, <1>1 DEF ConnTyped, EntriesHeld
    <3>2. conn[outbound_peers[b]].by = "loop"
      BY <3>1, <2>1, <2>2, <1>3, <1>4
    <3> QED BY <3>2, <2>1, <2>2 DEF Mine, Registered
  <2>3. CASE outbound_peers'[b] # outbound_peers[b]
    BY <2>3, <2>1, <1>1, <1>3, <1>5 DEF ConnTyped
  <2> QED BY <2>2, <2>3
<1>7. conn[c].by # "loop" => Mine' \subseteq Mine
  <2>1. ASSUME conn[c].by # "loop", NEW b \in Mine', outbound_peers'[b] = c PROVE FALSE
    BY <2>1, <1>4 DEF Mine
  <2> QED BY <2>1, <1>6
<1> QED BY <1>6, <1>7 DEF a

\* A dial of the loop that succeeds has a slot to fill.
LEMMA SlotWaits ==
  ASSUME TablesInv, LoopInv, NEW c \in Conn, HandshakeDone(c), conn[c].by = "loop"
  PROVE  /\ maint.plan # <<>> /\ conn[c].addr \in Address
         /\ maint.groups[GroupOf[conn[c].addr]] < MaxOutboundPerGroup
<1>1. Stages /\ conn[c].dir # "feeler" /\ conn[c].stage \in {"shaking", "dialling"}
  BY DEF TablesInv, HandshakeDone, InStage
<1>2. conn[c].stage = "dialling" /\ conn[c].dir = "out"
  BY <1>1 DEF Stages
<1> QED BY <1>1, <1>2 DEF LoopInv, LoopDials, InStage, Stages

\* The loop fills a slot: one peer more, one slot fewer, and the netgroup,
\* which had room when it was dialled, counted once more.
LEMMA DoneBudget ==
  ASSUME TablesInv, LoopInv, BudgetInv, NEW c \in Conn, HandshakeDone(c)
  PROVE  BudgetInv'
<1> DEFINE a == conn[c].addr
<1>1. ConnTyped /\ Stages /\ maint' = SlotFilled(c) /\ conn[c].dir # "feeler"
      /\ conn[c].stage \in {"shaking", "dialling"}
  BY DEF TablesInv, HandshakeDone, InStage
<1>2. conn[c].by = "loop" => /\ maint.plan # <<>>
                             /\ maint.groups[GroupOf[a]] < MaxOutboundPerGroup
                             /\ a \in Address
  BY SlotWaits
<1>3. TablesInv'
  BY <1>2, DoneTables
<1>4. Mine' \subseteq Mine \cup {a} /\ (conn[c].by # "loop" => Mine' \subseteq Mine)
  BY DoneMine
<1>5. CASE conn[c].by # "loop"
  <2>1. maint' = maint
    BY <1>1, <1>5 DEF SlotFilled
  <2> QED BY <2>1, <1>3, <1>4, <1>5, BudgetShrinks DEF TablesInv, ConnTyped
<1>6. CASE conn[c].by = "loop"
  <2>1. maint \in [plan : Seq(Class), groups : [Group -> Nat], busy : BOOLEAN]
    BY <1>1 DEF ConnTyped
  <2>2. maint' = [plan |-> Tail(maint.plan), busy |-> FALSE,
                  groups |-> [maint.groups EXCEPT ![GroupOf[a]] = @ + 1]]
    BY <1>1, <1>6 DEF SlotFilled
  <2>3. Len(maint'.plan) = Len(maint.plan) - 1 /\ Len(maint.plan) \in Nat
    BY <1>2, <1>6, <2>1, <2>2
  <2>4. GroupOf[a] \in Group
    BY <1>2, <1>6 DEF Group
  <2> HIDE DEF a
  <2>5. Cardinality(Mine) \in Nat /\ Cardinality(Mine') \in Nat
        /\ Cardinality(Mine') <= Cardinality(Mine) + 1
    <3>1. IsFiniteSet(Mine) /\ Cardinality(Mine) \in Nat
      BY MineFinite
    <3>2. IsFiniteSet(Mine \cup {a}) /\ Cardinality(Mine \cup {a}) <= Cardinality(Mine) + 1
      BY <3>1, OneMore
    <3>3. IsFiniteSet(Mine') /\ Cardinality(Mine') <= Cardinality(Mine \cup {a})
      BY <3>2, <1>4, FS_Subset
    <3> QED BY <3>1, <3>2, <3>3, FS_CardinalityType
  <2>6. Cardinality(Mine') + Len(maint'.plan) <= MaxOutbound
    BY <2>3, <2>5, ConnAssumption DEF BudgetInv
  <2>7. ASSUME NEW g \in Group
        PROVE  Cardinality(MineIn(g)') <= MaxOutboundPerGroup
               /\ Cardinality(MineIn(g)') <= maint'.groups[g]
    <3>1. IsFiniteSet(MineIn(g)) /\ Cardinality(MineIn(g)) \in Nat
          /\ Cardinality(MineIn(g)) <= maint.groups[g] /\ maint.groups[g] \in Nat
          /\ Cardinality(MineIn(g)) <= MaxOutboundPerGroup
      BY MineFinite, <1>2, <1>6, <2>1 DEF BudgetInv
    <3>2. CASE g = GroupOf[a]
      <4>1. MineIn(g)' \subseteq MineIn(g) \cup {a}
        BY <1>4 DEF MineIn
      <4>2. IsFiniteSet(MineIn(g) \cup {a})
            /\ Cardinality(MineIn(g) \cup {a}) <= Cardinality(MineIn(g)) + 1
            /\ Cardinality(MineIn(g) \cup {a}) \in Nat
        BY <3>1, OneMore
      <4>3. Cardinality(MineIn(g)') <= Cardinality(MineIn(g) \cup {a})
            /\ Cardinality(MineIn(g)') \in Nat
        BY <4>1, <4>2, FS_Subset, FS_CardinalityType
      <4>4. maint'.groups[g] = maint.groups[g] + 1 /\ maint.groups[g] < MaxOutboundPerGroup
        BY <3>2, <2>1, <2>2, <1>2, <1>6 DEF a
      <4> QED BY <3>1, <4>2, <4>3, <4>4, ConnAssumption
    <3>3. CASE g # GroupOf[a]
      <4>1. MineIn(g)' \subseteq MineIn(g)
        BY <1>4, <3>3 DEF MineIn
      <4>2. Cardinality(MineIn(g)') <= Cardinality(MineIn(g)) /\ Cardinality(MineIn(g)') \in Nat
        BY <4>1, <3>1, FS_Subset, FS_CardinalityType
      <4>3. maint'.groups[g] = maint.groups[g]
        BY <3>3, <2>1, <2>2
      <4> QED BY <3>1, <4>2, <4>3, ConnAssumption
    <3> QED BY <3>2, <3>3
  <2> QED BY <2>6, <2>7 DEF BudgetInv
<1> QED BY <1>5, <1>6

\* A peer that is gone was the loop's or not.
LEMMA GoneBudget ==
  ASSUME TablesInv, BudgetInv, NEW c \in Conn, PeerGone(c)
  PROVE  BudgetInv'
<1>1. ConnTyped /\ Stages /\ EntriesHeld /\ conn[c].stage = "closing" /\ UNCHANGED maint
      /\ conn' = [conn EXCEPT ![c] = Free]
      /\ outbound_peers' = [outbound_peers EXCEPT ![conn[c].addr] = None]
  BY DEF TablesInv, PeerGone, InStage
<1>2. TablesInv'
  BY GoneTables
<1>3. ASSUME NEW b \in Mine' PROVE b \in Mine
  <2>1. b \in Address /\ outbound_peers'[b] # None /\ conn'[outbound_peers'[b]].by = "loop"
    BY <1>3 DEF Mine, Registered
  <2>2. outbound_peers'[b] = outbound_peers[b] /\ outbound_peers[b] \in Conn
    BY <2>1, <1>1 DEF ConnTyped
  <2>3. conn'[outbound_peers[b]] = conn[outbound_peers[b]]
    <3>1. outbound_peers[b] = c => conn'[c].by = None
      BY <1>1 DEF ConnTyped, Free
    <3> QED BY <3>1, <2>1, <2>2, <1>1 DEF ConnTyped, None
  <2> QED BY <2>1, <2>2, <2>3 DEF Mine, Registered
<1> QED BY <1>1, <1>2, <1>3, BudgetShrinks DEF TablesInv, ConnTyped

-----------------------------------------------------------------------------
(* The limit per host                                                      *)

\* The inbound peers of a host, and the handshakes it has under way.
Hosting(h) == {a \in Registered(inbound_peers) : HostOf[a] = h}
Shakers(h) == {c \in InStage("shaking") : HostOf[conn[c].addr] = h}

\* A host's peers with its handshakes: whoever enters the handshake was let in
\* below the limit, and no more than MaxAccepting are on their way.
HostInv ==
    /\ IsFiniteSet(Accepting) /\ Cardinality(Accepting) <= MaxAccepting
    /\ \A h \in Host : Cardinality(Hosting(h)) + Cardinality(Shakers(h))
                         <= MaxInboundPerHost + MaxAccepting - 1

\* Both sets of a host are finite.
LEMMA HostFinite ==
  ASSUME TablesInv, IsFiniteSet(Accepting), NEW h
  PROVE  /\ IsFiniteSet(Hosting(h)) /\ Cardinality(Hosting(h)) \in Nat
         /\ IsFiniteSet(Shakers(h)) /\ Cardinality(Shakers(h)) \in Nat
         /\ Cardinality(Shakers(h)) <= Cardinality(Accepting)
         /\ Cardinality(Accepting) \in Nat
<1>1. IsFiniteSet(Hosting(h))
  BY FS_Subset DEF Hosting, TablesInv, TablesFinite
<1>2. Shakers(h) \subseteq Accepting
  BY DEF Shakers, Accepting
<1>3. IsFiniteSet(Shakers(h)) /\ Cardinality(Shakers(h)) <= Cardinality(Accepting)
  BY <1>2, FS_Subset
<1> QED BY <1>1, <1>3, FS_CardinalityType

\* No peer more; a host gets a handshake more only when it is below its limit.
LEMMA HostStep ==
  ASSUME TablesInv, TablesInv', HostInv,
         IsFiniteSet(Accepting'), Cardinality(Accepting') <= MaxAccepting,
         Registered(inbound_peers)' \subseteq Registered(inbound_peers),
         \A h \in Host : Shakers(h)' \subseteq Shakers(h)
                         \/ Cardinality(Hosting(h)) < MaxInboundPerHost
  PROVE  HostInv'
<1>1. ASSUME NEW h \in Host
      PROVE  Cardinality(Hosting(h)') + Cardinality(Shakers(h)')
               <= MaxInboundPerHost + MaxAccepting - 1
  <2>1. /\ IsFiniteSet(Hosting(h)) /\ Cardinality(Hosting(h)) \in Nat
        /\ IsFiniteSet(Shakers(h)) /\ Cardinality(Shakers(h)) \in Nat
    BY HostFinite DEF HostInv
  <2>2. Cardinality(Hosting(h)') \in Nat /\ Cardinality(Hosting(h)') <= Cardinality(Hosting(h))
    <3>1. Hosting(h)' \subseteq Hosting(h)
      BY DEF Hosting
    <3> QED BY <3>1, <2>1, FS_Subset, FS_CardinalityType
  <2>3. /\ Cardinality(Shakers(h)') \in Nat /\ Cardinality(Accepting') \in Nat
        /\ Cardinality(Shakers(h)') <= Cardinality(Accepting')
    <3>1. Shakers(h)' \subseteq Accepting'
      BY DEF Shakers, Accepting
    <3> QED BY <3>1, FS_Subset, FS_CardinalityType
  <2>4. CASE Shakers(h)' \subseteq Shakers(h)
    <3>1. Cardinality(Shakers(h)') <= Cardinality(Shakers(h))
      BY <2>1, <2>4, FS_Subset
    <3> QED BY <3>1, <2>1, <2>2, <2>3, ConnAssumption DEF HostInv
  <2>5. CASE Cardinality(Hosting(h)) < MaxInboundPerHost
    BY <2>1, <2>2, <2>3, <2>5, ConnAssumption
  <2> QED BY <2>4, <2>5
<1> QED BY <1>1 DEF HostInv, Host

\* Nobody begins a handshake.
LEMMA HostShrinks ==
  ASSUME TablesInv, TablesInv', HostInv,
         Registered(inbound_peers)' \subseteq Registered(inbound_peers),
         \A d \in Conn : conn'[d].stage \in {"evicting", "shaking"} => conn'[d] = conn[d]
  PROVE  HostInv'
<1>1. Accepting' \subseteq Accepting
  BY DEF Accepting, InStage
<1>2. \A h \in Host : Shakers(h)' \subseteq Shakers(h)
  BY DEF Shakers, InStage
<1>3. IsFiniteSet(Accepting') /\ Cardinality(Accepting') \in Nat
      /\ Cardinality(Accepting') <= Cardinality(Accepting) /\ Cardinality(Accepting) \in Nat
  BY <1>1, FS_Subset, FS_CardinalityType DEF HostInv
<1>4. Cardinality(Accepting') <= MaxAccepting
  BY <1>3, ConnAssumption DEF HostInv
<1> QED BY <1>2, <1>3, <1>4, HostStep

\* One more connection is accepted, and the others begin no handshake: either
\* it waits for the eviction, or its host is below the limit.
LEMMA HostAccepts ==
  ASSUME TablesInv, TablesInv', HostInv, UNCHANGED inbound_peers, NEW c \in Conn,
         c \in Accepting \/ Cardinality(Accepting) < MaxAccepting,
         \A d \in Conn : d # c /\ conn'[d].stage \in {"evicting", "shaking"} => conn'[d] = conn[d],
         \/ conn'[c].stage # "shaking"
         \/ conn'[c].addr \in Address /\ OfHost(conn'[c].addr) < MaxInboundPerHost
  PROVE  HostInv'
<1>1. Accepting' \subseteq Accepting \cup {c}
  BY DEF Accepting, InStage
<1>2. IsFiniteSet(Accepting \cup {c}) /\ Cardinality(Accepting \cup {c}) \in Nat
      /\ Cardinality(Accepting \cup {c}) <= MaxAccepting
  <2>1. IsFiniteSet(Accepting) /\ Cardinality(Accepting) \in Nat
        /\ Cardinality(Accepting) <= MaxAccepting
    BY FS_CardinalityType DEF HostInv
  <2>2. CASE c \in Accepting
    <3>1. Accepting \cup {c} = Accepting
      BY <2>2
    <3> QED BY <2>1, <3>1
  <2>3. CASE Cardinality(Accepting) < MaxAccepting
    <3>1. IsFiniteSet(Accepting \cup {c}) /\ Cardinality(Accepting \cup {c}) \in Nat
          /\ Cardinality(Accepting \cup {c}) <= Cardinality(Accepting) + 1
      BY <2>1, OneMore
    <3> QED BY <3>1, <2>1, <2>3, ConnAssumption
  <2> QED BY <2>2, <2>3
<1>3. IsFiniteSet(Accepting') /\ Cardinality(Accepting') <= MaxAccepting
  <2>1. IsFiniteSet(Accepting') /\ Cardinality(Accepting') <= Cardinality(Accepting \cup {c})
    BY <1>1, <1>2, FS_Subset
  <2>2. Cardinality(Accepting') \in Nat
    BY <2>1, FS_CardinalityType
  <2> QED BY <2>1, <2>2, <1>2, ConnAssumption
<1>4. ASSUME NEW h \in Host
      PROVE  Shakers(h)' \subseteq Shakers(h) \/ Cardinality(Hosting(h)) < MaxInboundPerHost
  <2>1. CASE c \notin Shakers(h)'
    BY <2>1 DEF Shakers, InStage
  <2>2. CASE c \in Shakers(h)'
    <3>1. HostOf[conn'[c].addr] = h /\ OfHost(conn'[c].addr) < MaxInboundPerHost
      BY <2>2 DEF Shakers, InStage
    <3> QED BY <3>1 DEF OfHost, Hosting
  <2> QED BY <2>1, <2>2
<1>5. Registered(inbound_peers)' \subseteq Registered(inbound_peers)
  BY DEF Registered
<1> QED BY <1>3, <1>4, <1>5, HostStep

\* accept_connection, with and without an eviction.
LEMMA AcceptHost ==
  ASSUME TablesInv, TablesInv', HostInv, NEW c \in Conn
  PROVE  /\ \A a \in Address : AcceptConnection(c, a) \/ EvictForInbound(c, a) => HostInv'
         /\ EvictionDone(c) => HostInv'
<1>1. ConnTyped /\ Stages /\ conn \in [Conn -> ConnRec]
  BY DEF TablesInv, ConnTyped
<1>2. ASSUME NEW a \in Address, AcceptConnection(c, a) PROVE HostInv'
  <2>1. /\ conn' = [conn EXCEPT ![c] = Shaking(a)] /\ UNCHANGED inbound_peers
        /\ Cardinality(Accepting) < MaxAccepting /\ OfHost(a) < MaxInboundPerHost
    BY <1>2 DEF AcceptConnection, MayAccept, tables
  <2>2. conn'[c].addr = a /\ \A d \in Conn : d # c => conn'[d] = conn[d]
    BY <1>1, <2>1, FreeTyped
  <2> QED BY <2>1, <2>2, HostAccepts
<1>3. ASSUME NEW a \in Address, EvictForInbound(c, a) PROVE HostInv'
  <2>1. Cardinality(Accepting) < MaxAccepting /\ UNCHANGED inbound_peers
    BY <1>3 DEF EvictForInbound, tables
  <2>2. PICK b \in Worst :
          LET v == inbound_peers[b]
              mine == Live(v)
          IN  conn' = [conn EXCEPT ![v] = IF mine THEN Closing(v) ELSE @,
                  ![c] = [addr |-> a, dir |-> "in", stage |-> "evicting", by |-> "remote",
                          victim |-> IF mine THEN v ELSE None, shared |-> FALSE]]
    BY <1>3 DEF EvictForInbound
  <2> DEFINE v == inbound_peers[b]
             r == [addr |-> a, dir |-> "in", stage |-> "evicting", by |-> "remote",
                   victim |-> IF Live(v) THEN v ELSE None, shared |-> FALSE]
  <2>3. conn' = [conn EXCEPT ![v] = IF Live(v) THEN Closing(v) ELSE conn[v], ![c] = r]
    BY <2>2
  <2>4. r.stage = "evicting"
    OBVIOUS
  <2>5. v \in Conn
    BY DEF Worst, Registered, TablesInv, ConnTyped
  <2>6. Closing(v).stage = "closing"
    BY <1>1, <2>5, ClosingFields
  <2> HIDE DEF v, r
  <2>7. conn'[c].stage = "evicting"
        /\ \A d \in Conn : d # c /\ conn'[d].stage \in {"evicting", "shaking"} => conn'[d] = conn[d]
    BY <1>1, <2>3, <2>4, <2>5, <2>6
  <2> QED BY <2>1, <2>7, HostAccepts
<1>4. ASSUME EvictionDone(c) PROVE HostInv'
  <2>1. c \in Accepting /\ UNCHANGED inbound_peers /\ conn[c].addr \in Address
    BY <1>1, <1>4 DEF EvictionDone, Accepting, InStage, tables, Stages
  <2>2. \/ OfHost(conn[c].addr) < MaxInboundPerHost
           /\ conn' = [conn EXCEPT ![c] = Shaking(conn[c].addr)]
        \/ conn' = [conn EXCEPT ![c] = Free]
    BY <1>4 DEF EvictionDone, MayAccept
  <2>3. \/ OfHost(conn[c].addr) < MaxInboundPerHost /\ conn'[c].addr = conn[c].addr
        \/ conn'[c].stage # "shaking"
    BY <1>1, <2>1, <2>2, FreeTyped
  <2>4. \A d \in Conn : d # c => conn'[d] = conn[d]
    BY <1>1, <2>2
  <2> QED BY <2>1, <2>3, <2>4, HostAccepts
<1> QED BY <1>2, <1>3, <1>4

\* An inbound handshake succeeds: the host has one peer more and one handshake
\* less.
LEMMA DoneHost ==
  ASSUME TablesInv, TablesInv', HostInv, NEW c \in Conn, HandshakeDone(c)
  PROVE  HostInv'
<1> DEFINE a == conn[c].addr
<1>1. ConnTyped /\ Stages
  BY DEF TablesInv
<1>2. conn[c].stage \in {"shaking", "dialling"} /\ conn[c].dir # "feeler" /\ add_peer(c, a)
  BY DEF HandshakeDone, InStage
<1>3. a \in Address
  BY <1>1, <1>2 DEF Stages
<1> HIDE DEF a
<1>4. conn'[c].stage = "live"
      /\ \A d \in Conn : d # c => conn'[d].stage = conn[d].stage
                                  /\ (~Held(d) => conn'[d] = conn[d])
  BY <1>1, <1>2, <1>3, AddedConns
<1>5. \A d \in Conn : conn'[d].stage \in {"evicting", "shaking"} => conn'[d] = conn[d]
  BY <1>4 DEF Held
<1>6. CASE conn[c].dir = "out"
  <2>1. UNCHANGED inbound_peers
    BY <1>2, <1>6 DEF add_peer
  <2>2. Registered(inbound_peers)' = Registered(inbound_peers)
    BY <2>1 DEF Registered
  <2> QED BY <2>2, <1>5, HostShrinks
<1>7. CASE conn[c].dir = "in"
  <2>1. conn[c].stage = "shaking" /\ inbound_peers' = [inbound_peers EXCEPT ![a] = c]
    BY <1>1, <1>2, <1>7 DEF Stages, add_peer
  <2>2. Registered(inbound_peers)' \subseteq Registered(inbound_peers) \cup {a}
    BY <2>1, <1>1 DEF Registered, ConnTyped
  <2>3. Accepting' \subseteq Accepting
    BY <1>5 DEF Accepting, InStage
  <2>4. IsFiniteSet(Accepting') /\ Cardinality(Accepting') <= MaxAccepting
    <3>1. IsFiniteSet(Accepting') /\ Cardinality(Accepting') \in Nat
          /\ Cardinality(Accepting') <= Cardinality(Accepting) /\ Cardinality(Accepting) \in Nat
      BY <2>3, FS_Subset, FS_CardinalityType DEF HostInv
    <3> QED BY <3>1, ConnAssumption DEF HostInv
  <2>5. ASSUME NEW h \in Host
        PROVE  Cardinality(Hosting(h)') + Cardinality(Shakers(h)')
                 <= MaxInboundPerHost + MaxAccepting - 1
    <3>1. /\ IsFiniteSet(Hosting(h)) /\ Cardinality(Hosting(h)) \in Nat
          /\ IsFiniteSet(Shakers(h)) /\ Cardinality(Shakers(h)) \in Nat
          /\ Cardinality(Hosting(h)) + Cardinality(Shakers(h)) <= MaxInboundPerHost + MaxAccepting - 1
      BY HostFinite DEF HostInv
    <3>2. CASE h = HostOf[a]
      <4>1. c \in Shakers(h) /\ Shakers(h)' \subseteq Shakers(h) \ {c}
        BY <3>2, <2>1, <1>4, <1>5 DEF Shakers, InStage, a
      <4>2. IsFiniteSet(Shakers(h) \ {c}) /\ Cardinality(Shakers(h) \ {c}) = Cardinality(Shakers(h)) - 1
        BY <4>1, <3>1, FS_RemoveElement
      <4>3. Cardinality(Shakers(h)') <= Cardinality(Shakers(h)) - 1
            /\ Cardinality(Shakers(h)') \in Nat
        BY <4>1, <4>2, FS_Subset, FS_CardinalityType
      <4>4. Hosting(h)' \subseteq Hosting(h) \cup {a}
        BY <2>2 DEF Hosting
      <4>5. IsFiniteSet(Hosting(h) \cup {a}) /\ Cardinality(Hosting(h) \cup {a}) \in Nat
            /\ Cardinality(Hosting(h) \cup {a}) <= Cardinality(Hosting(h)) + 1
        BY <3>1, OneMore
      <4>6. Cardinality(Hosting(h)') <= Cardinality(Hosting(h) \cup {a})
            /\ Cardinality(Hosting(h)') \in Nat
        BY <4>4, <4>5, FS_Subset, FS_CardinalityType
      <4> QED BY <3>1, <4>3, <4>5, <4>6, ConnAssumption
    <3>3. CASE h # HostOf[a]
      <4>1. Hosting(h)' \subseteq Hosting(h) /\ Shakers(h)' \subseteq Shakers(h)
        BY <3>3, <2>2, <1>5 DEF Hosting, Shakers, InStage
      <4>2. Cardinality(Hosting(h)') <= Cardinality(Hosting(h)) /\ Cardinality(Hosting(h)') \in Nat
        BY <4>1, <3>1, FS_Subset, FS_CardinalityType
      <4>3. Cardinality(Shakers(h)') <= Cardinality(Shakers(h)) /\ Cardinality(Shakers(h)') \in Nat
        BY <4>1, <3>1, FS_Subset, FS_CardinalityType
      <4> QED BY <3>1, <4>2, <4>3, ConnAssumption
    <3> QED BY <3>2, <3>3
  <2> QED BY <2>4, <2>5 DEF HostInv, Host
<1>8. conn[c].dir \in {"in", "out"}
  BY <1>1, <1>2 DEF Stages
<1> QED BY <1>6, <1>7, <1>8

-----------------------------------------------------------------------------
(* All of it                                                               *)

ManagerInv == TablesInv /\ LoopInv /\ BudgetInv /\ HostInv

\* Quiet steps that begin no handshake and leave the round as it is.
LEMMA QuietLimits ==
  ASSUME ManagerInv, Quiet, maint'.plan = maint.plan, maint'.groups = maint.groups,
         \A d \in Conn : conn'[d].stage \in {"evicting", "shaking"} => conn'[d] = conn[d]
  PROVE  BudgetInv' /\ HostInv'
<1>1. BudgetInv'
  BY QuietBudget DEF ManagerInv, TablesInv, ConnTyped
<1>2. Registered(inbound_peers)' \subseteq Registered(inbound_peers)
  BY DEF Quiet, tables, Registered
<1>3. HostInv'
  BY <1>2, QuietTables, HostShrinks DEF ManagerInv
<1> QED BY <1>1, <1>3

\* Dials that begin or fail: no table and no limit is touched.
LEMMA DialLimits ==
  ASSUME ManagerInv, NEW c \in Conn
  PROVE  /\ \A a \in Address : DialNext(c, a) \/ RpcConnect(c, a) \/ RunFeeler(c, a)
                               => BudgetInv' /\ HostInv'
         /\ HandshakeFails(c) \/ FeelerDone(c) \/ PeerEnds(c) => BudgetInv' /\ HostInv'
<1>1. TablesInv /\ ConnTyped /\ conn \in [Conn -> ConnRec]
      /\ maint \in [plan : Seq(Class), groups : [Group -> Nat], busy : BOOLEAN]
  BY DEF ManagerInv, TablesInv, ConnTyped
<1>2. ASSUME NEW r, conn' = [conn EXCEPT ![c] = r], r.stage \notin {"evicting", "shaking"},
             \/ maint' = maint \/ maint' = [maint EXCEPT !.busy = TRUE]
             \/ maint' = [maint EXCEPT !.busy = FALSE],
             Quiet
      PROVE  BudgetInv' /\ HostInv'
  <2>1. maint'.plan = maint.plan /\ maint'.groups = maint.groups
    BY <1>1, <1>2
  <2>2. \A d \in Conn : conn'[d].stage \in {"evicting", "shaking"} => conn'[d] = conn[d]
    BY <1>1, <1>2
  <2> QED BY <2>1, <2>2, <1>2, QuietLimits
<1>3. ASSUME NEW a \in Address, DialNext(c, a) \/ RpcConnect(c, a) \/ RunFeeler(c, a)
      PROVE  BudgetInv' /\ HostInv'
  <2>1. \E dir, by : conn' = [conn EXCEPT ![c] =
            [addr |-> a, dir |-> dir, stage |-> "dialling", by |-> by, victim |-> None,
             shared |-> FALSE]]
    BY <1>3, Zenon DEF DialNext, RpcConnect, RunFeeler, Dial
  <2>2. PICK dir, by : conn' = [conn EXCEPT ![c] =
            [addr |-> a, dir |-> dir, stage |-> "dialling", by |-> by, victim |-> None,
             shared |-> FALSE]]
    BY <2>1
  <2>3. maint' = maint \/ maint' = [maint EXCEPT !.busy = TRUE]
    BY <1>3 DEF DialNext, RpcConnect, RunFeeler
  <2>4. Quiet
    BY <1>1, <1>3, DialQuiet
  <2> QED BY <1>2, <2>2, <2>3, <2>4
<1>4. ASSUME HandshakeFails(c) \/ FeelerDone(c) PROVE BudgetInv' /\ HostInv'
  <2>1. conn' = [conn EXCEPT ![c] = Free] /\ maint' = LoopFree(c)
    BY <1>4 DEF HandshakeFails, FeelerDone
  <2>2. Quiet
    BY <1>1, <1>4, AcceptQuiet
  <2>3. maint' = maint \/ maint' = [maint EXCEPT !.busy = FALSE]
    BY <2>1 DEF LoopFree
  <2> QED BY <2>1, <2>2, <2>3, <1>2, FreeTyped
<1>5. ASSUME PeerEnds(c) PROVE BudgetInv' /\ HostInv'
  <2>1. conn' = [conn EXCEPT ![c] = Closing(c)] /\ maint' = maint
    BY <1>5 DEF PeerEnds
  <2>2. Quiet
    BY <1>1, <1>5, LoopQuiet
  <2> QED BY <2>1, <2>2, <1>1, <1>2, ClosingFields
<1> QED BY <1>3, <1>4, <1>5

\* Rounds begin, slots are skipped, outbound peers are closed, the node stops.
LEMMA RoundLimits ==
  ASSUME ManagerInv
  PROVE  /\ \A a \in Address : RotateOutbound(a) \/ EvictBadOutbound(a)
                               => BudgetInv' /\ HostInv'
         /\ Maintain \/ SlotSkipped \/ Stop => BudgetInv' /\ HostInv'
<1>1. TablesInv /\ ConnTyped /\ conn \in [Conn -> ConnRec] /\ BudgetInv /\ HostInv
      /\ maint \in [plan : Seq(Class), groups : [Group -> Nat], busy : BOOLEAN]
  BY DEF ManagerInv, TablesInv, ConnTyped
<1>2. ASSUME NEW a \in Address, RotateOutbound(a) \/ EvictBadOutbound(a)
      PROVE  BudgetInv' /\ HostInv'
  <2> DEFINE v == outbound_peers[a]
  <2>1. a \in Registered(outbound_peers) /\ conn' = [conn EXCEPT ![v] = Closing(v)]
        /\ UNCHANGED maint
    BY <1>2 DEF RotateOutbound, EvictBadOutbound, CloseOutbound
  <2>2. v \in Conn
    BY <2>1, <1>1 DEF Registered, ConnTyped
  <2>3. Closing(v).stage = "closing"
    BY <1>1, <2>2, ClosingFields
  <2>4. Quiet
    BY <1>1, <1>2, LoopQuiet
  <2> HIDE DEF v
  <2>5. \A d \in Conn : conn'[d].stage \in {"evicting", "shaking"} => conn'[d] = conn[d]
    BY <1>1, <2>1, <2>2, <2>3
  <2> QED BY <2>1, <2>4, <2>5, QuietLimits
<1>3. ASSUME Quiet, \A d \in Conn : conn'[d].stage \in {"evicting", "shaking"} => conn'[d] = conn[d]
      PROVE  HostInv'
  <2>1. Registered(inbound_peers)' \subseteq Registered(inbound_peers)
    BY <1>3 DEF Quiet, tables, Registered
  <2> QED BY <2>1, <1>1, <1>3, QuietTables, HostShrinks
<1>4. ASSUME Maintain PROVE BudgetInv' /\ HostInv'
  BY <1>1, <1>3, <1>4, LoopQuiet, MaintainBudget DEF Maintain
<1>5. ASSUME SlotSkipped PROVE BudgetInv' /\ HostInv'
  <2>1. Quiet /\ UNCHANGED conn
    BY <1>1, <1>5, LoopQuiet DEF SlotSkipped
  <2>2. Len(maint'.plan) <= Len(maint.plan)
        /\ (maint'.plan # <<>> => maint.plan # <<>> /\ maint'.groups = maint.groups)
    <3>1. CASE Len(maint.plan) <= 1
      <4>1. maint'.plan = <<>>
        BY <3>1, <1>5, IdleTyped DEF SlotSkipped
      <4> QED BY <4>1, <1>1
    <3>2. CASE ~(Len(maint.plan) <= 1)
      <4>1. maint' = [maint EXCEPT !.plan = Tail(@)] /\ maint.plan # <<>>
        BY <3>2, <1>1, <1>5 DEF SlotSkipped
      <4>2. maint'.plan = Tail(maint.plan) /\ maint'.groups = maint.groups
        BY <4>1, <1>1
      <4> QED BY <4>1, <4>2, <1>1
    <3> QED BY <3>1, <3>2
  <2> QED BY <2>1, <2>2, <1>1, <1>3, QuietBudget
<1>6. ASSUME Stop PROVE BudgetInv' /\ HostInv'
  <2>1. maint' = Idle /\ conn' = [c \in Conn |->
             IF conn[c].stage = "dialling" /\ conn[c].by = "loop" THEN Free
             ELSE IF Live(c) /\ peers[conn[c].addr] = c THEN Closing(c) ELSE conn[c]]
    BY <1>6 DEF Stop
  <2>2. Quiet
    BY <1>1, <1>6, LoopQuiet
  <2>3. ASSUME NEW d \in Conn, conn'[d].stage \in {"evicting", "shaking"}
        PROVE  conn'[d] = conn[d]
    <3>1. conn'[d] \in {Free, Closing(d), conn[d]}
      BY <2>1
    <3> QED BY <2>3, <3>1, <1>1, FreeTyped, ClosingFields
  <2>4. Len(maint'.plan) <= Len(maint.plan) /\ maint'.plan = <<>>
    BY <2>1, <1>1, IdleTyped
  <2> QED BY <2>2, <2>3, <2>4, <1>1, <1>3, QuietBudget
<1> QED BY <1>2, <1>4, <1>5, <1>6

\* Accepting leaves the round and the outbound peers alone.
LEMMA AcceptLimits ==
  ASSUME ManagerInv, NEW c \in Conn,
         \/ \E a \in Address : AcceptConnection(c, a) \/ EvictForInbound(c, a)
         \/ EvictionDone(c)
  PROVE  ManagerInv'
<1>1. TablesInv /\ LoopInv /\ BudgetInv /\ HostInv
  BY DEF ManagerInv
<1>2. Quiet
  BY <1>1, AcceptQuiet, EvictQuiet
<1>3. TablesInv'
  BY <1>1, <1>2, QuietTables
<1>4. UNCHANGED maint
  BY DEF AcceptConnection, EvictForInbound, EvictionDone
<1>5. BudgetInv'
  BY <1>1, <1>2, <1>4, QuietBudget DEF TablesInv, ConnTyped
<1> QED BY <1>1, <1>3, <1>5, LoopDialling, AcceptHost DEF ManagerInv

\* A peer is gone: its entries and no more.
LEMMA GoneLimits ==
  ASSUME ManagerInv, NEW c \in Conn, PeerGone(c)
  PROVE  ManagerInv'
<1>1. TablesInv /\ LoopInv /\ BudgetInv /\ HostInv /\ ConnTyped
  BY DEF ManagerInv, TablesInv
<1>2. TablesInv' /\ LoopInv' /\ BudgetInv'
  BY <1>1, GoneTables, LoopDialling, GoneBudget
<1>3. \A d \in Conn : conn'[d].stage \in {"evicting", "shaking"} => conn'[d] = conn[d]
  BY <1>1, FreeTyped DEF PeerGone, ConnTyped
<1>4. Registered(inbound_peers)' \subseteq Registered(inbound_peers)
  BY <1>1 DEF PeerGone, ConnTyped, Registered
<1>5. HostInv'
  BY <1>1, <1>2, <1>3, <1>4, HostShrinks
<1> QED BY <1>2, <1>5 DEF ManagerInv

\* Every step of the manager keeps its invariant.
LEMMA ManagerStep ==
  ASSUME ManagerInv, [ConnNext(Address, Address)]_connVars
  PROVE  ManagerInv'
<1>1. TablesInv /\ LoopInv /\ BudgetInv /\ HostInv
  BY DEF ManagerInv
<1>2. CASE UNCHANGED connVars
  BY <1>2, <1>1 DEF ManagerInv, connVars, TablesInv, ConnTyped, Stages, EntriesHeld, Held,
     SharersMarked, TablesFinite, TablesAgree, LostOnlyByClash, Live, Registered, LoopInv,
     LoopDials, InStage, BudgetInv, Mine, MineIn, HostInv, Accepting, Hosting, Shakers
<1>3. ASSUME NEW c \in NewPeer, NEW a \in Address,
             AcceptConnection(c, a) \/ EvictForInbound(c, a)
      PROVE  ManagerInv'
  BY <1>3, NewPeerFree, AcceptLimits
<1>4. ASSUME NEW c \in NewPeer, NEW a \in Address,
             DialNext(c, a) \/ RpcConnect(c, a) \/ RunFeeler(c, a)
      PROVE  ManagerInv'
  <2>1. c \in Conn
    BY NewPeerFree
  <2>2. TablesInv'
    BY <1>1, <1>4, <2>1, DialQuiet, QuietTables
  <2> QED BY <1>1, <1>4, <2>1, <2>2, LoopRounds, DialLimits DEF ManagerInv
<1>5. ASSUME NEW c \in Conn, EvictionDone(c) PROVE ManagerInv'
  BY <1>5, AcceptLimits
<1>6. ASSUME NEW c \in Conn, HandshakeDone(c) PROVE ManagerInv'
  <2>1. TablesInv'
    BY <1>1, <1>6, SlotWaits, DoneTables
  <2> QED BY <1>1, <1>6, <2>1, LoopDialling, DoneBudget, DoneHost DEF ManagerInv
<1>7. ASSUME NEW c \in Conn, PeerGone(c) PROVE ManagerInv'
  BY <1>7, GoneLimits
<1>8. ASSUME NEW c \in Conn, HandshakeFails(c) \/ FeelerDone(c) \/ PeerEnds(c) PROVE ManagerInv'
  <2>1. TablesInv'
    BY <1>1, <1>8, AcceptQuiet, LoopQuiet, QuietTables
  <2> QED BY <1>1, <1>8, <2>1, LoopDialling, DialLimits DEF ManagerInv
<1>9. ASSUME NEW a \in Address, RotateOutbound(a) \/ EvictBadOutbound(a) PROVE ManagerInv'
  <2>1. TablesInv'
    BY <1>1, <1>9, LoopQuiet, QuietTables
  <2> QED BY <1>1, <1>9, <2>1, LoopRounds, RoundLimits DEF ManagerInv
<1>10. ASSUME Maintain \/ SlotSkipped \/ Stop PROVE ManagerInv'
  <2>1. TablesInv'
    BY <1>1, <1>10, LoopQuiet, QuietTables
  <2> QED BY <1>1, <1>10, <2>1, LoopRounds, RoundLimits DEF ManagerInv
<1> QED BY <1>2, <1>3, <1>4, <1>5, <1>6, <1>7, <1>8, <1>9, <1>10 DEF ConnNext

\* A manager without connections is within every limit.
LEMMA InitManager == ConnInit => ManagerInv
<1> SUFFICES ASSUME ConnInit PROVE ManagerInv
  OBVIOUS
<1>1. TablesInv
  BY InitTables
<1>2. \A c \in Conn : conn[c].stage = "free"
  BY FreeTyped DEF ConnInit
<1>3. LoopDials = {} /\ Accepting = {}
  BY <1>2 DEF LoopDials, Accepting, InStage
<1>4. Registered(inbound_peers) = {} /\ Registered(outbound_peers) = {}
  BY DEF Registered, ConnInit
<1>5. Mine = {} /\ (\A g : MineIn(g) = {}) /\ \A h : Hosting(h) = {} /\ Shakers(h) = {}
  BY <1>2, <1>4 DEF Mine, MineIn, Hosting, Shakers, InStage
<1>6. IsFiniteSet({}) /\ Cardinality({}) = 0
  BY FS_EmptySet
<1>7. maint.plan = <<>>
  BY IdleTyped DEF ConnInit
<1>8. LoopInv
  BY <1>3 DEF LoopInv
<1>9. BudgetInv
  <2>1. Cardinality(Mine) = 0 /\ Len(maint.plan) = 0
    BY <1>5, <1>6, <1>7
  <2>2. \A g : Cardinality(MineIn(g)) = 0
    BY <1>5, <1>6
  <2> QED BY <2>1, <2>2, <1>7, ConnAssumption DEF BudgetInv
<1>10. HostInv
  BY <1>3, <1>5, <1>6, ConnAssumption DEF HostInv
<1> QED BY <1>1, <1>8, <1>9, <1>10 DEF ManagerInv

\* The invariant holds in every reachable state.
LEMMA ManagerAlways == ConnSpec => []ManagerInv
<1>1. ManagerInv /\ [ConnNext(Address, Address)]_connVars => ManagerInv'
  BY ManagerStep
<1> QED BY <1>1, InitManager, PTL DEF ConnSpec

\* The peer, inbound, outbound and class tables agree in every reachable state,
\* and a live connection is missing from the peer table only when another one
\* had its address (_add_peer, _on_peer_disconnect), whatever handshakes,
\* evictions, dials and closes overlap.
THEOREM TablesCorrect == ConnSpec => []TablesTrackConnections
<1>1. ManagerInv => TablesTrackConnections
  BY DEF ManagerInv, TablesInv, TablesTrackConnections
<1> QED BY <1>1, ManagerAlways, PTL

\* The inbound limit per host is overrun by fewer than the handshakes that may
\* run at once, and the maintenance loop keeps to the outbound slots and to the
\* limit per netgroup, in every reachable state.
THEOREM LimitsRespected == ConnSpec => []LimitsBounded
<1>1. ASSUME ManagerInv PROVE LimitsBounded
  <2>1. TablesInv /\ BudgetInv /\ HostInv
    BY <1>1 DEF ManagerInv
  <2>2. ASSUME NEW h \in Host
        PROVE  Cardinality({a \in Registered(inbound_peers) : HostOf[a] = h})
                 <= MaxInboundPerHost + MaxAccepting - 1
    <3>1. Cardinality(Hosting(h)) \in Nat /\ Cardinality(Shakers(h)) \in Nat
          /\ Cardinality(Hosting(h)) + Cardinality(Shakers(h))
               <= MaxInboundPerHost + MaxAccepting - 1
      BY <2>1, HostFinite DEF HostInv
    <3>2. Cardinality(Hosting(h)) <= MaxInboundPerHost + MaxAccepting - 1
      BY <3>1, ConnAssumption
    <3> QED BY <3>2 DEF Hosting
  <2>3. Cardinality(Mine) <= MaxOutbound
    <3>1. Cardinality(Mine) \in Nat /\ Len(maint.plan) \in Nat
      BY <2>1, MineFinite DEF TablesInv, ConnTyped
    <3> QED BY <3>1, <2>1, ConnAssumption DEF BudgetInv
  <2>4. \A g \in Group : Cardinality(MineIn(g)) <= MaxOutboundPerGroup
    BY <2>1 DEF BudgetInv
  <2>5. HostOverrunBounded
    BY <2>2 DEF HostOverrunBounded
  <2>6. LoopWithinBudget
    BY <2>3, <2>4 DEF LoopWithinBudget, Mine, MineIn
  <2> QED BY <2>5, <2>6 DEF LimitsBounded
<1> QED BY <1>1, ManagerAlways, PTL

-----------------------------------------------------------------------------
(* Admission of nodes                                                      *)

\* What NodeAuthorityChain holds is a record of its five tables.
Tables(V, W, I, T, K) ==
    [verified |-> V, verifiers |-> W, ids |-> I, votes |-> T, identities |-> K]
IsChain(c) == \E V, W, I, T, K : c = Tables(V, W, I, T, K)

\* Votes are counted, so that there must be finitely many of them.
VotesFinite(c) == \A n : IsFiniteSet(Votes(c, n))

\* StrictNeedsVotes as a predicate of a chain.
Earned(c) == \A n \in c.verified \ Trusted : Cardinality(Votes(c, n)) >= MinVotes

\* d knows the verified nodes and the votes of c, and perhaps more.
Extends(d, c) ==
    /\ IsChain(d) /\ VotesFinite(d)
    /\ d.identities = c.identities
    /\ Earned(c) => Earned(d)

-----------------------------------------------------------------------------
(* What attest does to a chain.                                            *)

\* d is c with the vote id for target.
AfterVote(d, c, target, id) ==
    /\ IsChain(d)
    /\ d.identities = c.identities
    /\ d.votes = With(c.votes, target, Votes(c, target) \cup {id})

\* The tables after a vote of a known verifier.
LEMMA AttestFields ==
  ASSUME NEW c, NEW target, NEW verifier, NEW id, IsChain(c),
         verifier \in c.verifiers \/ id \in c.ids
  PROVE  LET d == attest(c, target, verifier, id, FALSE)
         IN  /\ AfterVote(d, c, target, id)
             /\ d.verified \subseteq c.verified \cup {target}
             /\ target \in d.verified \ c.verified =>
                   Cardinality(Votes(c, target) \cup {id}) >= MinVotes
<1> DEFINE votes == Votes(c, target) \cup {id}
           ok == Cardinality(votes) >= MinVotes
<1>0. PICK d : d = [c EXCEPT !.votes = With(@, target, votes),
                    !.ids = @ \cup {id} \cup (IF ok THEN {DefaultId(target)} ELSE {}),
                    !.verified = IF ok THEN @ \cup {target} ELSE @,
                    !.verifiers = IF ok THEN @ \cup {target} ELSE @]
  OBVIOUS
<1>1. attest(c, target, verifier, id, FALSE) = d
  BY <1>0 DEF attest, MayAttest
<1> HIDE DEF votes, ok
<1>2. PICK V, W, I, T, K : c = Tables(V, W, I, T, K)
  BY DEF IsChain
<1>3. d = Tables(IF ok THEN V \cup {target} ELSE V, IF ok THEN W \cup {target} ELSE W,
                 I \cup {id} \cup (IF ok THEN {DefaultId(target)} ELSE {}),
                 With(T, target, votes), K)
  BY <1>0, <1>2 DEF Tables
<1>4. IsChain(d)
  BY <1>3, Zenon DEF IsChain
<1>5. c.identities = K /\ c.votes = T /\ c.verified = V
  BY <1>2 DEF Tables
<1>6. d.identities = K /\ d.votes = With(T, target, votes)
      /\ d.verified = IF ok THEN V \cup {target} ELSE V
  BY <1>3 DEF Tables
<1>7. AfterVote(d, c, target, id)
  BY <1>4, <1>5, <1>6 DEF AfterVote, votes
<1>8. d.verified \subseteq c.verified \cup {target} /\ (target \in d.verified \ c.verified => ok)
  BY <1>5, <1>6
<1> QED BY <1>1, <1>7, <1>8 DEF votes, ok

\* The tables after a forced vote.
LEMMA ForcedFields ==
  ASSUME NEW c, NEW target, NEW verifier, NEW id, IsChain(c)
  PROVE  AfterVote(attest(c, target, verifier, id, TRUE), c, target, id)
<1> DEFINE votes == Votes(c, target) \cup {id}
<1>0. PICK d : d = [c EXCEPT !.votes = With(@, target, votes),
                    !.ids = @ \cup {id} \cup {DefaultId(target)},
                    !.verified = @ \cup {target}, !.verifiers = @ \cup {target}]
  OBVIOUS
<1>1. attest(c, target, verifier, id, TRUE) = d
  BY <1>0 DEF attest, MayAttest
<1> HIDE DEF votes
<1>2. PICK V, W, I, T, K : c = Tables(V, W, I, T, K)
  BY DEF IsChain
<1>3. d = Tables(V \cup {target}, W \cup {target}, I \cup {id} \cup {DefaultId(target)},
                 With(T, target, votes), K)
  BY <1>0, <1>2 DEF Tables
<1>4. IsChain(d)
  BY <1>3, Zenon DEF IsChain
<1>5. c.identities = K /\ c.votes = T
  BY <1>2 DEF Tables
<1>6. d.identities = K /\ d.votes = With(T, target, votes)
  BY <1>3 DEF Tables
<1> QED BY <1>1, <1>4, <1>5, <1>6 DEF AfterVote, votes

\* A vote is added to its target and to nobody else, and votes stay finite.
LEMMA AttestVotes ==
  ASSUME NEW c, NEW target, NEW id, NEW d, AfterVote(d, c, target, id), VotesFinite(c)
  PROVE  /\ Votes(d, target) = Votes(c, target) \cup {id}
         /\ \A n : n # target => Votes(d, n) = Votes(c, n)
         /\ VotesFinite(d)
<1> DEFINE votes == Votes(c, target) \cup {id}
<1>1. DOMAIN d.votes = DOMAIN c.votes \cup {target} /\ d.votes[target] = votes
      /\ \A y \in DOMAIN c.votes : y # target => d.votes[y] = c.votes[y]
  <2> HIDE DEF votes
  <2>1. d.votes = With(c.votes, target, votes)
    BY DEF AfterVote, votes
  <2> QED BY <2>1 DEF With
<1>2. Votes(d, target) = votes
  <2> HIDE DEF votes
  <2> QED BY <1>1 DEF Votes
<1>3. ASSUME NEW n, n # target PROVE Votes(d, n) = Votes(c, n)
  BY <1>1, <1>3 DEF Votes
<1>4. IsFiniteSet(votes)
  BY FS_AddElement DEF VotesFinite
<1>5. ASSUME NEW n PROVE IsFiniteSet(Votes(d, n))
  <2>1. CASE n = target
    BY <2>1, <1>2, <1>4
  <2>2. CASE n # target
    BY <2>2, <1>3 DEF VotesFinite
  <2> QED BY <2>1, <2>2
<1>6. VotesFinite(d)
  BY <1>5 DEF VotesFinite
<1> QED BY <1>2, <1>3, <1>6

\* A vote that is not forced keeps the verified nodes earned: whoever it
\* admits has the votes, and whoever was admitted loses none.
LEMMA AttestExtends ==
  ASSUME NEW c, NEW target, NEW verifier, NEW id,
         IsChain(c), VotesFinite(c)
  PROVE  Extends(attest(c, target, verifier, id, FALSE), c)
<1> DEFINE d == attest(c, target, verifier, id, FALSE)
           votes == Votes(c, target) \cup {id}
<1>1. CASE verifier \notin c.verifiers /\ id \notin c.ids
  <2>1. d = c
    BY <1>1 DEF attest, MayAttest
  <2> QED BY <2>1 DEF Extends
<1>2. CASE verifier \in c.verifiers \/ id \in c.ids
  <2>1. /\ AfterVote(d, c, target, id)
        /\ d.verified \subseteq c.verified \cup {target}
        /\ target \in d.verified \ c.verified => Cardinality(votes) >= MinVotes
    BY <1>2, AttestFields
  <2> HIDE DEF d
  <2>2. /\ Votes(d, target) = votes
        /\ \A n : n # target => Votes(d, n) = Votes(c, n)
        /\ VotesFinite(d)
    BY <2>1, AttestVotes
  <2>3. IsFiniteSet(Votes(c, target))
    BY DEF VotesFinite
  <2>4. /\ Cardinality(votes) >= Cardinality(Votes(c, target))
        /\ Cardinality(votes) \in Nat /\ Cardinality(Votes(c, target)) \in Nat
    BY <2>3, FS_AddElement, FS_CardinalityType
  <2>5. ASSUME Earned(c), NEW n \in d.verified \ Trusted
        PROVE  Cardinality(Votes(d, n)) >= MinVotes
    <3>1. CASE n # target
      BY <3>1, <2>1, <2>2, <2>5 DEF Earned
    <3>2. CASE n = target /\ n \notin c.verified
      BY <3>2, <2>1, <2>2, <2>5
    <3>3. CASE n = target /\ n \in c.verified
      <4>1. Cardinality(Votes(c, target)) >= MinVotes
        BY <3>3, <2>5 DEF Earned
      <4> QED BY <4>1, <3>3, <2>2, <2>4, VotesAssumption
    <3> QED BY <3>1, <3>2, <3>3
  <2>6. Earned(c) => Earned(d)
    BY <2>5 DEF Earned
  <2>7. IsChain(d) /\ d.identities = c.identities
    BY <2>1 DEF AfterVote
  <2>8. Extends(d, c)
    BY <2>2, <2>6, <2>7 DEF Extends
  <2> QED BY <2>8 DEF d
<1> QED BY <1>1, <1>2

\* A forced vote changes no identity.
LEMMA AttestForced ==
  ASSUME NEW c, NEW target, NEW verifier, NEW id,
         IsChain(c), VotesFinite(c)
  PROVE  LET d == attest(c, target, verifier, id, TRUE)
         IN  IsChain(d) /\ VotesFinite(d) /\ d.identities = c.identities
<1> DEFINE d == attest(c, target, verifier, id, TRUE)
<1>1. AfterVote(d, c, target, id)
  BY ForcedFields
<1> HIDE DEF d
<1>2. VotesFinite(d)
  BY <1>1, AttestVotes
<1>3. IsChain(d) /\ d.identities = c.identities
  BY <1>1 DEF AfterVote
<1> QED BY <1>2, <1>3 DEF d

\* A start adds the trusted nodes with a vote each, and nobody else.
LEMMA StartExtends ==
  ASSUME NEW c, IsChain(c), VotesFinite(c)
  PROVE  Extends(StartChain(c), c)
<1> DEFINE d == StartChain(c)
<1>1. IsChain(d) /\ d.identities = c.identities /\ d.verified = c.verified \cup Trusted
      /\ d.votes = [n \in DOMAIN c.votes \cup Trusted |->
                      Votes(c, n) \cup (IF n \in Trusted THEN {DefaultId(n)} ELSE {})]
  <2> DEFINE V == c.verified \cup Trusted
             W == c.verifiers \cup Trusted
             I == c.ids \cup {DefaultId(n) : n \in Trusted}
             T == [n \in DOMAIN c.votes \cup Trusted |->
                      Votes(c, n) \cup (IF n \in Trusted THEN {DefaultId(n)} ELSE {})]
             K == c.identities
  <2>1. d = Tables(V, W, I, T, K)
    BY DEF StartChain, Tables
  <2> HIDE DEF d, V, W, I, T, K
  <2>2. IsChain(d)
    BY <2>1, Zenon DEF IsChain
  <2>3. d.verified = V /\ d.votes = T /\ d.identities = K
    BY <2>1 DEF Tables
  <2> QED BY <2>2, <2>3 DEF V, T, K
<1> HIDE DEF d
<1>2. ASSUME NEW n, n \in Trusted PROVE Votes(d, n) = Votes(c, n) \cup {DefaultId(n)}
  BY <1>1, <1>2 DEF Votes
<1>3. ASSUME NEW n, n \notin Trusted PROVE Votes(d, n) = Votes(c, n)
  BY <1>1, <1>3 DEF Votes
<1>4. ASSUME NEW n PROVE IsFiniteSet(Votes(d, n))
  <2>1. IsFiniteSet(Votes(c, n))
    BY DEF VotesFinite
  <2>2. IsFiniteSet(Votes(c, n) \cup {DefaultId(n)})
    BY <2>1, FS_AddElement
  <2> QED BY <2>1, <2>2, <1>2, <1>3
<1>5. Earned(c) => Earned(d)
  BY <1>1, <1>3 DEF Earned
<1> QED BY <1>1, <1>4, <1>5 DEF Extends, VotesFinite, d

\* A store that holds nothing.
LEMMA EmptyIsEarned == IsChain(EmptyChain) /\ VotesFinite(EmptyChain) /\ Earned(EmptyChain)
<1>1. IsChain(EmptyChain) /\ EmptyChain.verified = {} /\ EmptyChain.votes = Blank
  <2>1. EmptyChain = Tables({}, {}, {}, Blank, Blank)
    BY DEF EmptyChain, Tables
  <2>2. IsChain(EmptyChain)
    BY <2>1, Zenon DEF IsChain
  <2> QED BY <2>1, <2>2 DEF Tables
<1>2. \A n : Votes(EmptyChain, n) = {}
  BY <1>1 DEF Votes, Blank
<1> QED BY <1>1, <1>2, FS_EmptySet DEF VotesFinite, Earned

\* Keeping an identity changes no other table.
LEMMA IdentityFields ==
  ASSUME NEW c, NEW K, IsChain(c)
  PROVE  LET d == [c EXCEPT !.identities = K]
         IN  /\ IsChain(d) /\ d.identities = K
             /\ d.votes = c.votes /\ d.verified = c.verified
<1>1. PICK d : d = [c EXCEPT !.identities = K]
  OBVIOUS
<1>2. PICK V, W, I, T, L : c = Tables(V, W, I, T, L)
  BY DEF IsChain
<1>3. d = Tables(V, W, I, T, K)
  BY <1>1, <1>2 DEF Tables
<1>4. IsChain(d)
  BY <1>3, Zenon DEF IsChain
<1>5. d.identities = K /\ d.votes = T /\ d.verified = V /\ c.votes = T /\ c.verified = V
  BY <1>2, <1>3 DEF Tables
<1> QED BY <1>1, <1>4, <1>5

-----------------------------------------------------------------------------
(* The inductive invariant.                                                *)

\* The file is what memory holds, and in strict mode everyone in it has the
\* votes.
ChainInv ==
    /\ IsChain(chain) /\ VotesFinite(chain)
    /\ authFile = chain
    /\ mode = "strict" => Earned(chain)

\* A pending challenge has an id of its own, which no accepted answer used.
ChallengeInv ==
    /\ nextId \in Nat
    /\ \A a \in DOMAIN challenges :
          /\ challenges[a].id \in Nat /\ challenges[a].id < nextId
          /\ \A b \in DOMAIN challenges : a # b => challenges[a].id # challenges[b].id
          /\ \A r \in accepted : r.id # challenges[a].id
    /\ \A r \in accepted : r.id \in Nat /\ r.id < nextId

\* The identity table remembers the key of everyone accepted.
IdentityInv ==
    \A r \in accepted :
        r.node \in DOMAIN chain.identities /\ chain.identities[r.node] = r.key

AuthInv == ChainInv /\ ChallengeInv /\ IdentityInv /\ AnsweredOnce

\* The verifier starts with its trusted nodes and nothing else.
LEMMA AuthInitInv == AuthInit => AuthInv
<1> SUFFICES ASSUME AuthInit PROVE AuthInv
  OBVIOUS
<1>1. Extends(chain, EmptyChain) /\ authFile = chain
  BY EmptyIsEarned, StartExtends DEF AuthInit
<1>2. ChainInv
  BY <1>1, EmptyIsEarned DEF ChainInv, Extends
<1>3. accepted = {} /\ DOMAIN challenges = {} /\ nextId = 0
  BY DEF AuthInit, Blank
<1> QED BY <1>2, <1>3 DEF AuthInv, ChallengeInv, IdentityInv, AnsweredOnce

\* Steps that leave the challenges, the answers and the identities alone.
LEMMA QuietStep ==
  ASSUME AuthInv, ChainInv', UNCHANGED <<challenges, accepted, nextId>>,
         chain'.identities = chain.identities
  PROVE  AuthInv'
<1>1. ChallengeInv'
  BY DEF AuthInv, ChallengeInv
<1>2. IdentityInv' /\ AnsweredOnce'
  BY DEF AuthInv, IdentityInv, AnsweredOnce
<1> QED BY <1>1, <1>2 DEF AuthInv

\* Steps that leave the chain and its file alone.
LEMMA SameChain ==
  ASSUME ChainInv, UNCHANGED <<mode, chain, authFile>>
  PROVE  ChainInv'
BY DEF ChainInv

\* A request gets the next id, which nobody else has.
LEMMA RequestStep ==
  ASSUME AuthInv, NEW a, HandleJoinRequest(a)
  PROVE  AuthInv'
<1> DEFINE allowed == Len(InWindow(joinTimes[HostOf[a]], now, JoinWindow)) < JoinMax
<1>1. UNCHANGED <<mode, chain, authFile, accepted>>
  BY DEF HandleJoinRequest
<1>2. ChainInv'
  BY <1>1, SameChain DEF AuthInv
<1>3. CASE ~allowed
  <2>1. UNCHANGED <<challenges, nextId>>
    BY <1>3 DEF HandleJoinRequest
  <2> QED BY <2>1, <1>1, <1>2, QuietStep
<1>4. CASE allowed
  <2> DEFINE new == [id |-> nextId, expires |-> now + ChallengeLife]
  <2>1. challenges' = With(challenges, a, new) /\ nextId' = nextId + 1
    BY <1>4 DEF HandleJoinRequest
  <2>2. new.id = nextId
    OBVIOUS
  <2> HIDE DEF new
  <2>3. DOMAIN challenges' = DOMAIN challenges \cup {a}
        /\ \A b \in DOMAIN challenges' :
              challenges'[b] = IF b = a THEN new ELSE challenges[b]
    BY <2>1 DEF With
  <2>4. nextId \in Nat /\ \A b \in DOMAIN challenges : challenges[b].id < nextId
        /\ challenges[b].id \in Nat
    BY DEF AuthInv, ChallengeInv
  <2>5. \A r \in accepted : r.id \in Nat /\ r.id < nextId
    BY DEF AuthInv, ChallengeInv
  <2>6. ASSUME NEW b \in DOMAIN challenges'
        PROVE  /\ challenges'[b].id \in Nat /\ challenges'[b].id < nextId'
               /\ \A d \in DOMAIN challenges' : b # d => challenges'[b].id # challenges'[d].id
               /\ \A r \in accepted' : r.id # challenges'[b].id
    <3>1. CASE b = a
      BY <3>1, <1>1, <2>1, <2>2, <2>3, <2>4, <2>5
    <3>2. CASE b # a
      <4>1. b \in DOMAIN challenges /\ challenges'[b] = challenges[b]
        BY <3>2, <2>3
      <4>2. \A d \in DOMAIN challenges : b # d => challenges[b].id # challenges[d].id
        BY <4>1 DEF AuthInv, ChallengeInv
      <4>3. \A r \in accepted : r.id # challenges[b].id
        BY <4>1 DEF AuthInv, ChallengeInv
      <4> QED BY <4>1, <4>2, <4>3, <1>1, <2>1, <2>2, <2>3, <2>4
    <3> QED BY <3>1, <3>2
  <2>7. ChallengeInv'
    BY <2>1, <2>4, <2>5, <2>6, <1>1 DEF ChallengeInv
  <2> QED BY <2>7, <1>1, <1>2 DEF AuthInv, IdentityInv, AnsweredOnce
<1> QED BY <1>3, <1>4

\* A challenge that is dropped leaves the others as they were.
LEMMA DropChallenge ==
  ASSUME ChallengeInv, NEW a, challenges' = Without(challenges, a),
         UNCHANGED nextId,
         \A r \in accepted' : r \in accepted \/
            (a \in DOMAIN challenges /\ r.id = challenges[a].id)
  PROVE  ChallengeInv'
<1>1. DOMAIN challenges' \subseteq DOMAIN challenges /\ a \notin DOMAIN challenges'
      /\ \A b \in DOMAIN challenges' : challenges'[b] = challenges[b]
  BY DEF Without
<1>2. \A r \in accepted' : r.id \in Nat /\ r.id < nextId
  BY DEF ChallengeInv
<1>3. ASSUME NEW b \in DOMAIN challenges'
      PROVE  /\ challenges'[b].id \in Nat /\ challenges'[b].id < nextId'
             /\ \A d \in DOMAIN challenges' : b # d => challenges'[b].id # challenges'[d].id
             /\ \A r \in accepted' : r.id # challenges'[b].id
  <2>1. b \in DOMAIN challenges /\ b # a /\ challenges'[b] = challenges[b]
    BY <1>1
  <2>2. \A r \in accepted' : r.id # challenges[b].id
    BY <2>1 DEF ChallengeInv
  <2>3. \A d \in DOMAIN challenges : b # d => challenges[b].id # challenges[d].id
    BY <2>1 DEF ChallengeInv
  <2> QED BY <1>1, <2>1, <2>2, <2>3 DEF ChallengeInv
<1> QED BY <1>2, <1>3 DEF ChallengeInv

\* A refused attestation costs at most its expired challenge.
LEMMA RefuseStep ==
  ASSUME AuthInv, NEW a, NEW m, RefuseAttest(a, m)
  PROVE  AuthInv'
<1>1. UNCHANGED <<mode, chain, authFile, accepted, nextId>>
  BY DEF RefuseAttest
<1>2. ChainInv'
  BY <1>1, SameChain DEF AuthInv
<1>3. CASE challenges' = challenges
  BY <1>1, <1>2, <1>3, QuietStep
<1>4. CASE challenges' = Without(challenges, a)
  <2>1. ChallengeInv'
    BY <1>1, <1>4, DropChallenge DEF AuthInv
  <2> QED BY <2>1, <1>1, <1>2 DEF AuthInv, IdentityInv, AnsweredOnce
<1> QED BY <1>3, <1>4 DEF RefuseAttest

\* What the checks of handle_join_attest establish when none of them ends it.
LEMMA NotRefused ==
  ASSUME NEW a, NEW m, Refusal(a, m) = "none"
  PROVE  /\ a \in DOMAIN challenges /\ m.id = challenges[a].id
         /\ validate_rejoin_identity(chain, m.node, m.key)
BY DEF Refusal

\* A counted attestation: its challenge was still open, so its id is new;
\* and the key is the one the node had, if it had one.
LEMMA CountStep ==
  ASSUME AuthInv, NEW a, NEW m, CountAttest(a, m)
  PROVE  AuthInv'
<1> DEFINE target == NormOf[m.node]
           ok == Attested(chain, target, Self, KeyId(m.key), FALSE)
           voted == attest(chain, target, Self, KeyId(m.key), FALSE)
           new == [node |-> m.node, key |-> m.key, id |-> m.id,
                   again |-> \E r \in accepted : r.id = m.id]
<1>1. /\ Refusal(a, m) = "none"
      /\ chain' = IF ok THEN [voted EXCEPT !.identities = With(@, m.node, m.key)] ELSE voted
      /\ authFile' = chain'
      /\ challenges' = Without(challenges, a)
      /\ accepted' = IF ok THEN accepted \cup {new} ELSE accepted
      /\ UNCHANGED <<mode, nextId>>
  BY DEF CountAttest, Persist
<1>2. Extends(voted, chain)
  BY AttestExtends DEF AuthInv, ChainInv
<1>3. a \in DOMAIN challenges /\ m.id = challenges[a].id
      /\ (m.node \in DOMAIN chain.identities => chain.identities[m.node] = m.key)
  BY <1>1, NotRefused DEF validate_rejoin_identity
<1>4. ~ \E r \in accepted : r.id = m.id
  BY <1>3 DEF AuthInv, ChallengeInv
<1>5. new.node = m.node /\ new.key = m.key /\ new.id = m.id
  OBVIOUS
<1>6. ~new.again
  BY <1>4
<1> HIDE DEF ok, voted, new, target
<1>7. IsChain(chain') /\ chain'.votes = voted.votes /\ chain'.verified = voted.verified
      /\ chain'.identities = IF ok THEN With(chain.identities, m.node, m.key)
                                   ELSE chain.identities
  <2>1. CASE ok
    <3>1. chain' = [voted EXCEPT !.identities = With(chain.identities, m.node, m.key)]
      BY <1>1, <1>2, <2>1 DEF Extends
    <3> QED BY <3>1, <1>2, <2>1, IdentityFields DEF Extends
  <2>2. CASE ~ok
    BY <1>1, <1>2, <2>2 DEF Extends
  <2> QED BY <2>1, <2>2
<1>8. ChainInv'
  <2>1. VotesFinite(chain') /\ (Earned(voted) => Earned(chain'))
    BY <1>2, <1>7 DEF Extends, VotesFinite, Earned, Votes
  <2> QED BY <2>1, <1>1, <1>2, <1>7 DEF ChainInv, AuthInv, Extends
<1>9. ChallengeInv'
  <2>1. \A r \in accepted' : r \in accepted \/
           (a \in DOMAIN challenges /\ r.id = challenges[a].id)
    BY <1>1, <1>3, <1>5
  <2> QED BY <2>1, <1>1, DropChallenge DEF AuthInv
<1>10. IdentityInv'
  <2>1. CASE ~ok
    BY <2>1, <1>1, <1>7 DEF AuthInv, IdentityInv
  <2>2. CASE ok
    <3>1. DOMAIN chain'.identities = DOMAIN chain.identities \cup {m.node}
          /\ chain'.identities[m.node] = m.key
          /\ \A y \in DOMAIN chain.identities : y # m.node =>
                chain'.identities[y] = chain.identities[y]
      BY <2>2, <1>7 DEF With
    <3>2. ASSUME NEW r \in accepted
          PROVE  r.node \in DOMAIN chain'.identities /\ chain'.identities[r.node] = r.key
      <4>1. r.node \in DOMAIN chain.identities /\ chain.identities[r.node] = r.key
        BY DEF AuthInv, IdentityInv
      <4> QED BY <4>1, <3>1, <1>3
    <3>3. new.node \in DOMAIN chain'.identities /\ chain'.identities[new.node] = new.key
      BY <3>1, <1>5
    <3> QED BY <3>2, <3>3, <2>2, <1>1 DEF IdentityInv
  <2> QED BY <2>1, <2>2
<1>11. AnsweredOnce'
  <2>1. \A r \in accepted' : r \in accepted \/ r = new
    BY <1>1
  <2> QED BY <2>1, <1>6, Zenon DEF AuthInv, AnsweredOnce
<1> QED BY <1>8, <1>9, <1>10, <1>11 DEF AuthInv

\* An inbound node is verified: in strict mode by votes only.
LEMMA InboundStep ==
  ASSUME AuthInv, NEW a, NEW S, VerifyInbound(a, S)
  PROVE  AuthInv'
<1> DEFINE n == NormOf[a]
           once(v) == attest(chain, n, v, DefaultId(v), FALSE)
<1>1. authFile' = chain' /\ UNCHANGED <<mode, challenges, accepted, nextId>>
  BY DEF VerifyInbound, Persist, JoinStill
<1>2. IsChain(chain) /\ VotesFinite(chain) /\ (mode = "strict" => Earned(chain))
  BY DEF AuthInv, ChainInv
<1>3. \/ chain' = chain
      \/ \E v : chain' = once(v)
      \/ mode # "strict" /\ \E v : chain' = attest(once(v), n, n, DefaultId(n), TRUE)
      \/ mode # "strict" /\ chain' = attest(chain, n, n, DefaultId(n), TRUE)
  BY Zenon DEF VerifyInbound
<1>4. ASSUME NEW v PROVE Extends(once(v), chain)
  BY <1>2, AttestExtends
<1> HIDE DEF once
<1>5. ASSUME NEW v
      PROVE  LET d == attest(once(v), n, n, DefaultId(n), TRUE)
             IN  IsChain(d) /\ VotesFinite(d) /\ d.identities = chain.identities
  BY <1>4, AttestForced DEF Extends
<1>6. LET d == attest(chain, n, n, DefaultId(n), TRUE)
      IN  IsChain(d) /\ VotesFinite(d) /\ d.identities = chain.identities
  BY <1>2, AttestForced
<1>7. /\ IsChain(chain') /\ VotesFinite(chain') /\ chain'.identities = chain.identities
      /\ mode = "strict" => Earned(chain')
  <2>1. CASE chain' = chain
    BY <2>1, <1>2
  <2>2. CASE \E v : chain' = once(v)
    BY <2>2, <1>2, <1>4 DEF Extends
  <2>3. CASE mode # "strict" /\ \E v : chain' = attest(once(v), n, n, DefaultId(n), TRUE)
    BY <2>3, <1>5
  <2>4. CASE mode # "strict" /\ chain' = attest(chain, n, n, DefaultId(n), TRUE)
    BY <2>4, <1>6
  <2> QED BY <2>1, <2>2, <2>3, <2>4, <1>3
<1>8. ChainInv'
  BY <1>1, <1>7 DEF ChainInv
<1> QED BY <1>1, <1>7, <1>8, QuietStep

\* A dialled node is verified, except in strict mode.
LEMMA OutboundStep ==
  ASSUME AuthInv, NEW a, VerifyOutbound(a)
  PROVE  AuthInv'
<1> DEFINE n == NormOf[a]
<1>1. mode # "strict" /\ authFile' = chain' /\ UNCHANGED <<mode, challenges, accepted, nextId>>
      /\ chain' = attest(chain, n, n, DefaultId(n), TRUE)
  BY DEF VerifyOutbound, Persist, JoinStill
<1>2. IsChain(chain') /\ VotesFinite(chain') /\ chain'.identities = chain.identities
  BY <1>1, AttestForced DEF AuthInv, ChainInv
<1>3. ChainInv'
  BY <1>1, <1>2 DEF ChainInv
<1> QED BY <1>1, <1>2, <1>3, QuietStep

\* A restart reads back what was written, or starts over.
LEMMA RestartStep ==
  ASSUME AuthInv, NEW torn \in BOOLEAN, RestartVerifier(torn)
  PROVE  AuthInv'
<1> DEFINE old == IF torn THEN EmptyChain ELSE chain
<1>1. authFile' = chain' /\ UNCHANGED <<mode, nextId>> /\ DOMAIN challenges' = {}
      /\ accepted' \subseteq accepted
  BY DEF RestartVerifier, Persist, Blank
<1>2. chain' = StartChain(old) /\ (torn => accepted' = {})
  BY DEF RestartVerifier, AuthInv, ChainInv
<1>3. IsChain(old) /\ VotesFinite(old) /\ (mode = "strict" => Earned(old))
  BY EmptyIsEarned DEF AuthInv, ChainInv
<1>4. Extends(chain', old)
  BY <1>2, <1>3, StartExtends
<1>5. ChainInv'
  BY <1>1, <1>3, <1>4 DEF ChainInv, Extends
<1>6. ChallengeInv' /\ AnsweredOnce'
  BY <1>1 DEF AuthInv, ChallengeInv, AnsweredOnce
<1>7. IdentityInv'
  BY <1>1, <1>2, <1>4 DEF AuthInv, IdentityInv, Extends
<1> QED BY <1>5, <1>6, <1>7 DEF AuthInv

\* Every step of the specification keeps the invariant.
LEMMA AuthNextInv ==
  ASSUME AuthInv, [\/ AuthNext(Address) /\ UNCHANGED now
                   \/ Tick /\ UNCHANGED authVars]_<<now, authVars>>
  PROVE  AuthInv'
<1>1. CASE UNCHANGED authVars
  BY <1>1, SameChain, QuietStep DEF authVars, AuthInv
<1>2. ASSUME NEW a, SendJoinRequest(a) PROVE AuthInv'
  BY <1>2, SameChain, QuietStep DEF SendJoinRequest, AuthInv
<1>3. ASSUME NEW a, NEW k, Rekey(a, k) PROVE AuthInv'
  BY <1>3, SameChain, QuietStep DEF Rekey, AuthInv
<1>4. ASSUME NEW a, NEW m, NEW node, HandleJoinAttest(a, m, node) PROVE AuthInv'
  BY <1>4, RefuseStep, CountStep DEF HandleJoinAttest
<1>5. ASSUME NEW m, HandleJoinChallenge(m) PROVE AuthInv'
  BY <1>5, SameChain, QuietStep DEF HandleJoinChallenge, AuthInv
<1>6. ASSUME HeightsMove PROVE AuthInv'
  BY <1>6, SameChain, QuietStep DEF HeightsMove, AuthInv
<1>7. ASSUME AuthNext(Address) PROVE AuthInv'
  BY <1>7, <1>2, <1>3, <1>4, <1>5, <1>6, RequestStep, InboundStep, OutboundStep,
     RestartStep DEF AuthNext
<1> QED BY <1>1, <1>7 DEF authVars

\* The invariant holds throughout.
LEMMA AuthAlways == AuthSpec => []AuthInv
<1>1. AuthInit => AuthInv
  BY AuthInitInv
<1>2. AuthInv /\ [\/ AuthNext(Address) /\ UNCHANGED now
                  \/ Tick /\ UNCHANGED authVars]_<<now, authVars>> => AuthInv'
  BY AuthNextInv
<1> QED BY <1>1, <1>2, PTL DEF AuthSpec

\* Rejoin continuity: no second key is ever accepted for a node id, however
\* attestations are repeated, altered and re-keyed and the verifier restarted
\* (validate_rejoin_identity and the identity table).
THEOREM RejoinContinuity == AuthSpec => []OneKeyPerNode
<1>1. AuthInv => OneKeyPerNode
  BY DEF AuthInv, IdentityInv, OneKeyPerNode
<1> QED BY <1>1, AuthAlways, PTL

\* Every accepted attestation answers a challenge of its own, and in strict
\* mode nobody gets into the chain without the votes.
THEOREM AdmissionEarned == AuthSpec => []VotesEarned
<1>1. AuthInv => VotesEarned
  BY DEF AuthInv, ChainInv, Earned, VotesEarned, StrictNeedsVotes
<1> QED BY <1>1, AuthAlways, PTL
=============================================================================
