----------------------------- MODULE RulesProofs -----------------------------
(***************************************************************************)
(* Proofs about the rules of blocks and transactions: difficulty           *)
(* (Retarget), for every retarget interval and every tree of headers, and  *)
(* the two script interpreters (ScriptVM), for every script, flag and      *)
(* limit, and the verification of a spend (Spending), for every output,    *)
(* transaction and signature.                                              *)
(***************************************************************************)
EXTENDS Retarget, ScriptVM, Spending, FoldProofs, SequenceTheorems

(* Difficulty                                                              *)

\* the largest of two numbers, and the largest of a set of heights
LEMMA MaxOfTwo ==
  ASSUME NEW a \in Int, NEW b \in Int
  PROVE  Max({a, b}) = IF a >= b THEN a ELSE b
<1>1. PICK m \in {a, b} : \A y \in {a, b} : m >= y
  <2>1. CASE a >= b
    BY <2>1
  <2>2. CASE ~(a >= b)
    BY <2>2
  <2> QED BY <2>1, <2>2
<1>2. Max({a, b}) \in {a, b} /\ \A y \in {a, b} : Max({a, b}) >= y
  BY <1>1 DEF Max
<1> QED BY <1>2

\* The largest of a non-empty finite set of heights.
LEMMA MaxOfHeights ==
  ASSUME NEW n \in Nat, NEW s \in SUBSET (0..n), s # {}
  PROVE  Max(s) \in s
<1> DEFINE N == {n - x : x \in s}
<1>1. N \in SUBSET Nat /\ N # {}
  <2>1. \A x \in s : n - x \in Nat
    OBVIOUS
  <2> QED BY <2>1
<1>2. PICK k \in N : \A m \in N : ~(m < k)
  <2> HIDE DEF N
  <2> QED BY <1>1, SmallestNumber
<1>3. PICK x \in s : k = n - x
  OBVIOUS
<1>4. ASSUME NEW y \in s PROVE x >= y
  <2>1. n - y \in N
    OBVIOUS
  <2>2. ~(n - y < n - x) /\ x \in 0..n /\ y \in 0..n
    BY <1>2, <1>3, <2>1
  <2> HIDE DEF N
  <2> QED BY <2>2
<1> QED BY <1>4 DEF Max

\* A block is a list of headers, the first that of genesis.
IsBranch(b, S) ==
    /\ b \in Seq(S)
    /\ Len(b) >= 1
    /\ b[1] = Genesis0[1]

\* What a prefix of a branch is.
LEMMA PrefixIs ==
  ASSUME NEW S, NEW b, IsBranch(b, S), NEW h \in 0..Height(b)
  PROVE  /\ IsBranch(Prefix(b, h), S)
         /\ Len(Prefix(b, h)) = h + 1
         /\ Height(Prefix(b, h)) = h
         /\ \A i \in 1..(h + 1) : Prefix(b, h)[i] = b[i]
         /\ Last(Prefix(b, h)) = b[h + 1]
<1>1. Len(b) \in Nat /\ h \in Nat /\ h + 1 \in 1..Len(b)
  BY DEF IsBranch, Height
<1>2. /\ SubSeq(b, 1, h + 1) \in Seq(S)
      /\ Len(SubSeq(b, 1, h + 1)) = h + 1
      /\ \A i \in 1..(h + 1) : SubSeq(b, 1, h + 1)[i] = b[i]
  BY <1>1, SubSeqProperties DEF IsBranch
<1> QED BY <1>1, <1>2 DEF Prefix, IsBranch, Height, Last

\* Branches with the same headers are the same branch.
LEMMA SameBranch ==
  ASSUME NEW S, NEW b, NEW c, IsBranch(b, S), IsBranch(c, S), Len(b) = Len(c),
         \A i \in 1..Len(b) : b[i] = c[i]
  PROVE  b = c
  BY SeqEqual DEF IsBranch

\* Prefixes of prefixes, and the whole.
LEMMA PrefixOfPrefix ==
  ASSUME NEW S, NEW b, IsBranch(b, S), NEW h \in 0..Height(b), NEW k \in 0..h
  PROVE  Prefix(Prefix(b, h), k) = Prefix(b, k)
<1>1. Len(b) \in Nat /\ Height(b) \in Nat /\ k \in 0..Height(b) /\ h \in Nat /\ k \in Nat
  BY DEF IsBranch, Height
<1> DEFINE p == Prefix(b, h)
           q == Prefix(p, k)
           r == Prefix(b, k)
<1>2. IsBranch(p, S) /\ Height(p) = h /\ \A i \in 1..(h + 1) : p[i] = b[i]
  BY PrefixIs
<1>3. IsBranch(r, S) /\ Len(r) = k + 1 /\ \A i \in 1..(k + 1) : r[i] = b[i]
  BY <1>1, PrefixIs
<1> HIDE DEF p
<1>4. IsBranch(q, S) /\ Len(q) = k + 1 /\ \A i \in 1..(k + 1) : q[i] = p[i]
  BY <1>2, PrefixIs
<1> HIDE DEF q, r
<1>5. \A i \in 1..(k + 1) : q[i] = r[i]
  BY <1>1, <1>2, <1>3, <1>4
<1>6. q = r
  BY <1>3, <1>4, <1>5, SameBranch
<1> QED BY <1>6 DEF p, q, r

\* A branch is its own prefix of full length.
LEMMA WholePrefix ==
  ASSUME NEW S, NEW b, IsBranch(b, S)
  PROVE  Height(b) \in Nat /\ Prefix(b, Height(b)) = b
<1>1. Height(b) \in Nat /\ Height(b) + 1 = Len(b)
  BY DEF IsBranch, Height
<1> QED BY <1>1, SubSeqFull DEF IsBranch, Prefix

\* The map a reorganisation has built below height h is that of the branch
\* below h.
LEMMA ReorgMapIs ==
  ASSUME NEW S, NEW b, IsBranch(b, S), NEW h \in 1..Height(b)
  PROVE  ReorgMap(b, h) = MapOf(Prefix(b, h - 1))
<1>1. Height(b) \in Nat /\ h - 1 \in 0..Height(b)
  BY WholePrefix
<1>2. Height(Prefix(b, h - 1)) = h - 1
  BY <1>1, PrefixIs
<1>3. \A k \in 0..(h - 1) : Prefix(Prefix(b, h - 1), k) = Prefix(b, k)
  BY <1>1, PrefixOfPrefix
<1> QED BY <1>2, <1>3 DEF ReorgMap, MapOf

\* The parent of a block is the branch without its last header.
LEMMA ParentIs ==
  ASSUME NEW S, NEW b, IsBranch(b, S), NEW h \in 1..Height(b)
  PROVE  Parent(Prefix(b, h)) = Prefix(b, h - 1)
<1>1. Height(b) \in Nat /\ h \in 0..Height(b) /\ h - 1 \in 0..h
  BY WholePrefix
<1>2. Len(Prefix(b, h)) = h + 1
  BY <1>1, PrefixIs
<1>3. Parent(Prefix(b, h)) = Prefix(Prefix(b, h), h - 1)
  BY <1>1, <1>2 DEF Parent, Front, Prefix
<1> QED BY <1>1, <1>3, PrefixOfPrefix

\* A header that passes validation in a reorganisation carries what its own
\* branch asks for.
LEMMA BranchBits ==
  ASSUME NEW S, NEW b, IsBranch(b, S), NEW h \in 1..Height(b),
         ValidHeader(ReorgMap(b, h), Prefix(b, h))
  PROVE  b[h + 1].bits = OwnBits(Prefix(b, h - 1))
<1>1. Height(b) \in Nat /\ h \in 0..Height(b) /\ h - 1 \in 0..Height(b)
  BY WholePrefix
<1>2. Last(Prefix(b, h)) = b[h + 1] /\ Height(Prefix(b, h)) = h /\ Height(Prefix(b, h - 1)) = h - 1
  BY <1>1, PrefixIs
<1>3. Parent(Prefix(b, h)) = Prefix(b, h - 1) /\ ReorgMap(b, h) = MapOf(Prefix(b, h - 1))
  BY ParentIs, ReorgMapIs
<1>4. (h - 1) + 1 = h
  BY <1>1
<1> QED BY <1>2, <1>3, <1>4 DEF ValidHeader, OwnBits

RetargetInv ==
    /\ \E S : \A b \in index : IsBranch(b, S)
    /\ best \in index
    /\ heightMap = MapOf(best)
    /\ BitsOfOwnBranch

\* The bits of a branch are its own as far as it shares them with another.
LEMMA SharedBits ==
  ASSUME NEW S, NEW b, NEW c, IsBranch(b, S), IsBranch(c, S),
         NEW f \in 0..Height(b), f \in 0..Height(c), Prefix(b, f) = Prefix(c, f),
         NEW h \in 1..f
  PROVE  b[h + 1] = c[h + 1] /\ Prefix(b, h - 1) = Prefix(c, h - 1)
<1>1. Height(b) \in Nat /\ f \in Nat /\ h - 1 \in 0..f /\ h + 1 \in 1..(f + 1)
  BY WholePrefix
<1>2. b[h + 1] = Prefix(b, f)[h + 1] /\ c[h + 1] = Prefix(c, f)[h + 1]
  BY <1>1, PrefixIs
<1>3. /\ Prefix(b, h - 1) = Prefix(Prefix(b, f), h - 1)
      /\ Prefix(c, h - 1) = Prefix(Prefix(c, f), h - 1)
  BY <1>1, PrefixOfPrefix
<1> QED BY <1>2, <1>3

\* The fork point is a height at which both branches have the same block.
LEMMA ForkIs ==
  ASSUME NEW S, NEW b, IsBranch(b, S), IsBranch(best, S), heightMap = MapOf(best)
  PROVE  /\ ForkHeight(b) \in 0..Height(b)
         /\ ForkHeight(b) \in 0..Height(best)
         /\ Prefix(b, ForkHeight(b)) = Prefix(best, ForkHeight(b))
<1> DEFINE common == {h \in 0..Height(b) : h \in DOMAIN heightMap /\ heightMap[h] = Prefix(b, h)}
<1>1. Height(b) \in Nat /\ Height(best) \in Nat
  BY WholePrefix
<1>2. DOMAIN heightMap = 0..Height(best)
      /\ \A h \in 0..Height(best) : heightMap[h] = Prefix(best, h)
  BY DEF MapOf
<1>3. 0 \in common
  <2>1. 0 \in 0..Height(b) /\ 0 \in 0..Height(best)
    BY <1>1
  <2>2. /\ IsBranch(Prefix(b, 0), S) /\ Len(Prefix(b, 0)) = 1 /\ Prefix(b, 0)[1] = Genesis0[1]
        /\ IsBranch(Prefix(best, 0), S) /\ Len(Prefix(best, 0)) = 1
        /\ Prefix(best, 0)[1] = Genesis0[1]
    <3>1. ASSUME NEW c, IsBranch(c, S), 0 \in 0..Height(c)
          PROVE  IsBranch(Prefix(c, 0), S) /\ Len(Prefix(c, 0)) = 1
      BY <3>1, PrefixIs
    <3> QED BY <2>1, <3>1 DEF IsBranch
  <2>3. \A i \in 1..1 : Prefix(b, 0)[i] = Prefix(best, 0)[i]
    BY <2>2
  <2>4. Prefix(b, 0) = Prefix(best, 0)
    BY <2>2, <2>3, SameBranch
  <2> QED BY <1>2, <2>1, <2>4
<1>4. common \in SUBSET (0..Height(b)) /\ common # {}
  BY <1>3
<1>5. ForkHeight(b) = Max(common)
  BY DEF ForkHeight
<1>6. ForkHeight(b) \in common
  <2> HIDE DEF common
  <2> QED BY <1>1, <1>4, <1>5, MaxOfHeights
<1> QED BY <1>2, <1>6

\* A block on the tip, validated with the height map, extends the branch.
LEMMA ExtendsTip ==
  ASSUME NEW S, NEW b, IsBranch(b, S), IsBranch(best, S), heightMap = MapOf(best),
         Parent(b) = best, ValidHeader(heightMap, b), BitsOfOwnBranch
  PROVE  \A h \in 1..Height(b) : b[h + 1].bits = OwnBits(Prefix(b, h - 1))
<1>1. Height(b) \in Nat /\ Len(b) = Height(b) + 1 /\ Height(best) \in Nat
  BY WholePrefix DEF Height, IsBranch
<1>2. Height(b) \in 1..Height(b) /\ Prefix(b, Height(b)) = b
  <2>1. Height(b) # 0
    <3>1. ASSUME Height(b) = 0 PROVE FALSE
      <4>1. Parent(b) = <<>>
        BY <1>1, <3>1, SubSeqEmpty DEF Parent, Front, IsBranch
      <4> QED BY <4>1 DEF IsBranch
    <3> QED BY <3>1
  <2> QED BY <1>1, <2>1, WholePrefix
<1>3. best = Prefix(b, Height(b) - 1)
  BY <1>2, ParentIs
<1>4. Height(best) = Height(b) - 1 /\ Height(b) - 1 \in 0..Height(b)
  BY <1>1, <1>2, <1>3, PrefixIs
<1>5. Prefix(best, Height(b) - 1) = Prefix(b, Height(b) - 1)
  BY <1>3, <1>4, WholePrefix
<1> SUFFICES ASSUME NEW h \in 1..Height(b) PROVE b[h + 1].bits = OwnBits(Prefix(b, h - 1))
  OBVIOUS
<1>6. CASE h = Height(b)
  <2>1. Last(b) = b[h + 1]
    BY <1>1, <1>6 DEF Last
  <2>2. Height(b) = Height(best) + 1
    BY <1>1, <1>4
  <2> QED BY <1>3, <1>6, <2>1, <2>2 DEF ValidHeader, OwnBits
<1>7. CASE h # Height(b)
  <2>1. h \in 1..(Height(b) - 1)
    BY <1>1, <1>7
  <2>2. b[h + 1] = best[h + 1] /\ Prefix(b, h - 1) = Prefix(best, h - 1)
    BY <1>1, <1>4, <1>5, <2>1, SharedBits
  <2> QED BY <1>4, <2>1, <2>2 DEF BitsOfOwnBranch
<1> QED BY <1>6, <1>7

\* A branch taken in a reorganisation carries its own bits, those below the
\* fork because the old branch did and the others because they were validated
\* with the map of the new branch.
LEMMA TakesBranch ==
  ASSUME NEW S, NEW b, IsBranch(b, S), IsBranch(best, S), heightMap = MapOf(best),
         BranchValid(b), BitsOfOwnBranch
  PROVE  \A h \in 1..Height(b) : b[h + 1].bits = OwnBits(Prefix(b, h - 1))
<1> SUFFICES ASSUME NEW h \in 1..Height(b) PROVE b[h + 1].bits = OwnBits(Prefix(b, h - 1))
  OBVIOUS
<1> DEFINE f == ForkHeight(b)
<1>1. f \in 0..Height(b) /\ f \in 0..Height(best) /\ Prefix(b, f) = Prefix(best, f)
  BY ForkIs
<1>2. Height(b) \in Nat /\ Height(best) \in Nat
  BY WholePrefix
<1>3. CASE h \in (f + 1)..Height(b)
  BY <1>3, BranchBits DEF BranchValid
<1>4. CASE h \notin (f + 1)..Height(b)
  <2>1. h \in 1..f /\ h \in 1..Height(best)
    BY <1>1, <1>2, <1>4
  <2>2. b[h + 1] = best[h + 1] /\ Prefix(b, h - 1) = Prefix(best, h - 1)
    BY <1>1, <2>1, SharedBits
  <2> QED BY <2>1, <2>2 DEF BitsOfOwnBranch
<1> QED BY <1>3, <1>4

\* A header arrives.
LEMMA ReceiveKeeps ==
  ASSUME RetargetInv, NEW p \in index, NEW header, ReceiveHeader(Append(p, header))
  PROVE  RetargetInv'
<1> DEFINE b == Append(p, header)
<1>1. PICK S : \A c \in index : IsBranch(c, S)
  BY DEF RetargetInv
<1> DEFINE T == S \cup {header}
<1>2. \A c \in index : IsBranch(c, T)
  <2>1. \A c \in Seq(S) : c \in Seq(T)
    OBVIOUS
  <2> QED BY <1>1, <2>1 DEF IsBranch
<1>3. IsBranch(b, T)
  <2>1. IsBranch(p, T) /\ header \in T
    BY <1>2
  <2> HIDE DEF T
  <2>2. /\ b \in Seq(T) /\ Len(b) = Len(p) + 1
        /\ \A i \in 1..Len(p) : b[i] = p[i]
    BY <2>1, AppendProperties DEF IsBranch
  <2>3. Len(p) \in Nat /\ 1 \in 1..Len(p)
    BY <2>1 DEF IsBranch
  <2> QED BY <2>1, <2>2, <2>3 DEF IsBranch
<1> HIDE DEF b, T
<1>4. index' = index \cup {b} /\ ReceiveHeader(b)
  BY DEF ReceiveHeader, b
<1>5. \A c \in index' : IsBranch(c, T)
  BY <1>2, <1>3, <1>4
<1>6. IsBranch(best, T) /\ heightMap = MapOf(best) /\ BitsOfOwnBranch /\ best \in index
  BY <1>2 DEF RetargetInv
<1>7. ASSUME SetBest(b), \A h \in 1..Height(b) : b[h + 1].bits = OwnBits(Prefix(b, h - 1))
      PROVE  RetargetInv'
  <2>1. best' = b /\ heightMap' = MapOf(b)
    BY <1>7 DEF SetBest
  <2>2. BitsOfOwnBranch'
    BY <1>7, <2>1 DEF BitsOfOwnBranch
  <2> QED BY <1>4, <1>5, <2>1, <2>2 DEF RetargetInv
<1>8. CASE Parent(b) = best /\ ValidHeader(heightMap, b) /\ SetBest(b)
  BY <1>3, <1>6, <1>7, <1>8, ExtendsTip
<1>9. CASE BranchValid(b) /\ SetBest(b)
  BY <1>3, <1>6, <1>7, <1>9, TakesBranch
<1>10. CASE UNCHANGED <<best, heightMap, tracker>>
  <2>1. best' = best /\ heightMap' = heightMap /\ best \in index'
    BY <1>4, <1>6, <1>10
  <2>2. BitsOfOwnBranch'
    BY <1>6, <2>1 DEF BitsOfOwnBranch
  <2> QED BY <1>5, <1>6, <2>1, <2>2 DEF RetargetInv
<1> QED BY <1>4, <1>8, <1>9, <1>10 DEF ReceiveHeader

\* The headers of the last interval end with the tip.
LEMMA LastHeader ==
  ASSUME NEW S, IsBranch(best, S), heightMap = MapOf(best), NEW from \in 0..Height(best)
  PROVE  Last(HeadersFrom(heightMap, from, Height(best))) = Tip
<1> DEFINE H == Height(best)
           n == H - from + 1
           q == HeadersFrom(heightMap, from, H)
<1>1. H \in Nat /\ from \in Nat /\ n \in Nat /\ n >= 1 /\ Prefix(best, H) = best
  BY WholePrefix
<1>2. q = [i \in 1..n |-> Last(heightMap[from + i - 1])]
  BY DEF HeadersFrom, HeaderAt
<1>3. Len(q) = n
  <2>1. DOMAIN q = 1..n
    BY <1>2
  <2> DEFINE Q == {Last(heightMap[from + i - 1]) : i \in 1..n}
  <2>2. q \in [1..n -> Q]
    BY <1>2
  <2> HIDE DEF q, n, Q
  <2>3. q \in Seq(Q)
    BY <1>1, <2>2
  <2> QED BY <1>1, <2>1, <2>3, LenProperties
<1>4. from + n - 1 = H /\ H \in 0..H
  BY <1>1
<1>5. q[n] = Last(heightMap[H])
  <2> HIDE DEF H
  <2>1. n \in 1..n
    BY <1>1
  <2> QED BY <1>2, <1>4, <2>1
<1>6. heightMap[H] = best
  BY <1>1, <1>4 DEF MapOf
<1> HIDE DEF q, H
<1> QED BY <1>3, <1>5, <1>6 DEF Last, Tip, H, q

\* Validator, miner and template assembly compute the same bits: at a height
\* that is no retarget the template reads the last header of an interval.
LEMMA TemplatesAgree ==
  ASSUME RetargetInv
  PROVE  TemplatesValid
<1>1. PICK S : IsBranch(best, S) /\ heightMap = MapOf(best)
  BY DEF RetargetInv
<1> DEFINE H == Height(best)
           from == Max({0, H - (Interval - 1)})
<1>2. H \in Nat /\ Interval \in Nat \ {0}
  BY <1>1, WholePrefix, RetargetAssumption DEF RetargetAssumption
<1>3. from = IF 0 >= H - (Interval - 1) THEN 0 ELSE H - (Interval - 1)
  BY <1>2, MaxOfTwo
<1>4. (H + 1) - 1 = H
  BY <1>2
<1>5. MinerBits = ExpectedBits(heightMap, best, H + 1)
  BY DEF MinerBits, ExpectedBits, Tip
<1>6. TemplateBits = IF H - from + 1 < Interval THEN Tip.bits
                     ELSE GetNextWorkRequired(HeadersFrom(heightMap, from, H), H)
  BY DEF TemplateBits
<1>7. ExpectedBits(heightMap, best, H + 1) =
        IF (H + 1) % Interval # 0 \/ H + 1 < Interval THEN Tip.bits
        ELSE GetNextWorkRequired(HeadersFrom(heightMap, (H + 1) - Interval, H), H)
  BY <1>4 DEF ExpectedBits, Tip
<1> HIDE DEF H, from
<1>8. H - from + 1 < Interval <=> H + 1 < Interval
  BY <1>2, <1>3
<1>9. CASE H + 1 < Interval
  BY <1>5, <1>6, <1>7, <1>8, <1>9 DEF TemplatesValid, H
<1>10. CASE ~(H + 1 < Interval)
  <2>1. from = (H + 1) - Interval /\ from \in 0..H
    BY <1>2, <1>3, <1>10
  <2>2. Last(HeadersFrom(heightMap, from, H)) = Tip
    BY <1>1, <2>1, LastHeader DEF H
  <2>3. (H + 1) % Interval # 0 =>
          GetNextWorkRequired(HeadersFrom(heightMap, from, H), H) = Tip.bits
    BY <2>2 DEF GetNextWorkRequired
  <2>4. TemplateBits = ExpectedBits(heightMap, best, H + 1)
    BY <1>6, <1>7, <1>8, <1>10, <2>1, <2>3
  <2> QED BY <1>5, <2>4 DEF TemplatesValid, H
<1> QED BY <1>9, <1>10

\* Every block of the active chain carries the target its own ancestors ask
\* for, also after a reorganisation across a retarget, and the miner, the
\* block assembler and getblocktemplate ask for what the validator will; with
\* the compact form exact, which is a fact about numbers that TLC evaluates,
\* this is the whole of DifficultyAgrees.
THEOREM DifficultyAlwaysAgrees ==
  ASSUME CompactRoundTrips
  PROVE  RetargetSpec => []DifficultyAgrees
<1>1. RetargetInit => RetargetInv
  <2> SUFFICES ASSUME RetargetInit PROVE RetargetInv
    OBVIOUS
  <2> DEFINE header == [time |-> 0, signal |-> FALSE, bits |-> GetBits(GenesisTarget)]
  <2>1. Genesis0 = <<header>>
    BY DEF Genesis0
  <2> HIDE DEF header
  <2>2. IsBranch(Genesis0, {header}) /\ Len(Genesis0) = 1
    BY <2>1 DEF IsBranch
  <2>3. BitsOfOwnBranch
    BY <2>2 DEF RetargetInit, BitsOfOwnBranch, Height
  <2> QED BY <2>2, <2>3 DEF RetargetInit, RetargetInv
<1>2. RetargetInv /\ [RetargetNext]_retargetVars => RetargetInv'
  <2> SUFFICES ASSUME RetargetInv, [RetargetNext]_retargetVars PROVE RetargetInv'
    OBVIOUS
  <2>1. ASSUME NEW p \in index, NEW header, ReceiveHeader(Append(p, header)) PROVE RetargetInv'
    BY <2>1, ReceiveKeeps
  <2>2. CASE UNCHANGED <<index, best, heightMap>>
    BY <2>2 DEF RetargetInv, BitsOfOwnBranch
  <2> QED BY <2>1, <2>2 DEF RetargetNext, MineTemplate, RestartTracker, retargetVars
<1>3. RetargetInv => DifficultyAgrees
  BY TemplatesAgree DEF RetargetInv, DifficultyAgrees, CompactExact
<1> QED BY <1>1, <1>2, <1>3, PTL DEF RetargetSpec

-----------------------------------------------------------------------------
(* The tapscript interpreter: which arms of a script it executes           *)

\* What an interpreter keeps.
Machine(vm) ==
    DOMAIN vm = {"mode", "want", "buf", "stack", "alt", "conds", "depth", "ops", "res"}

\* Where execute_tapscript is in its conditionals: an entry of its stack of
\* conditions is true exactly when the arm and all those around it are taken.
Arm == [taken : BOOLEAN, elses : Nat]

InArms(conds, open) ==
    /\ conds \in Seq(BOOLEAN)
    /\ open \in Seq(Arm)
    /\ Len(conds) = Len(open)
    /\ \A i \in 1..Len(open) : conds[i] <=> \A k \in 1..i : open[k].taken

ArmsFollowed == tap.res = "running" => InArms(tap.conds, arms.open)

\* The legacy engine's if_stack: an entry is true as long as its conditional
\* has had no OP_ELSE.
FirstArm(i) == legacy.conds[i] <=> arms.open[i].elses = 0

\* Outside a skip the two read the same bytes in the same mode, and every arm
\* is taken.
Together ==
    /\ legacy.mode = tap.mode
    /\ legacy.mode # "op" => legacy.want = tap.want /\ legacy.buf = tap.buf
    /\ Len(legacy.conds) = Len(tap.conds)
    /\ \A i \in 1..Len(legacy.conds) : tap.conds[i] /\ FirstArm(i)

\* In a skip the last entry of if_stack is the arm that is not taken, and depth
\* counts it and the conditionals in it.
Skipping ==
    LET n == Len(legacy.conds)
    IN  /\ n >= 1 /\ legacy.depth \in Nat \ {0}
        /\ Len(tap.conds) = n + legacy.depth - 1
        /\ \A i \in 1..(n - 1) : tap.conds[i] /\ FirstArm(i)
        /\ ~tap.conds[n] /\ ~legacy.conds[n]

\* As long as the script is one that both read alike, they hold the same items.
Abreast ==
    /\ legacy.stack = tap.stack /\ legacy.alt = tap.alt
    /\ legacy.conds \in Seq(BOOLEAN)
    /\ \A i \in 1..Len(arms.open) : arms.open[i].elses <= 1
    /\ \/ legacy.mode \in {"op", "length", "data"} /\ Together
       \/ legacy.mode = "skip" /\ Skipping

Aligned == legacy.res = "running" /\ tap.res = "running" /\ arms.aligned => Abreast

\* What an operation on the items leaves alone; it may refuse.
Kept(vm, out) ==
    /\ Machine(out)
    /\ out.mode = vm.mode /\ out.want = vm.want /\ out.buf = vm.buf
    /\ out.conds = vm.conds /\ out.depth = vm.depth
    /\ out.res \in {vm.res, "refused"}

\* The elementary operations.
LEMMA KeptByItems ==
  ASSUME NEW vm, Machine(vm)
  PROVE  /\ Kept(vm, vm) /\ Kept(vm, Refuse(vm)) /\ Refuse(vm).res = "refused"
         /\ \A d : Kept(vm, PushItem(vm, d)) /\ PushItem(vm, d).stack = Append(vm.stack, d)
                   /\ PushItem(vm, d).alt = vm.alt /\ PushItem(vm, d).res = vm.res
         /\ \A n, items : Kept(vm, Replace(vm, n, items))
                   /\ Replace(vm, n, items).stack = Below(vm.stack, n) \o items
                   /\ Replace(vm, n, items).alt = vm.alt /\ Replace(vm, n, items).res = vm.res
  BY DEF Machine, Kept, Refuse, PushItem, Replace

\* An operation that needs some items, or checks something, refuses or is done.
LEMMA KeptByNeed ==
  ASSUME NEW vm, Machine(vm), NEW out, Kept(vm, out)
  PROVE  /\ \A n : Kept(vm, Need(vm, n, out))
         /\ \A ok \in BOOLEAN : Kept(vm, Check(ok, out))
  BY KeptByItems DEF Need, Check, Kept, Refuse, Machine

\* Two operations in a row.
LEMMA KeptTwice ==
  ASSUME NEW vm, NEW mid, NEW out, Kept(vm, mid), Kept(mid, out)
  PROVE  Kept(vm, out)
  BY DEF Kept

\* OP_VERIFY.
LEMMA KeptByVerify ==
  ASSUME NEW vm, Machine(vm)
  PROVE  /\ Kept(vm, Verify(vm))
         /\ Verify(vm).res = "running" =>
              /\ vm.res = "running"
              /\ Verify(vm).stack = Replace(vm, 1, <<>>).stack
              /\ Verify(vm).alt = vm.alt
<1>1. Kept(vm, Replace(vm, 1, <<>>)) /\ Machine(Replace(vm, 1, <<>>))
  BY KeptByItems DEF Kept
<1>2. /\ Refuse(vm).res = "refused" /\ Refuse(Replace(vm, 1, <<>>)).res = "refused"
      /\ Kept(vm, Refuse(vm)) /\ Kept(vm, Refuse(Replace(vm, 1, <<>>)))
  BY <1>1, KeptByItems, KeptTwice
<1>3. CASE vm.res # "running"
  <2>1. Verify(vm) = vm
    BY <1>3 DEF Verify
  <2> QED BY <1>3, <2>1, KeptByItems
<1>4. CASE vm.res = "running"
  <2>1. Verify(vm) \in {Refuse(vm), Replace(vm, 1, <<>>), Refuse(Replace(vm, 1, <<>>))}
    BY <1>4 DEF Verify, Need, Check
  <2>2. Replace(vm, 1, <<>>).alt = vm.alt
    BY DEF Replace, Machine
  <2> QED BY <1>1, <1>2, <1>4, <2>1, <2>2
<1> QED BY <1>3, <1>4

\* The operations of ScriptEngine and of tapscript on the items, one by one.
LEMMA KeptByRearranged ==
  ASSUME NEW vm, Machine(vm), NEW op
  PROVE  Kept(vm, Rearranged(vm, op))
  BY KeptByItems DEF Rearranged, Need

\* The alternative stack.
LEMMA KeptByAlt ==
  ASSUME NEW vm, Machine(vm)
  PROVE  Kept(vm, ToAlt(vm)) /\ Kept(vm, FromAlt(vm))
<1>1. Kept(vm, ToAlt(vm))
  BY KeptByItems DEF ToAlt, Need, Kept, Machine
<1>2. Kept(vm, FromAlt(vm))
  BY KeptByItems DEF FromAlt, Need, Kept, Machine
<1> QED BY <1>1, <1>2

\* Comparisons, hashes and the other checks on items.
LEMMA KeptByEqual ==
  ASSUME NEW vm, Machine(vm), NEW op
  PROVE  /\ Kept(vm, Equal(vm)) /\ Kept(vm, HashTop(vm, op))
         /\ Kept(vm, IfDup(vm)) /\ Kept(vm, Schnorr(vm)) 
         /\ Kept(vm, Need(vm, 1, IfDup(vm)))
         /\ Kept(vm, PushItem(vm, EncodeScriptNum(Len(vm.stack))))
         /\ Kept(vm, Need(vm, 1, PushItem(vm, EncodeScriptNum(Len(Last(vm.stack))))))
  BY KeptByItems DEF Equal, HashTop, IfDup, Schnorr, Need

\* The operations on numbers.
LEMMA KeptByNumbers ==
  ASSUME NEW vm, Machine(vm), NEW op
  PROVE  Kept(vm, CheckSigAdd(vm)) /\ Kept(vm, Arithmetic(vm, op))
<1>1. Kept(vm, CheckSigAdd(vm))
  BY KeptByItems DEF CheckSigAdd, Need
<1>2. Kept(vm, Arithmetic(vm, op))
  BY KeptByItems DEF Arithmetic, Need
<1> QED BY <1>1, <1>2

\* The operations that only the legacy engine has.
LEMMA KeptByLegacy ==
  ASSUME NEW vm, Machine(vm), NEW move, NEW flag, NEW actual
  PROVE  /\ Kept(vm, PickOrRoll(vm, move)) /\ Kept(vm, CheckSig(vm))
         /\ Kept(vm, CheckMultisigOp(vm)) /\ Kept(vm, AtLeast(vm, flag, actual))
         /\ Kept(vm, Check(~Flag("DISCOURAGE_NOPS"), vm))
<1>1. Kept(vm, PickOrRoll(vm, move))
  BY KeptByItems DEF PickOrRoll, Need, Kept, Machine
<1>2. Kept(vm, CheckSig(vm))
  BY KeptByItems DEF CheckSig, Need
<1>3. Kept(vm, CheckMultisigOp(vm))
  BY KeptByItems DEF CheckMultisigOp
<1>4. Kept(vm, AtLeast(vm, flag, actual)) /\ Kept(vm, Check(~Flag("DISCOURAGE_NOPS"), vm))
  BY KeptByItems DEF AtLeast, Need, Check
<1> QED BY <1>1, <1>2, <1>3, <1>4
\* _execute_opcode leaves mode and conditions alone, but for the conditionals.
LEMMA KeptByOpcode ==
  ASSUME NEW vm, Machine(vm), NEW op \in 0..255, op \notin {OpIf, OpNotIf, OpElse, OpEndIf}
  PROVE  Kept(vm, ExecuteOpcode(vm, op)) /\ Kept(vm, TapOpcode(vm, op))
<1>1. Kept(vm, vm) /\ Kept(vm, Refuse(vm)) /\ Kept(vm, Verify(vm))
  BY KeptByItems, KeptByVerify
<1>2. /\ Kept(vm, Verify(Equal(vm))) /\ Kept(vm, Verify(Schnorr(vm)))
      /\ Kept(vm, Verify(Arithmetic(vm, op)))
  <2>1. Kept(vm, Equal(vm)) /\ Kept(vm, Schnorr(vm)) /\ Kept(vm, Arithmetic(vm, op))
    BY KeptByEqual, KeptByNumbers
  <2>2. ASSUME NEW mid, Kept(vm, mid) PROVE Kept(vm, Verify(mid))
    BY <2>2, KeptByVerify, KeptTwice DEF Kept
  <2> QED BY <2>1, <2>2
<1>3. /\ Kept(vm, ToAlt(vm)) /\ Kept(vm, FromAlt(vm)) /\ Kept(vm, Rearranged(vm, op))
      /\ Kept(vm, Equal(vm)) /\ Kept(vm, HashTop(vm, op))
      /\ Kept(vm, IfDup(vm)) /\ Kept(vm, Schnorr(vm))
      /\ Kept(vm, Need(vm, 1, IfDup(vm)))
      /\ Kept(vm, PushItem(vm, EncodeScriptNum(Len(vm.stack))))
      /\ Kept(vm, Need(vm, 1, PushItem(vm, EncodeScriptNum(Len(Last(vm.stack))))))
      /\ Kept(vm, CheckSigAdd(vm)) /\ Kept(vm, Arithmetic(vm, op))
  BY KeptByAlt, KeptByRearranged, KeptByEqual, KeptByNumbers
<1>4. /\ Kept(vm, PickOrRoll(vm, op = 122)) /\ Kept(vm, CheckSig(vm))
      /\ Kept(vm, CheckMultisigOp(vm)) /\ Kept(vm, AtLeast(vm, "CLTV", LockTime))
      /\ Kept(vm, AtLeast(vm, "CSV", Sequence))
      /\ Kept(vm, Check(~Flag("DISCOURAGE_NOPS"), vm))
  BY KeptByLegacy
<1>5. Kept(vm, ExecuteOpcode(vm, op))
  BY <1>1, <1>2, <1>3, <1>4 DEF ExecuteOpcode, OpIf, OpNotIf, OpElse, OpEndIf
<1>6. Kept(vm, TapOpcode(vm, op))
  BY <1>1, <1>2, <1>3 DEF TapOpcode
<1> QED BY <1>5, <1>6

\* A push touches neither the conditions nor the result, unless it refuses.
Pushing(vm, out) ==
    /\ Machine(out)
    /\ out.conds = vm.conds /\ out.depth = vm.depth /\ out.res \in {vm.res, "refused"}

\* Reading on in a push changes what is being read and the items, nothing else.
LEMMA PushingReads ==
  ASSUME NEW vm, Machine(vm), NEW d, NEW tapscript \in BOOLEAN, NEW n, NEW b
  PROVE  /\ Kept(vm, Pushed(vm, d, tapscript))
         /\ Pushing(vm, StartData(vm, n, tapscript))
         /\ Pushing(vm, StartLength(vm, b))
         /\ Pushing(vm, ReadOn(vm, b, tapscript))
<1>1. ASSUME NEW m, Machine(m), NEW e PROVE Kept(m, Pushed(m, e, tapscript))
  <2>1. Kept(m, m) /\ Kept(m, PushItem(m, e))
    BY <1>1, KeptByItems
  <2>2. Kept(m, Refuse(PushItem(m, e)))
    BY <1>1, <2>1, KeptByItems, KeptTwice DEF Kept
  <2> QED BY <2>1, <2>2 DEF Pushed, Check
<1> DEFINE clear == [vm EXCEPT !.mode = "op", !.want = 0, !.buf = <<>>]
<1>2. Machine(clear) /\ Pushing(vm, clear)
  BY DEF Machine, Pushing
<1> HIDE DEF clear
<1>3. ASSUME NEW e PROVE Pushing(vm, Pushed(clear, e, tapscript))
  BY <1>1, <1>2 DEF Pushing, Kept
<1>4. ASSUME NEW k PROVE Pushing(vm, StartData(vm, k, tapscript))
  <2>1. Pushing(vm, [vm EXCEPT !.mode = "data", !.want = k, !.buf = <<>>])
    BY DEF Machine, Pushing
  <2> QED BY <1>3, <2>1 DEF StartData, clear
<1>5. Pushing(vm, StartLength(vm, b))
  BY DEF Machine, Pushing, StartLength
<1>6. Pushing(vm, ReadOn(vm, b, tapscript))
  <2>1. Pushing(vm, [vm EXCEPT !.buf = Append(vm.buf, b)])
    BY DEF Machine, Pushing
  <2> QED BY <1>3, <1>4, <2>1 DEF ReadOn, clear
<1> QED BY <1>1, <1>4, <1>5, <1>6
\* The operations read nothing but the items: on the same items they leave the
\* same.
Same(v, w) == Machine(v) /\ Machine(w) /\ v.stack = w.stack /\ v.alt = w.alt
BothRun(v, w) == v.res = "running" /\ w.res = "running"

\* The elementary operations, on both.
LEMMA SameByItems ==
  ASSUME NEW v, NEW w, Same(v, w)
  PROVE  /\ \A d : Same(PushItem(v, d), PushItem(w, d))
         /\ \A n, items : Same(Replace(v, n, items), Replace(w, n, items))
         /\ Refuse(v).res = "refused" /\ Refuse(w).res = "refused"
  BY DEF Same, Machine, PushItem, Replace, Refuse

\* Each operation both engines have.
LEMMA SameByVerify ==
  ASSUME NEW v, NEW w, Same(v, w), BothRun(Verify(v), Verify(w))
  PROVE  Same(Verify(v), Verify(w)) /\ BothRun(v, w)
<1>1. Same(Replace(v, 1, <<>>), Replace(w, 1, <<>>))
  BY SameByItems
<1> QED BY <1>1, KeptByVerify DEF Same, BothRun, Kept

\* OP_EQUAL.
LEMMA SameByEqual ==
  ASSUME NEW v, NEW w, Same(v, w)
  PROVE  BothRun(Equal(v), Equal(w)) => Same(Equal(v), Equal(w))
<1>1. v.stack = w.stack
  BY DEF Same
<1> QED BY <1>1, SameByItems DEF Equal, Need, BothRun

\* The hashes.
LEMMA SameByHash ==
  ASSUME NEW v, NEW w, Same(v, w), NEW op
  PROVE  BothRun(HashTop(v, op), HashTop(w, op)) => Same(HashTop(v, op), HashTop(w, op))
<1>1. v.stack = w.stack
  BY DEF Same
<1> QED BY <1>1, SameByItems DEF HashTop, Need, BothRun

\* The operations that only move items.
LEMMA SameByRearranged ==
  ASSUME NEW v, NEW w, Same(v, w), NEW op
  PROVE  BothRun(Rearranged(v, op), Rearranged(w, op))
            => Same(Rearranged(v, op), Rearranged(w, op))
<1>1. v.stack = w.stack
  BY DEF Same
<1> QED BY <1>1, SameByItems DEF Rearranged, Need, BothRun

\* The alternative stack.
LEMMA SameByAlt ==
  ASSUME NEW v, NEW w, Same(v, w)
  PROVE  /\ BothRun(ToAlt(v), ToAlt(w)) => Same(ToAlt(v), ToAlt(w))
         /\ BothRun(FromAlt(v), FromAlt(w)) => Same(FromAlt(v), FromAlt(w))
<1>1. v.stack = w.stack /\ v.alt = w.alt /\ Machine(v) /\ Machine(w)
  BY DEF Same
<1>2. BothRun(ToAlt(v), ToAlt(w)) => Same(ToAlt(v), ToAlt(w))
  BY <1>1, SameByItems DEF ToAlt, Need, BothRun, Same, Machine
<1>3. BothRun(FromAlt(v), FromAlt(w)) => Same(FromAlt(v), FromAlt(w))
  BY <1>1, SameByItems DEF FromAlt, Need, BothRun, Same, Machine
<1> QED BY <1>2, <1>3

\* The pushes of numbers and copies.
LEMMA SameByPush ==
  ASSUME NEW v, NEW w, Same(v, w)
  PROVE  /\ Same(PushItem(v, EncodeScriptNum(Len(v.stack))), PushItem(w, EncodeScriptNum(Len(w.stack))))
         /\ LET p == Need(v, 1, PushItem(v, EncodeScriptNum(Len(Last(v.stack)))))
                q == Need(w, 1, PushItem(w, EncodeScriptNum(Len(Last(w.stack)))))
            IN  BothRun(p, q) => Same(p, q)
         /\ LET p == IF v.stack = <<>> THEN v ELSE IfDup(v)
                q == Need(w, 1, IfDup(w))
            IN  BothRun(p, q) => Same(p, q)
<1>1. v.stack = w.stack
  BY DEF Same
<1>2. Same(PushItem(v, EncodeScriptNum(Len(v.stack))), PushItem(w, EncodeScriptNum(Len(w.stack))))
  BY <1>1, SameByItems
<1>3. LET p == Need(v, 1, PushItem(v, EncodeScriptNum(Len(Last(v.stack)))))
          q == Need(w, 1, PushItem(w, EncodeScriptNum(Len(Last(w.stack)))))
      IN  BothRun(p, q) => Same(p, q)
  BY <1>1, SameByItems DEF Need, BothRun
<1>4. LET p == IF v.stack = <<>> THEN v ELSE IfDup(v)
          q == Need(w, 1, IfDup(w))
      IN  BothRun(p, q) => Same(p, q)
  <2>1. w.stack = <<>> => ~(Len(w.stack) >= 1)
    OBVIOUS
  <2> QED BY <1>1, <2>1, SameByItems DEF Need, BothRun, IfDup
<1> QED BY <1>2, <1>3, <1>4

\* check_signature and check_schnorr_signature, when NULLFAIL does not refuse.
LEMMA SameByCheckSig ==
  ASSUME NEW v, NEW w, Same(v, w)
  PROVE  BothRun(CheckSig(v), Schnorr(w)) => Same(CheckSig(v), Schnorr(w))
<1>1. v.stack = w.stack
  BY DEF Same
<1> QED BY <1>1, SameByItems DEF CheckSig, Schnorr, Need, BothRun

\* The two tables of operations, for the operations that both have.
LEMMA RearrangeCovers ==
  DOMAIN Rearrange = 109..114 \cup 117..120 \cup 123..125
  BY DEF Rearrange

Common == {97, 105, 107, 108, 115, 116, 130, 135, 136, 172} \cup 167..170 \cup 176..185

\* _execute_opcode
LEMMA LegacyTable ==
  ASSUME NEW v
  PROVE  /\ ExecuteOpcode(v, 97) = v
         /\ ExecuteOpcode(v, 105) = Verify(v)
         /\ ExecuteOpcode(v, 107) = ToAlt(v)
         /\ ExecuteOpcode(v, 108) = FromAlt(v)
         /\ ExecuteOpcode(v, 115) = (IF v.stack = <<>> THEN v ELSE IfDup(v))
         /\ ExecuteOpcode(v, 116) = PushItem(v, EncodeScriptNum(Len(v.stack)))
         /\ ExecuteOpcode(v, 130) = Need(v, 1, PushItem(v, EncodeScriptNum(Len(Last(v.stack)))))
         /\ ExecuteOpcode(v, 135) = Equal(v)
         /\ ExecuteOpcode(v, 136) = Verify(Equal(v))
         /\ ExecuteOpcode(v, 172) = CheckSig(v)
<1>1. ExecuteOpcode(v, 97) = v
  BY RearrangeCovers DEF ExecuteOpcode, OpIf, OpNotIf, OpElse, OpEndIf
<1>2. ExecuteOpcode(v, 105) = Verify(v)
  BY RearrangeCovers DEF ExecuteOpcode, OpIf, OpNotIf, OpElse, OpEndIf
<1>3. ExecuteOpcode(v, 107) = ToAlt(v)
  BY RearrangeCovers DEF ExecuteOpcode, OpIf, OpNotIf, OpElse, OpEndIf
<1>4. ExecuteOpcode(v, 108) = FromAlt(v)
  BY RearrangeCovers DEF ExecuteOpcode, OpIf, OpNotIf, OpElse, OpEndIf
<1>5. ExecuteOpcode(v, 115) = (IF v.stack = <<>> THEN v ELSE IfDup(v))
  BY RearrangeCovers DEF ExecuteOpcode, OpIf, OpNotIf, OpElse, OpEndIf
<1>6. ExecuteOpcode(v, 116) = PushItem(v, EncodeScriptNum(Len(v.stack)))
  BY RearrangeCovers DEF ExecuteOpcode, OpIf, OpNotIf, OpElse, OpEndIf
<1>7. ExecuteOpcode(v, 130) = Need(v, 1, PushItem(v, EncodeScriptNum(Len(Last(v.stack)))))
  BY RearrangeCovers DEF ExecuteOpcode, OpIf, OpNotIf, OpElse, OpEndIf
<1>8. ExecuteOpcode(v, 135) = Equal(v)
  BY RearrangeCovers DEF ExecuteOpcode, OpIf, OpNotIf, OpElse, OpEndIf
<1>9. ExecuteOpcode(v, 136) = Verify(Equal(v))
  BY RearrangeCovers DEF ExecuteOpcode, OpIf, OpNotIf, OpElse, OpEndIf
<1>10. ExecuteOpcode(v, 172) = CheckSig(v)
  BY RearrangeCovers DEF ExecuteOpcode, OpIf, OpNotIf, OpElse, OpEndIf
<1> QED BY <1>1, <1>2, <1>3, <1>4, <1>5, <1>6, <1>7, <1>8, <1>9, <1>10

\* The conditionals in the legacy engine.
LEMMA LegacyArms ==
  ASSUME NEW v
  PROVE  /\ ExecuteOpcode(v, OpIf) = OpenArm(v, OpIf)
         /\ ExecuteOpcode(v, OpNotIf) = OpenArm(v, OpNotIf)
         /\ ExecuteOpcode(v, OpElse) = ElseArm(v)
         /\ ExecuteOpcode(v, OpEndIf) = CloseArm(v)
<1>1. ExecuteOpcode(v, OpIf) = OpenArm(v, OpIf)
  BY RearrangeCovers DEF ExecuteOpcode, OpIf, OpNotIf, OpElse, OpEndIf
<1>2. ExecuteOpcode(v, OpNotIf) = OpenArm(v, OpNotIf)
  BY RearrangeCovers DEF ExecuteOpcode, OpIf, OpNotIf, OpElse, OpEndIf
<1>3. ExecuteOpcode(v, OpElse) = ElseArm(v)
  BY RearrangeCovers DEF ExecuteOpcode, OpIf, OpNotIf, OpElse, OpEndIf
<1>4. ExecuteOpcode(v, OpEndIf) = CloseArm(v)
  BY RearrangeCovers DEF ExecuteOpcode, OpIf, OpNotIf, OpElse, OpEndIf
<1> QED BY <1>1, <1>2, <1>3, <1>4

\* The rest of _execute_opcode: ranges, and what only one of the two has.
LEMMA LegacyTableOther ==
  ASSUME NEW v, NEW op \in 0..255, op \notin {OpIf, OpNotIf, OpElse, OpEndIf}
  PROVE  /\ op \in 176..185 => ExecuteOpcode(v, op) \in {v, Refuse(v)}
         /\ op \in 167..170 => ExecuteOpcode(v, op) = HashTop(v, op)
         /\ op \in DOMAIN Rearrange => ExecuteOpcode(v, op) = Rearranged(v, op)
         /\ op \notin DOMAIN Rearrange \cup Common \cup {121, 122, 166, 173, 174, 175}
               => ExecuteOpcode(v, op) = Refuse(v)
<1>1. ASSUME op \in 176..185 PROVE ExecuteOpcode(v, op) \in {v, Refuse(v)}
  <2>1. \A f, t : AtLeast(v, f, t) \in {v, Refuse(v)}
    BY DEF AtLeast, Need, Check
  <2>2. Check(~Flag("DISCOURAGE_NOPS"), v) \in {v, Refuse(v)}
    BY DEF Check
  <2>3. CASE op = 177
    BY <2>1, <2>3, RearrangeCovers DEF ExecuteOpcode, OpIf, OpNotIf, OpElse, OpEndIf
  <2>4. CASE op = 178
    BY <2>1, <2>4, RearrangeCovers DEF ExecuteOpcode, OpIf, OpNotIf, OpElse, OpEndIf
  <2>5. CASE op \in {176} \cup 179..185
    <3>1. ExecuteOpcode(v, op) = Check(~Flag("DISCOURAGE_NOPS"), v)
      BY <2>5, RearrangeCovers DEF ExecuteOpcode, OpIf, OpNotIf, OpElse, OpEndIf
    <3> QED BY <2>2, <3>1
  <2> QED BY <1>1, <2>3, <2>4, <2>5
<1>2. ASSUME op \notin DOMAIN Rearrange \cup Common \cup {121, 122, 166, 173, 174, 175}
      PROVE  ExecuteOpcode(v, op) = Refuse(v)
  BY <1>2, RearrangeCovers DEF ExecuteOpcode, OpIf, OpNotIf, OpElse, OpEndIf, Common
<1>3. ASSUME op \in 167..170 PROVE ExecuteOpcode(v, op) = HashTop(v, op)
  <2>1. /\ op \in 166..170 /\ op \notin DOMAIN Rearrange
        /\ op \notin {97, 99, 100, 103, 104, 105, 107, 108, 115, 116, 121, 122, 130, 135, 136}
    BY <1>3, RearrangeCovers
  <2> QED BY <2>1 DEF ExecuteOpcode, OpIf, OpNotIf, OpElse, OpEndIf
<1>4. ASSUME op \in DOMAIN Rearrange PROVE ExecuteOpcode(v, op) = Rearranged(v, op)
  <2>1. op \notin {97, 99, 100, 103, 104, 105, 107, 108, 115, 116, 121, 122, 130, 135, 136, 166,
                  167, 168, 169, 170, 172, 173, 174, 175, 176, 177, 178}
        /\ op \notin 179..185 /\ op \notin 166..170
    BY <1>4, RearrangeCovers
  <2> QED BY <1>4, <2>1 DEF ExecuteOpcode, OpIf, OpNotIf, OpElse, OpEndIf
<1> QED BY <1>1, <1>2, <1>3, <1>4

\* The operations of execute_tapscript.
LEMMA TapTable ==
  ASSUME NEW w
  PROVE  /\ TapOpcode(w, 97) = w
         /\ TapOpcode(w, 105) = Verify(w)
         /\ TapOpcode(w, 107) = ToAlt(w)
         /\ TapOpcode(w, 108) = FromAlt(w)
         /\ TapOpcode(w, 115) = Need(w, 1, IfDup(w))
         /\ TapOpcode(w, 116) = PushItem(w, EncodeScriptNum(Len(w.stack)))
         /\ TapOpcode(w, 130) = Need(w, 1, PushItem(w, EncodeScriptNum(Len(Last(w.stack)))))
         /\ TapOpcode(w, 135) = Equal(w)
         /\ TapOpcode(w, 136) = Verify(Equal(w))
         /\ TapOpcode(w, 172) = Schnorr(w)
<1>1. TapOpcode(w, 97) = w
  BY RearrangeCovers DEF TapOpcode
<1>2. TapOpcode(w, 105) = Verify(w)
  BY RearrangeCovers DEF TapOpcode
<1>3. TapOpcode(w, 107) = ToAlt(w)
  BY RearrangeCovers DEF TapOpcode
<1>4. TapOpcode(w, 108) = FromAlt(w)
  BY RearrangeCovers DEF TapOpcode
<1>5. TapOpcode(w, 115) = Need(w, 1, IfDup(w))
  BY RearrangeCovers DEF TapOpcode
<1>6. TapOpcode(w, 116) = PushItem(w, EncodeScriptNum(Len(w.stack)))
  BY RearrangeCovers DEF TapOpcode
<1>7. TapOpcode(w, 130) = Need(w, 1, PushItem(w, EncodeScriptNum(Len(Last(w.stack)))))
  BY RearrangeCovers DEF TapOpcode
<1>8. TapOpcode(w, 135) = Equal(w)
  BY RearrangeCovers DEF TapOpcode
<1>9. TapOpcode(w, 136) = Verify(Equal(w))
  BY RearrangeCovers DEF TapOpcode
<1>10. TapOpcode(w, 172) = Schnorr(w)
  BY RearrangeCovers DEF TapOpcode
<1> QED BY <1>1, <1>2, <1>3, <1>4, <1>5, <1>6, <1>7, <1>8, <1>9, <1>10

\* The same for execute_tapscript.
LEMMA TapTableOther ==
  ASSUME NEW w, NEW op \in 0..255
  PROVE  /\ op \in 176..185 => TapOpcode(w, op) = w
         /\ op \in 167..170 => TapOpcode(w, op) = HashTop(w, op)
         /\ op \in DOMAIN Rearrange => TapOpcode(w, op) \in {Rearranged(w, op), Refuse(w)}
         /\ op \in {121, 122, 166, 174, 175} => TapOpcode(w, op) = Refuse(w)
<1>1. ASSUME op \in 176..185 PROVE TapOpcode(w, op) = w
  <2>1. op \notin {97, 105, 107, 108, 115, 116, 130, 135, 136, 145, 146, 147, 148, 154, 155, 156,
                  157, 171, 172, 173, 186}
        /\ op \notin DOMAIN Rearrange /\ op \notin 167..170
    BY <1>1, RearrangeCovers
  <2> QED BY <1>1, <2>1 DEF TapOpcode
<1>2. ASSUME op \in 167..170 PROVE TapOpcode(w, op) = HashTop(w, op)
  BY <1>2, RearrangeCovers DEF TapOpcode
<1>3. ASSUME op \in DOMAIN Rearrange
      PROVE  TapOpcode(w, op) \in {Rearranged(w, op), Refuse(w)}
  <2>1. CASE op \in {111, 112, 113, 114, 123}
    <3>1. op \notin {97, 105, 107, 108, 115, 116, 130, 135, 136, 145, 146, 147, 148, 154, 155,
                    156, 157, 171, 172, 173, 186} /\ op \notin 167..170 /\ op \notin 176..185
      BY <2>1
    <3>2. TapOpcode(w, op) = Refuse(w)
      BY <2>1, <3>1 DEF TapOpcode
    <3> QED BY <3>2
  <2>2. CASE op \notin {111, 112, 113, 114, 123}
    <3>1. op \notin {97, 105, 107, 108, 115, 116, 130, 135, 136, 145, 146, 147, 148, 154, 155,
                    156, 157, 171, 172, 173, 186} /\ op \notin 167..170 /\ op \notin 176..185
      BY <1>3, RearrangeCovers
    <3>2. TapOpcode(w, op) = Rearranged(w, op)
      BY <1>3, <2>2, <3>1 DEF TapOpcode
    <3> QED BY <3>2
  <2> QED BY <2>1, <2>2
<1>4. ASSUME op \in {121, 122, 166, 174, 175} PROVE TapOpcode(w, op) = Refuse(w)
  <2>1. op \notin {97, 105, 107, 108, 115, 116, 130, 135, 136, 145, 146, 147, 148, 154, 155, 156,
                  157, 171, 172, 173, 186}
        /\ op \notin DOMAIN Rearrange /\ op \notin 167..170 /\ op \notin 176..185
    BY <1>4, RearrangeCovers
  <2> QED BY <2>1 DEF TapOpcode
<1> QED BY <1>1, <1>2, <1>3, <1>4

\* They agree where both go on, but for the VERIFY forms of the signature
\* checks.
LEMMA SameByOpcode ==
  ASSUME NEW v, NEW w, Same(v, w), NEW op \in 0..255,
         op \notin {OpIf, OpNotIf, OpElse, OpEndIf}, op # 173,
         BothRun(ExecuteOpcode(v, op), TapOpcode(w, op))
  PROVE  Same(ExecuteOpcode(v, op), TapOpcode(w, op))
<1>1. Machine(v) /\ Machine(w) /\ Refuse(v).res = "refused" /\ Refuse(w).res = "refused"
  BY SameByItems DEF Same
<1>2. CASE op = 97
  BY <1>2, LegacyTable, TapTable
<1>3. CASE op = 107
  BY <1>3, SameByAlt, LegacyTable, TapTable
<1>4. CASE op = 108
  BY <1>4, SameByAlt, LegacyTable, TapTable
<1>5. CASE op = 115
  <2>1. /\ ExecuteOpcode(v, op) = (IF v.stack = <<>> THEN v ELSE IfDup(v))
        /\ TapOpcode(w, op) = Need(w, 1, IfDup(w))
    BY <1>5, LegacyTable, TapTable
  <2>2. LET p == IF v.stack = <<>> THEN v ELSE IfDup(v)
            q == Need(w, 1, IfDup(w))
        IN  BothRun(p, q) => Same(p, q)
    BY SameByPush
  <2>3. CASE v.stack = <<>>
    BY <2>1, <2>2, <2>3
  <2>4. CASE v.stack # <<>>
    BY <2>1, <2>2, <2>4
  <2> QED BY <2>3, <2>4
<1>6. CASE op = 116
  BY <1>6, SameByPush, LegacyTable, TapTable
<1>7. CASE op = 130
  BY <1>7, SameByPush, LegacyTable, TapTable
<1>8. CASE op = 105
  BY <1>8, SameByVerify, LegacyTable, TapTable
<1>9. CASE op = 135
  BY <1>9, SameByEqual, LegacyTable, TapTable
<1>10. CASE op = 172
  BY <1>10, SameByCheckSig, LegacyTable, TapTable
<1>11. CASE op = 136
  <2>1. /\ ExecuteOpcode(v, op) = Verify(Equal(v)) /\ TapOpcode(w, op) = Verify(Equal(w))
        /\ BothRun(Verify(Equal(v)), Verify(Equal(w)))
    BY <1>11, LegacyTable, TapTable
  <2>2. Machine(Equal(v)) /\ Machine(Equal(w))
    BY <1>1, KeptByEqual DEF Kept
  <2>3. BothRun(Equal(v), Equal(w))
    BY <2>1, <2>2, KeptByVerify DEF BothRun
  <2> QED BY <2>1, <2>3, SameByEqual, SameByVerify
<1>12. CASE op \in 167..170
  BY <1>12, SameByHash, LegacyTableOther, TapTableOther
<1>13. CASE op \in 176..185
  BY <1>1, <1>13, LegacyTableOther, TapTableOther DEF BothRun
<1>14. CASE op \in DOMAIN Rearrange
  <2>1. /\ ExecuteOpcode(v, op) = Rearranged(v, op)
        /\ TapOpcode(w, op) \in {Rearranged(w, op), Refuse(w)}
    BY <1>14, LegacyTableOther, TapTableOther
  <2>2. TapOpcode(w, op) # Refuse(w)
    BY <1>1 DEF BothRun
  <2> QED BY <2>1, <2>2, SameByRearranged
<1>15. CASE op \notin DOMAIN Rearrange \cup Common
  <2>1. ExecuteOpcode(v, op) = Refuse(v) \/ TapOpcode(w, op) = Refuse(w)
    BY <1>15, LegacyTableOther, TapTableOther
  <2> QED BY <1>1, <2>1 DEF BothRun
<1> QED BY <1>2, <1>3, <1>4, <1>5, <1>6, <1>7, <1>8, <1>9, <1>10, <1>11, <1>12, <1>13, <1>14,
           <1>15 DEF Common

-----------------------------------------------------------------------------
\* A list with one member changed, and a list without its last.
LEMMA ChangedOne ==
  ASSUME NEW S, NEW q \in Seq(S), NEW n \in 1..Len(q), NEW x \in S
  PROVE  /\ [q EXCEPT ![n] = x] \in Seq(S)
         /\ Len([q EXCEPT ![n] = x]) = Len(q)
         /\ [q EXCEPT ![n] = x][n] = x
         /\ \A i \in 1..Len(q) : i # n => [q EXCEPT ![n] = x][i] = q[i]
  OBVIOUS

\* A list without its last member.
LEMMA FrontOf ==
  ASSUME NEW S, NEW q \in Seq(S), Len(q) >= 1
  PROVE  /\ Front(q) \in Seq(S) /\ Len(Front(q)) = Len(q) - 1
         /\ \A i \in 1..(Len(q) - 1) : Front(q)[i] = q[i]
<1>1. PICK k \in Nat : k = Len(q) - 1
  OBVIOUS
<1>2. \A i \in 1..k : q[i] \in S
  BY <1>1
<1>3. /\ SubSeq(q, 1, k) \in Seq(S)
      /\ Len(SubSeq(q, 1, k)) = IF 1 <= k THEN k - 1 + 1 ELSE 0
      /\ \A i \in 1..(k - 1 + 1) : SubSeq(q, 1, k)[i] = q[1 + i - 1]
  BY <1>2, SubSeqProperties
<1>4. Len(SubSeq(q, 1, k)) = k /\ \A i \in 1..k : SubSeq(q, 1, k)[i] = q[i]
  BY <1>3
<1> QED BY <1>1, <1>3, <1>4 DEF Front

\* Everything is executed exactly where every arm is taken.
LEMMA InArmsExecutes ==
  ASSUME NEW conds, NEW open, InArms(conds, open)
  PROVE  (\A i \in 1..Len(conds) : conds[i]) <=> Taken(open)
<1>1. Len(open) \in Nat /\ Len(conds) = Len(open)
  BY DEF InArms
<1>2. ASSUME \A i \in 1..Len(conds) : conds[i] PROVE Taken(open)
  BY <1>1, <1>2 DEF InArms, Taken
<1>3. ASSUME Taken(open) PROVE \A i \in 1..Len(conds) : conds[i]
  <2> SUFFICES ASSUME NEW i \in 1..Len(open) PROVE conds[i]
    BY <1>1
  <2>1. \A k \in 1..i : k \in 1..Len(open)
    BY <1>1
  <2> QED BY <1>3, <2>1 DEF InArms, Taken
<1> QED BY <1>2, <1>3

\* A conditional is opened, its arm taken when what is around it is and c is.
LEMMA InArmsOpens ==
  ASSUME NEW conds, NEW open, InArms(conds, open), NEW c \in BOOLEAN, NEW t \in BOOLEAN,
         NEW n \in Nat, c <=> Taken(open) /\ t
  PROVE  InArms(Append(conds, c), Append(open, [taken |-> t, elses |-> n]))
<1> DEFINE arm == [taken |-> t, elses |-> n]
           C == Append(conds, c)
           O == Append(open, arm)
           m == Len(open)
<1>1. arm \in Arm /\ arm.taken = t
  BY DEF Arm
<1> HIDE DEF arm
<1>2. m \in Nat /\ Len(conds) = m
  BY DEF InArms
<1>3. /\ C \in Seq(BOOLEAN) /\ Len(C) = m + 1 /\ C[m + 1] = c
      /\ \A i \in 1..m : C[i] = conds[i]
  BY <1>2, AppendProperties DEF InArms
<1>4. /\ O \in Seq(Arm) /\ Len(O) = m + 1 /\ O[m + 1] = arm
      /\ \A i \in 1..m : O[i] = open[i]
  BY <1>1, <1>2, AppendProperties DEF InArms
<1> HIDE DEF C, O
<1>5. ASSUME NEW i \in 1..(m + 1) PROVE C[i] <=> \A k \in 1..i : O[k].taken
  <2>1. CASE i \in 1..m
    <3>1. \A k \in 1..i : O[k] = open[k]
      BY <1>2, <1>4, <2>1
    <3> QED BY <1>3, <2>1, <3>1 DEF InArms
  <2>2. CASE i = m + 1
    <3>1. (\A k \in 1..i : O[k].taken) <=> (\A k \in 1..m : open[k].taken) /\ t
      BY <1>1, <1>2, <1>4, <2>2
    <3> QED BY <1>3, <2>2, <3>1 DEF Taken
  <2> QED BY <1>2, <2>1, <2>2
<1> QED BY <1>3, <1>4, <1>5 DEF InArms, arm, C, O

\* The arm is changed.
LEMMA InArmsTurns ==
  ASSUME NEW conds, NEW open, InArms(conds, open), open # <<>>,
         NEW c \in BOOLEAN,
         c <=> ~conds[Len(conds)] /\ \A i \in 1..(Len(conds) - 1) : conds[i]
  PROVE  InArms([conds EXCEPT ![Len(conds)] = c],
                [open EXCEPT ![Len(open)] = [taken |-> ~@.taken, elses |-> @.elses + 1]])
<1> DEFINE n == Len(open)
           arm == [taken |-> ~open[n].taken, elses |-> open[n].elses + 1]
           C == [conds EXCEPT ![n] = c]
           O == [open EXCEPT ![n] = arm]
<1>1. n \in Nat /\ n >= 1 /\ Len(conds) = n /\ open \in Seq(Arm) /\ conds \in Seq(BOOLEAN)
  BY EmptySeq DEF InArms
<1>2. open[n] \in Arm
  BY <1>1
<1>3. arm \in Arm /\ arm.taken = ~open[n].taken /\ open[n].taken \in BOOLEAN
  BY <1>2 DEF Arm
<1>4. O = [open EXCEPT ![Len(open)] = [taken |-> ~@.taken, elses |-> @.elses + 1]]
  OBVIOUS
<1> HIDE DEF arm
<1>5. /\ C \in Seq(BOOLEAN) /\ Len(C) = n /\ C[n] = c
      /\ \A i \in 1..n : i # n => C[i] = conds[i]
  BY <1>1, ChangedOne
<1>6. /\ O \in Seq(Arm) /\ Len(O) = n /\ O[n] = arm
      /\ \A i \in 1..n : i # n => O[i] = open[i]
  BY <1>1, <1>3, ChangedOne
<1> HIDE DEF C, O
<1>7. ASSUME NEW i \in 1..n PROVE C[i] <=> \A k \in 1..i : O[k].taken
  <2>1. CASE i # n
    <3>1. \A k \in 1..i : O[k] = open[k]
      BY <1>1, <1>6, <2>1
    <3> QED BY <1>5, <2>1, <3>1 DEF InArms
  <2>2. CASE i = n
    <3>1. conds[n] <=> (\A k \in 1..(n - 1) : open[k].taken) /\ open[n].taken
      BY <1>1 DEF InArms
    <3>2. (\A k \in 1..i : O[k].taken) <=> (\A k \in 1..(n - 1) : open[k].taken) /\ ~open[n].taken
      <4>1. \A k \in 1..(n - 1) : O[k] = open[k] /\ k \in 1..i
        BY <1>1, <1>6, <2>2
      <4>2. O[n].taken <=> ~open[n].taken
        BY <1>3, <1>6
      <4>3. \A k \in 1..i : k = n \/ k \in 1..(n - 1)
        BY <1>1, <2>2
      <4>4. n \in 1..i
        BY <1>1, <2>2
      <4> QED BY <4>1, <4>2, <4>3, <4>4
    <3>3. (\A k \in 1..(n - 1) : conds[k]) <=> \A k \in 1..(n - 1) : open[k].taken
      <4>1. \A k \in 1..(n - 1) : k \in 1..n /\ k \in 1..k /\ \A j \in 1..k : j \in 1..(n - 1)
        BY <1>1
      <4> QED BY <4>1 DEF InArms
    <3>4. C[i] = c /\ (c <=> ~conds[n] /\ \A k \in 1..(n - 1) : conds[k])
      BY <1>1, <1>5, <2>2
    <3> QED BY <3>1, <3>2, <3>3, <3>4
  <2> QED BY <2>1, <2>2
<1>8. InArms(C, O)
  BY <1>5, <1>6, <1>7 DEF InArms
<1> QED BY <1>1, <1>4, <1>8 DEF C

\* A conditional is closed.
LEMMA InArmsCloses ==
  ASSUME NEW conds, NEW open, InArms(conds, open), open # <<>>
  PROVE  InArms(Front(conds), Front(open))
<1> DEFINE n == Len(open)
<1>1. n \in Nat /\ n >= 1 /\ Len(conds) = n /\ open \in Seq(Arm) /\ conds \in Seq(BOOLEAN)
  BY EmptySeq DEF InArms
<1>2. /\ Front(conds) \in Seq(BOOLEAN) /\ Len(Front(conds)) = n - 1
      /\ \A i \in 1..(n - 1) : Front(conds)[i] = conds[i]
  BY <1>1, FrontOf
<1>3. /\ Front(open) \in Seq(Arm) /\ Len(Front(open)) = n - 1
      /\ \A i \in 1..(n - 1) : Front(open)[i] = open[i]
  BY <1>1, FrontOf
<1>4. ASSUME NEW i \in 1..(n - 1)
      PROVE  Front(conds)[i] <=> \A k \in 1..i : Front(open)[k].taken
  <2>1. i \in 1..n /\ \A k \in 1..i : k \in 1..(n - 1)
    BY <1>1
  <2> QED BY <1>1, <1>2, <1>3, <2>1 DEF InArms
<1> QED BY <1>1, <1>2, <1>3, <1>4 DEF InArms

Conditionals == {OpIf, OpNotIf, OpElse, OpEndIf}

\* A byte that is no conditional, or that belongs to a push, leaves the
\* conditions of execute_tapscript alone.
LEMMA TapPlain ==
  ASSUME NEW vm, Machine(vm), vm.res = "running", NEW b \in 0..255,
         vm.mode # "op" \/ b \notin Conditionals
  PROVE  LET out == TapReads(vm, b)
         IN  Machine(out) /\ out.conds = vm.conds /\ out.res \in {"running", "refused", "success"}
<1> DEFINE Fine(out) == /\ Machine(out) /\ out.conds = vm.conds
                        /\ out.res \in {"running", "refused", "success"}
<1>1. ASSUME NEW out, Kept(vm, out) \/ Pushing(vm, out) PROVE Fine(out)
  BY <1>1 DEF Kept, Pushing
<1>2. CASE vm.mode # "op"
  <2>1. TapReads(vm, b) = ReadOn(vm, b, TRUE)
    BY <1>2 DEF TapReads
  <2>2. Pushing(vm, ReadOn(vm, b, TRUE))
    BY PushingReads
  <2> QED BY <1>1, <2>1, <2>2
<1>3. CASE vm.mode = "op"
  <2>1. Fine(Refuse(vm)) /\ Fine(vm)
    BY <1>1, KeptByItems
  <2>2. Fine(StartData(vm, b, TRUE)) /\ Fine(StartLength(vm, b)) /\ Fine(Pushed(vm, <<b - 80>>, TRUE))
    BY <1>1, PushingReads
  <2>3. Fine([vm EXCEPT !.res = "success"])
    BY DEF Machine
  <2>4. Fine(TapOpcode([vm EXCEPT !.ops = @ + 1], b))
    <3>1. PICK mid : mid = [vm EXCEPT !.ops = @ + 1]
      OBVIOUS
    <3>2. Machine(mid) /\ mid.conds = vm.conds /\ mid.res = "running"
      BY <3>1 DEF Machine
    <3>3. Kept(mid, TapOpcode(mid, b))
      BY <1>3, <3>2, KeptByOpcode DEF Conditionals
    <3> QED BY <3>1, <3>2, <3>3 DEF Kept
  <2> HIDE DEF Fine
  <2>5. TapReads(vm, b) \in {Refuse(vm), StartData(vm, b, TRUE), StartLength(vm, b),
                             Pushed(vm, <<b - 80>>, TRUE), vm, [vm EXCEPT !.res = "success"],
                             TapOpcode([vm EXCEPT !.ops = @ + 1], b)}
    BY <1>3 DEF TapReads, Conditionals
  <2>6. Fine(TapReads(vm, b))
    BY <2>1, <2>2, <2>3, <2>4, <2>5
  <2> QED BY <2>6 DEF Fine
<1> QED BY <1>2, <1>3

\* What OP_IF, OP_ELSE and OP_ENDIF do to the conditions, unless they refuse.
LEMMA TapIfDoes ==
  ASSUME NEW vm, Machine(vm), NEW op, NEW out, out = TapIf(vm, op), out # Refuse(vm)
  PROVE  /\ Machine(out) /\ out.res = vm.res /\ out.mode = vm.mode /\ out.alt = vm.alt
         /\ \E c \in BOOLEAN : /\ c <=> Executing(vm) /\ Condition(vm, op)
                               /\ out.conds = Append(vm.conds, c)
         /\ Executing(vm) => /\ Len(vm.stack) >= 1 /\ MinimalIf(vm)
                             /\ out.stack = Replace(vm, 1, <<>>).stack
         /\ ~Executing(vm) => out.stack = vm.stack
<1>1. CASE ~Executing(vm)
  <2>1. out = [vm EXCEPT !.conds = Append(@, FALSE)]
    BY <1>1 DEF TapIf
  <2> QED BY <1>1, <2>1 DEF Machine
<1>2. CASE Executing(vm)
  <2>1. PICK mid : mid = Replace(vm, 1, <<>>)
    OBVIOUS
  <2>2. Machine(mid) /\ mid.res = vm.res /\ mid.mode = vm.mode /\ mid.alt = vm.alt
        /\ mid.conds = vm.conds
    BY <2>1, KeptByItems DEF Kept
  <2>3. PICK c \in BOOLEAN : c = Condition(vm, op)
    BY DEF Condition
  <2>4. /\ Len(vm.stack) >= 1 /\ MinimalIf(vm)
        /\ out = [mid EXCEPT !.conds = Append(@, c)]
    BY <1>2, <2>1, <2>3 DEF TapIf, Need
  <2>5. Machine(out) /\ out.res = vm.res /\ out.mode = vm.mode /\ out.alt = vm.alt
        /\ out.conds = Append(vm.conds, c) /\ out.stack = mid.stack
    BY <2>2, <2>4 DEF Machine
  <2> QED BY <1>2, <2>1, <2>3, <2>4, <2>5
<1> QED BY <1>1, <1>2

\* What OP_ELSE does in execute_tapscript, unless it refuses.
LEMMA TapElseDoes ==
  ASSUME NEW vm, Machine(vm), vm.conds \in Seq(BOOLEAN), NEW out, out = TapElse(vm)
  PROVE  \/ out = Refuse(vm)
         \/ /\ Machine(out) /\ out.res = vm.res /\ out.mode = vm.mode
            /\ out.stack = vm.stack /\ out.alt = vm.alt /\ vm.conds # <<>>
            /\ \E c \in BOOLEAN :
                  /\ c <=> /\ ~vm.conds[Len(vm.conds)]
                           /\ \A i \in 1..(Len(vm.conds) - 1) : vm.conds[i]
                  /\ out.conds = [vm.conds EXCEPT ![Len(vm.conds)] = c]
<1>1. CASE vm.conds = <<>>
  BY <1>1 DEF TapElse
<1>2. CASE vm.conds # <<>>
  <2> DEFINE n == Len(vm.conds)
             turned == ~vm.conds[n] /\ \A i \in 1..(n - 1) : vm.conds[i]
  <2>1. PICK c \in BOOLEAN : c = turned
    OBVIOUS
  <2>2. out = [vm EXCEPT !.conds = [vm.conds EXCEPT ![n] = c]]
    BY <1>2, <2>1 DEF TapElse, Machine
  <2>3. Machine(out) /\ out.res = vm.res /\ out.mode = vm.mode
        /\ out.stack = vm.stack /\ out.alt = vm.alt
        /\ out.conds = [vm.conds EXCEPT ![n] = c]
    BY <2>2 DEF Machine
  <2> QED BY <1>2, <2>1, <2>3
<1> QED BY <1>1, <1>2

\* What OP_ENDIF does in both, unless it refuses.
LEMMA CloseArmDoes ==
  ASSUME NEW vm, Machine(vm), NEW out, out = CloseArm(vm)
  PROVE  \/ out = Refuse(vm)
         \/ /\ Machine(out) /\ out.res = vm.res /\ out.mode = vm.mode /\ out.depth = vm.depth
            /\ out.stack = vm.stack /\ out.alt = vm.alt /\ vm.conds # <<>>
            /\ out.conds = Front(vm.conds)
  BY DEF CloseArm, Machine

\* How a reader counts the conditionals.
LEMMA CountedIs ==
  ASSUME NEW open, NEW b \in 0..255
  PROVE  /\ tap.mode # "op" \/ b \notin Conditionals => Counted(open, b) = open
         /\ tap.mode = "op" =>
              /\ b \in {OpIf, OpNotIf} => Counted(open, b) =
                   Append(open, [taken |-> Taken(open) /\ tap.stack # <<>> /\ Condition(tap, b),
                                 elses |-> 0])
              /\ b = OpElse /\ open # <<>> => Counted(open, b) =
                   [open EXCEPT ![Len(open)] = [taken |-> ~@.taken, elses |-> @.elses + 1]]
              /\ b = OpEndIf /\ open # <<>> => Counted(open, b) = Front(open)
<1>1. tap.mode # "op" \/ b \notin Conditionals => Counted(open, b) = open
  BY DEF Counted, Conditionals
<1>2. ASSUME tap.mode = "op", b \in {OpIf, OpNotIf}
      PROVE  Counted(open, b) =
                 Append(open, [taken |-> Taken(open) /\ tap.stack # <<>> /\ Condition(tap, b),
                               elses |-> 0])
  BY <1>2 DEF Counted, OpIf, OpNotIf, OpElse, OpEndIf
<1>3. ASSUME tap.mode = "op", b = OpElse, open # <<>>
      PROVE  Counted(open, b) =
                 [open EXCEPT ![Len(open)] = [taken |-> ~@.taken, elses |-> @.elses + 1]]
  BY <1>3 DEF Counted, OpIf, OpNotIf, OpElse, OpEndIf
<1>4. ASSUME tap.mode = "op", b = OpEndIf, open # <<>>
      PROVE  Counted(open, b) = Front(open)
  BY <1>4 DEF Counted, OpIf, OpNotIf, OpElse, OpEndIf
<1> QED BY <1>1, <1>2, <1>3, <1>4

\* A byte more: execute_tapscript and the reader stay together.
LEMMA TapStep ==
  ASSUME Machine(tap), ArmsFollowed, NEW b \in 0..255, Feed(b)
  PROVE  /\ Machine(tap') /\ ArmsFollowed'
         /\ tap'.res = "running" => tap.res = "running"
         /\ tap'.res = "accepted" => tap.res = "accepted"
<1>1. tap' = TapReads(tap, b) /\ arms'.open = Counted(arms.open, b)
  BY DEF Feed
<1>2. CASE tap.res # "running"
  <2>1. tap' = tap
    BY <1>1, <1>2 DEF TapReads
  <2> QED BY <1>2, <2>1 DEF ArmsFollowed
<1>3. CASE tap.res = "running" /\ (tap.mode # "op" \/ b \notin Conditionals)
  <2>1. /\ Machine(tap') /\ tap'.conds = tap.conds
        /\ tap'.res \in {"running", "refused", "success"}
    BY <1>1, <1>3, TapPlain
  <2>2. arms'.open = arms.open
    BY <1>1, <1>3, CountedIs
  <2> QED BY <1>3, <2>1, <2>2 DEF ArmsFollowed
<1>4. CASE tap.res = "running" /\ tap.mode = "op" /\ b \in Conditionals
  <2>1. InArms(tap.conds, arms.open) /\ tap.conds \in Seq(BOOLEAN)
    BY <1>4 DEF ArmsFollowed, InArms
  <2>2. Machine(Refuse(tap)) /\ Refuse(tap).res = "refused"
    BY KeptByItems DEF Kept
  <2>3. CASE tap' = Refuse(tap)
    BY <1>4, <2>2, <2>3 DEF ArmsFollowed
  <2>4. ASSUME Machine(tap'), tap'.res = "running", InArms(tap'.conds, arms'.open)
        PROVE  /\ Machine(tap') /\ ArmsFollowed'
               /\ tap'.res = "running" => tap.res = "running"
               /\ tap'.res = "accepted" => tap.res = "accepted"
    BY <1>4, <2>4 DEF ArmsFollowed
  <2>5. CASE b \in {OpIf, OpNotIf} /\ tap' # Refuse(tap)
    <3>1. tap' = TapIf(tap, b)
      BY <1>1, <1>4, <2>5 DEF TapReads, OpIf, OpNotIf, OpElse, OpEndIf
    <3>2. PICK t \in BOOLEAN : t = (Taken(arms.open) /\ tap.stack # <<>> /\ Condition(tap, b))
      OBVIOUS
    <3>3. arms'.open = Append(arms.open, [taken |-> t, elses |-> 0])
      BY <1>1, <1>4, <2>5, <3>2, CountedIs
    <3>4. Executing(tap) <=> Taken(arms.open)
      BY <2>1, InArmsExecutes DEF Executing
    <3>5. /\ Machine(tap') /\ tap'.res = tap.res
          /\ \E c \in BOOLEAN : /\ c <=> Executing(tap) /\ Condition(tap, b)
                                /\ tap'.conds = Append(tap.conds, c)
          /\ Executing(tap) => Len(tap.stack) >= 1
      BY <2>5, <3>1, TapIfDoes
    <3>6. PICK c \in BOOLEAN : /\ c <=> Executing(tap) /\ Condition(tap, b)
                               /\ tap'.conds = Append(tap.conds, c)
      BY <3>5
    <3>7. c <=> Taken(arms.open) /\ t
      <4>1. Executing(tap) => tap.stack # <<>>
        BY <3>5
      <4> QED BY <3>2, <3>4, <3>6, <4>1
    <3>8. InArms(Append(tap.conds, c), Append(arms.open, [taken |-> t, elses |-> 0]))
      BY <2>1, <3>7, InArmsOpens
    <3> QED BY <1>4, <2>4, <3>3, <3>5, <3>6, <3>8
  <2>6. CASE b = OpElse /\ tap' # Refuse(tap)
    <3>1. tap' = TapElse(tap)
      BY <1>1, <1>4, <2>6 DEF TapReads, OpIf, OpNotIf, OpElse, OpEndIf
    <3>2. /\ Machine(tap') /\ tap'.res = tap.res /\ tap.conds # <<>>
          /\ \E c \in BOOLEAN :
                  /\ c <=> /\ ~tap.conds[Len(tap.conds)]
                           /\ \A i \in 1..(Len(tap.conds) - 1) : tap.conds[i]
                  /\ tap'.conds = [tap.conds EXCEPT ![Len(tap.conds)] = c]
      BY <2>1, <2>6, <3>1, TapElseDoes
    <3>3. PICK c \in BOOLEAN :
                  /\ c <=> /\ ~tap.conds[Len(tap.conds)]
                           /\ \A i \in 1..(Len(tap.conds) - 1) : tap.conds[i]
                  /\ tap'.conds = [tap.conds EXCEPT ![Len(tap.conds)] = c]
      BY <3>2
    <3>4. arms.open # <<>>
      BY <2>1, <3>2, EmptySeq DEF InArms
    <3>5. arms'.open = [arms.open EXCEPT ![Len(arms.open)] =
                          [taken |-> ~@.taken, elses |-> @.elses + 1]]
      BY <1>1, <1>4, <2>6, <3>4, CountedIs
    <3>6. InArms([tap.conds EXCEPT ![Len(tap.conds)] = c],
                 [arms.open EXCEPT ![Len(arms.open)] = [taken |-> ~@.taken, elses |-> @.elses + 1]])
      BY <2>1, <3>3, <3>4, InArmsTurns
    <3> QED BY <1>4, <2>4, <3>2, <3>3, <3>5, <3>6
  <2>7. CASE b = OpEndIf /\ tap' # Refuse(tap)
    <3>1. tap' = CloseArm(tap)
      BY <1>1, <1>4, <2>7 DEF TapReads, OpIf, OpNotIf, OpElse, OpEndIf
    <3>2. Machine(tap') /\ tap'.res = tap.res /\ tap.conds # <<>> /\ tap'.conds = Front(tap.conds)
      BY <2>7, <3>1, CloseArmDoes
    <3>3. arms.open # <<>>
      BY <2>1, <3>2, EmptySeq DEF InArms
    <3>4. arms'.open = Front(arms.open)
      BY <1>1, <1>4, <2>7, <3>3, CountedIs
    <3> QED BY <1>4, <2>1, <2>4, <3>2, <3>3, <3>4, InArmsCloses
  <2> QED BY <1>4, <2>3, <2>5, <2>6, <2>7 DEF Conditionals
<1> QED BY <1>2, <1>3, <1>4

\* An opcode leaves a machine.
LEMMA OpcodeStays ==
  ASSUME NEW mid, Machine(mid), NEW b \in 0..255
  PROVE  Machine(ExecuteOpcode(mid, b)) /\ ExecuteOpcode(mid, b).res \in {mid.res, "refused"}
<1> DEFINE Fine(out) == Machine(out) /\ out.res \in {mid.res, "refused"}
<1>1. CASE b \notin Conditionals
  BY <1>1, KeptByOpcode DEF Conditionals, Kept
<1>2. CASE b \in {OpIf, OpNotIf}
  <2>1. ExecuteOpcode(mid, b) = OpenArm(mid, b)
    BY <1>2, LegacyArms
  <2>2. PICK less : less = Replace(mid, 1, <<>>)
    OBVIOUS
  <2>3. Machine(less) /\ less.res = mid.res
    BY <2>2, KeptByItems DEF Kept
  <2>4. Fine(OpenArm(mid, b))
    BY <2>2, <2>3 DEF OpenArm, Need, Refuse, Machine
  <2> QED BY <2>1, <2>4
<1>3. CASE b \in {OpElse, OpEndIf}
  <2>1. ExecuteOpcode(mid, b) \in {ElseArm(mid), CloseArm(mid)}
    BY <1>3, LegacyArms
  <2>2. Fine(ElseArm(mid)) /\ Fine(CloseArm(mid))
    BY DEF ElseArm, CloseArm, Refuse, Machine
  <2> HIDE DEF Fine
  <2>3. Fine(ExecuteOpcode(mid, b))
    BY <2>1, <2>2
  <2> QED BY <2>3 DEF Fine
<1> QED BY <1>1, <1>2, <1>3 DEF Conditionals

\* The legacy engine stays a machine, whatever it reads.
LEMMA LegacyStays ==
  ASSUME NEW vm, Machine(vm), NEW b \in 0..255
  PROVE  Machine(LegacyReads(vm, b)) /\ (LegacyReads(vm, b).res = "running" => vm.res = "running")
<1> DEFINE Fine(out) == Machine(out) /\ out.res \in {vm.res, "refused"}
<1>1. ASSUME NEW out, Kept(vm, out) \/ Pushing(vm, out) PROVE Fine(out)
  BY <1>1 DEF Kept, Pushing
<1>2. Fine(vm) /\ Fine(Refuse(vm)) /\ \A d : Fine(PushItem(vm, d))
  BY <1>1, KeptByItems
<1>3. Fine(ReadOn(vm, b, FALSE)) /\ Fine(StartLength(vm, b))
  BY <1>1, PushingReads
<1>4. Fine(SkipToEndIf(vm, b))
  BY DEF SkipToEndIf, Machine
<1>5. ASSUME NEW mid, Machine(mid), mid.res = vm.res PROVE Fine(ExecuteOpcode(mid, b))
  BY <1>5, OpcodeStays
<1>6. LET done == ExecuteOpcode([vm EXCEPT !.ops = @ + 1], b)
      IN  Fine(done) /\ Fine(Check(WithinLimits(done), done))
  <2>1. PICK mid : mid = [vm EXCEPT !.ops = @ + 1]
    OBVIOUS
  <2>2. Machine(mid) /\ mid.res = vm.res
    BY <2>1 DEF Machine
  <2>3. PICK done : done = ExecuteOpcode(mid, b)
    OBVIOUS
  <2>4. Fine(done) /\ Fine(Refuse(done))
    BY <1>5, <2>2, <2>3, KeptByItems DEF Kept
  <2> HIDE DEF Fine
  <2> QED BY <2>1, <2>3, <2>4 DEF Check
<1> HIDE DEF Fine
<1>7. Fine(LegacyReads(vm, b))
  <2>1. CASE vm.res # "running" \/ vm.mode \in {"length", "data", "skip"}
    BY <1>2, <1>3, <1>4, <2>1 DEF LegacyReads
  <2>2. CASE vm.res = "running" /\ vm.mode \notin {"length", "data", "skip"}
    <3>1. PICK done : done = ExecuteOpcode([vm EXCEPT !.ops = @ + 1], b)
      OBVIOUS
    <3>2. LegacyReads(vm, b) \in {StartLength(vm, b), PushItem(vm, <<>>), PushItem(vm, <<129>>),
                                  PushItem(vm, <<b - 80>>), Refuse(vm), done,
                                  Check(WithinLimits(done), done)}
      BY <2>2, <3>1 DEF LegacyReads
    <3> QED BY <1>2, <1>3, <1>6, <3>1, <3>2
  <2> QED BY <2>1, <2>2
<1> QED BY <1>7 DEF Fine

\* What holds of the two interpreters and the reader at every byte.
ScriptInv ==
    /\ Machine(legacy) /\ Machine(tap)
    /\ ArmsFollowed
    /\ tap.res = "accepted" => legacy.res # "running" /\ AcceptedIsClean

\* The invariant holds before the first byte.
LEMMA ScriptInvInit == ScriptInit => ScriptInv
<1> SUFFICES ASSUME ScriptInit PROVE ScriptInv
  OBVIOUS
<1>1. PICK s \in InitialStacks : legacy = StartLegacy(s) /\ tap = Start(s)
  BY DEF ScriptInit
<1>2. Machine(tap) /\ tap.conds = <<>> /\ tap.res \in {"running", "refused"}
  BY <1>1 DEF Start, Machine
<1>3. Machine(legacy)
  BY <1>1 DEF StartLegacy, Start, Machine
<1>4. InArms(<<>>, <<>>)
  BY EmptySeq DEF InArms
<1> QED BY <1>2, <1>3, <1>4 DEF ScriptInit, ScriptInv, ArmsFollowed

\* Every byte, and the end of the script, preserve it.
LEMMA ScriptInvStep ==
  ASSUME ScriptInv, [ScriptNext(0..255)]_scriptVars
  PROVE  ScriptInv'
<1>1. Machine(legacy) /\ Machine(tap) /\ ArmsFollowed
  BY DEF ScriptInv
<1>2. ASSUME NEW b \in 0..255, Feed(b) PROVE ScriptInv'
  <2>1. /\ Machine(tap') /\ ArmsFollowed'
        /\ tap'.res = "accepted" => tap.res = "accepted"
    BY <1>1, <1>2, TapStep
  <2>2. Machine(legacy')
    BY <1>1, <1>2, LegacyStays DEF Feed
  <2>3. tap.res # "accepted"
    BY <1>2 DEF ScriptInv, Feed
  <2> QED BY <2>1, <2>2, <2>3 DEF ScriptInv
<1>3. ASSUME EndScript PROVE ScriptInv'
  <2>1. legacy' = LegacyEnds(legacy) /\ tap' = TapEnds(tap) /\ arms' = arms
    BY <1>3 DEF EndScript
  <2>2. Machine(legacy') /\ legacy'.res # "running"
    BY <1>1, <2>1 DEF LegacyEnds, Machine
  <2>3. /\ Machine(tap') /\ tap'.res # "running" /\ tap'.stack = tap.stack /\ tap'.alt = tap.alt
        /\ tap'.res = "accepted" =>
               \/ tap.res = "accepted"
               \/ /\ tap.res = "running"
                  /\ tap.conds = <<>> /\ tap.stack # <<>> /\ TapWithinLimits(tap)
                  /\ CastToBool(Last(tap.stack))
    BY <1>1, <2>1 DEF TapEnds, Machine
  <2>5. tap.res # "accepted"
    BY <1>3 DEF ScriptInv, EndScript
  <2>6. ASSUME tap'.res = "accepted" PROVE AcceptedIsClean'
    <3>1. /\ tap.res = "running" /\ tap.conds = <<>> /\ tap.stack # <<>> /\ TapWithinLimits(tap)
          /\ CastToBool(Last(tap.stack))
      BY <2>3, <2>5, <2>6
    <3>2. arms.open = <<>>
      BY <1>1, <3>1, EmptySeq DEF ArmsFollowed, InArms
    <3> QED BY <2>1, <2>3, <3>1, <3>2 DEF AcceptedIsClean, TapWithinLimits, WithinLimits
  <2> QED BY <2>2, <2>3, <2>6 DEF ScriptInv, ArmsFollowed
<1>4. CASE UNCHANGED scriptVars
  BY <1>4 DEF ScriptInv, ArmsFollowed, AcceptedIsClean, scriptVars
<1> QED BY <1>2, <1>3, <1>4 DEF ScriptNext

\* Whatever script it is given, execute_tapscript executes exactly in the arms
\* that are taken, and a script it accepts has closed its conditionals, left a
\* true item and kept the limits to its last operation.
THEOREM TapscriptAlwaysSound == ScriptSpec => []TapscriptSound
<1>1. ScriptInv => TapscriptSound
  <2> SUFFICES ASSUME ScriptInv PROVE TapscriptSound
    OBVIOUS
  <2>1. AcceptedIsClean
    BY DEF ScriptInv, AcceptedIsClean
  <2>2. ASSUME tap.res = "running"
        PROVE  Executing(tap) = Taken(arms.open) /\ Len(tap.conds) = Len(arms.open)
    <3>1. InArms(tap.conds, arms.open)
      BY <2>2 DEF ScriptInv, ArmsFollowed
    <3>2. Executing(tap) <=> Taken(arms.open)
      BY <3>1, InArmsExecutes DEF Executing
    <3>3. Executing(tap) \in BOOLEAN /\ Taken(arms.open) \in BOOLEAN
      BY DEF Executing, Taken
    <3> QED BY <3>1, <3>2, <3>3 DEF InArms
  <2> QED BY <2>1, <2>2 DEF TapscriptSound, ExecutesOwnArms
<1> QED BY <1>1, ScriptInvInit, ScriptInvStep, PTL DEF ScriptSpec

-----------------------------------------------------------------------------
(* The two interpreters side by side.                                      *)

\* The same push read by both, where tapscript executes.
SameMode(v, w) ==
    /\ v.mode = w.mode /\ v.mode \in {"op", "length", "data"}
    /\ v.mode # "op" => v.want = w.want /\ v.buf = w.buf

\* v and w after a byte of a push, against vm and wm before.
ReadAlike(vm, wm, v, w) ==
    BothRun(v, w) => /\ Same(v, w) /\ SameMode(v, w)
                     /\ v.conds = vm.conds /\ w.conds = wm.conds

\* A finished push, where tapscript executes.
LEMMA ReadsPush ==
  ASSUME NEW v, NEW w, Same(v, w), v.mode = "op", w.mode = "op", Executing(w), NEW d
  PROVE  ReadAlike(v, w, Pushed(v, d, FALSE), Pushed(w, d, TRUE))
<1> DEFINE p == PushItem(v, d)
           q == PushItem(w, d)
<1>1. Same(p, q) /\ Kept(v, p) /\ Kept(w, q)
  BY SameByItems, KeptByItems DEF Same
<1>2. /\ Pushed(v, d, FALSE) \in {p, Refuse(p)} /\ Pushed(w, d, TRUE) \in {q, Refuse(q)}
      /\ Refuse(p).res = "refused" /\ Refuse(q).res = "refused"
  BY <1>1, KeptByItems DEF Pushed, Check, Same
<1> HIDE DEF p, q
<1>3. ASSUME BothRun(Pushed(v, d, FALSE), Pushed(w, d, TRUE))
      PROVE  Pushed(v, d, FALSE) = p /\ Pushed(w, d, TRUE) = q
  BY <1>2, <1>3 DEF BothRun
<1> QED BY <1>1, <1>3 DEF ReadAlike, SameMode, Kept

\* A push whose length is known.
LEMMA ReadsData ==
  ASSUME NEW v, NEW w, Same(v, w), Executing(w), NEW n
  PROVE  ReadAlike(v, w, StartData(v, n, FALSE), StartData(w, n, TRUE))
<1>1. CASE n = 0
  <2>1. PICK p : p = [v EXCEPT !.mode = "op", !.want = 0, !.buf = <<>>]
    OBVIOUS
  <2>2. PICK q : q = [w EXCEPT !.mode = "op", !.want = 0, !.buf = <<>>]
    OBVIOUS
  <2>3. Same(p, q) /\ p.mode = "op" /\ q.mode = "op" /\ p.conds = v.conds /\ q.conds = w.conds
    BY <2>1, <2>2 DEF Same, Machine
  <2>4. Executing(q)
    BY <2>3 DEF Executing
  <2>5. ReadAlike(p, q, Pushed(p, <<>>, FALSE), Pushed(q, <<>>, TRUE))
    BY <2>3, <2>4, ReadsPush
  <2> QED BY <1>1, <2>1, <2>2, <2>3, <2>5 DEF StartData, ReadAlike
<1>2. CASE n # 0
  <2>1. PICK p : p = [v EXCEPT !.mode = "data", !.want = n, !.buf = <<>>]
    OBVIOUS
  <2>2. PICK q : q = [w EXCEPT !.mode = "data", !.want = n, !.buf = <<>>]
    OBVIOUS
  <2>3. Same(p, q) /\ SameMode(p, q) /\ p.conds = v.conds /\ q.conds = w.conds
    BY <2>1, <2>2 DEF Same, SameMode, Machine
  <2> QED BY <1>2, <2>1, <2>2, <2>3 DEF StartData, ReadAlike
<1> QED BY <1>1, <1>2

\* A push whose length is still to be read.
LEMMA ReadsLength ==
  ASSUME NEW v, NEW w, Same(v, w), NEW op
  PROVE  ReadAlike(v, w, StartLength(v, op), StartLength(w, op))
<1>1. PICK p : p = [v EXCEPT !.mode = "length", !.want = LengthOf(op), !.buf = <<>>]
  OBVIOUS
<1>2. PICK q : q = [w EXCEPT !.mode = "length", !.want = LengthOf(op), !.buf = <<>>]
  OBVIOUS
<1>3. Same(p, q) /\ SameMode(p, q) /\ p.conds = v.conds /\ q.conds = w.conds
  BY <1>1, <1>2 DEF Same, SameMode, Machine
<1> QED BY <1>1, <1>2, <1>3 DEF StartLength, ReadAlike

\* One more byte of a push, where tapscript executes.
LEMMA ReadsOn ==
  ASSUME NEW v, NEW w, Same(v, w), SameMode(v, w), v.mode # "op", Executing(w), NEW b
  PROVE  ReadAlike(v, w, ReadOn(v, b, FALSE), ReadOn(w, b, TRUE))
<1>1. PICK got : got = Append(v.buf, b) /\ got = Append(w.buf, b)
  BY DEF SameMode
<1>2. v.want = w.want /\ v.mode = w.mode
  BY DEF SameMode
<1>3. CASE Len(got) < v.want
  <2>1. PICK p : p = [v EXCEPT !.buf = got]
    OBVIOUS
  <2>2. PICK q : q = [w EXCEPT !.buf = got]
    OBVIOUS
  <2>3. Same(p, q) /\ SameMode(p, q) /\ p.conds = v.conds /\ q.conds = w.conds
    BY <2>1, <2>2 DEF Same, SameMode, Machine
  <2>4. ReadOn(v, b, FALSE) = p /\ ReadOn(w, b, TRUE) = q
    BY <1>1, <1>2, <1>3, <2>1, <2>2 DEF ReadOn
  <2> QED BY <2>3, <2>4 DEF ReadAlike
<1>4. CASE ~(Len(got) < v.want) /\ v.mode = "length"
  <2>1. /\ ReadOn(v, b, FALSE) = StartData(v, LittleEndian(got), FALSE)
        /\ ReadOn(w, b, TRUE) = StartData(w, LittleEndian(got), TRUE)
    BY <1>1, <1>2, <1>4 DEF ReadOn
  <2> QED BY <2>1, ReadsData
<1>5. CASE ~(Len(got) < v.want) /\ v.mode # "length"
  <2>1. PICK p : p = [v EXCEPT !.mode = "op", !.want = 0, !.buf = <<>>]
    OBVIOUS
  <2>2. PICK q : q = [w EXCEPT !.mode = "op", !.want = 0, !.buf = <<>>]
    OBVIOUS
  <2>3. Same(p, q) /\ p.mode = "op" /\ q.mode = "op" /\ p.conds = v.conds /\ q.conds = w.conds
    BY <2>1, <2>2 DEF Same, Machine
  <2>4. Executing(q)
    BY <2>3 DEF Executing
  <2>5. ReadAlike(p, q, Pushed(p, got, FALSE), Pushed(q, got, TRUE))
    BY <2>3, <2>4, ReadsPush
  <2>6. ReadOn(v, b, FALSE) = Pushed(p, got, FALSE) /\ ReadOn(w, b, TRUE) = Pushed(q, got, TRUE)
    BY <1>1, <1>2, <1>5, <2>1, <2>2 DEF ReadOn
  <2> QED BY <2>3, <2>5, <2>6 DEF ReadAlike
<1> QED BY <1>3, <1>4, <1>5

\* The loops of the two, where no push and no skip is under way.
LEMMA LegacyLoop ==
  ASSUME NEW v, v.mode = "op", v.res = "running", NEW b \in 0..255
  PROVE  /\ b \in 76..78 => LegacyReads(v, b) = StartLength(v, b)
         /\ b = 0 => LegacyReads(v, b) = PushItem(v, <<>>)
         /\ b \in 81..96 => LegacyReads(v, b) = PushItem(v, <<b - 80>>)
         /\ b \in 1..75 \/ b > 187 => LegacyReads(v, b) = Refuse(v)
         /\ b \in 97..187 => LegacyReads(v, b) =
              LET done == ExecuteOpcode([v EXCEPT !.ops = @ + 1], b)
              IN  IF v.ops = MaxOps THEN Refuse(v)
                  ELSE IF done.res = "running" THEN Check(WithinLimits(done), done) ELSE done
<1>1. ASSUME b \in 76..78 PROVE LegacyReads(v, b) = StartLength(v, b)
  <2>1. b \notin {0, 79, 80} /\ b \notin 81..96 /\ ~(b \in 1..75 \/ b > 187)
    BY <1>1
  <2> QED BY <1>1, <2>1 DEF LegacyReads
<1>2. ASSUME b = 0 PROVE LegacyReads(v, b) = PushItem(v, <<>>)
  BY <1>2 DEF LegacyReads
<1>3. ASSUME b \in 81..96 PROVE LegacyReads(v, b) = PushItem(v, <<b - 80>>)
  <2>1. b \notin {0, 79, 80} /\ b \notin 76..78 /\ ~(b \in 1..75 \/ b > 187)
    BY <1>3
  <2> QED BY <1>3, <2>1 DEF LegacyReads
<1>4. ASSUME b \in 1..75 \/ b > 187 PROVE LegacyReads(v, b) = Refuse(v)
  <2>1. b \notin {0, 79, 80} /\ b \notin 76..78 /\ b \notin 81..96
    BY <1>4
  <2> QED BY <1>4, <2>1 DEF LegacyReads
<1>5. ASSUME b \in 97..187
      PROVE  LegacyReads(v, b) =
               LET done == ExecuteOpcode([v EXCEPT !.ops = @ + 1], b)
               IN  IF v.ops = MaxOps THEN Refuse(v)
                   ELSE IF done.res = "running" THEN Check(WithinLimits(done), done) ELSE done
  <2>1. b \notin {0, 79, 80} /\ b \notin 76..78 /\ b \notin 81..96 /\ ~(b \in 1..75 \/ b > 187)
    BY <1>5
  <2> QED BY <2>1 DEF LegacyReads
<1> QED BY <1>1, <1>2, <1>3, <1>4, <1>5

\* The same for the loop of execute_tapscript.
LEMMA TapLoop ==
  ASSUME NEW w, w.mode = "op", w.res = "running", TapWithinLimits(w), NEW b \in 0..255
  PROVE  /\ b = 0 => TapReads(w, b) = StartData(w, 0, TRUE)
         /\ b \in 76..78 => TapReads(w, b) = StartLength(w, b)
         /\ b \in 81..96 => TapReads(w, b) = Pushed(w, <<b - 80>>, TRUE)
         /\ b \in {OpIf, OpNotIf} => TapReads(w, b) = TapIf(w, b)
         /\ b = OpElse => TapReads(w, b) = TapElse(w)
         /\ b = OpEndIf => TapReads(w, b) = CloseArm(w)
<1>1. ASSUME b = 0 PROVE TapReads(w, b) = StartData(w, 0, TRUE)
  BY <1>1 DEF TapReads, OpIf, OpNotIf, OpElse, OpEndIf
<1>2. ASSUME b \in 76..78 PROVE TapReads(w, b) = StartLength(w, b)
  <2>1. ~(b <= 75) /\ b \notin 81..96 /\ b \notin {99, 100} /\ b # 103 /\ b # 104
    BY <1>2
  <2> QED BY <1>2, <2>1 DEF TapReads, OpIf, OpNotIf, OpElse, OpEndIf
<1>3. ASSUME b \in 81..96 PROVE TapReads(w, b) = Pushed(w, <<b - 80>>, TRUE)
  <2>1. ~(b <= 75) /\ b \notin 76..78 /\ b \notin {99, 100} /\ b # 103 /\ b # 104
    BY <1>3
  <2> QED BY <1>3, <2>1 DEF TapReads, OpIf, OpNotIf, OpElse, OpEndIf
<1>4. ASSUME b \in {OpIf, OpNotIf} PROVE TapReads(w, b) = TapIf(w, b)
  BY <1>4 DEF TapReads, OpIf, OpNotIf, OpElse, OpEndIf
<1>5. ASSUME b = OpElse PROVE TapReads(w, b) = TapElse(w)
  BY <1>5 DEF TapReads, OpIf, OpNotIf, OpElse, OpEndIf
<1>6. ASSUME b = OpEndIf PROVE TapReads(w, b) = CloseArm(w)
  BY <1>6 DEF TapReads, OpIf, OpNotIf, OpElse, OpEndIf
<1> QED BY <1>1, <1>2, <1>3, <1>4, <1>5, <1>6

\* An opcode in an arm that execute_tapscript executes.
LEMMA TapExecutes ==
  ASSUME NEW w, w.mode = "op", w.res = "running", TapWithinLimits(w), Executing(w),
         NEW b \in 0..255, b > 78, b \notin 81..96, b \notin Conditionals,
         NEW q, q = [w EXCEPT !.ops = @ + 1]
  PROVE  /\ b \in OpSuccess => TapReads(w, b) = [w EXCEPT !.res = "success"]
         /\ b \notin OpSuccess => TapReads(w, b) \in {Refuse(w), TapOpcode(q, b)}
<1>1. ~(b <= 75) /\ b \notin 76..78
  OBVIOUS
<1>2. TapReads(w, b) = IF b \in OpSuccess THEN [w EXCEPT !.res = "success"]
                       ELSE IF w.ops = MaxOps THEN Refuse(w) ELSE TapOpcode(q, b)
  BY <1>1 DEF TapReads, Conditionals
<1> QED BY <1>2

\* A byte that is no conditional, read by both where tapscript executes.
LEMMA ReadsOpcode ==
  ASSUME NEW v, NEW w, Same(v, w), v.mode = "op", w.mode = "op", Executing(w),
         v.res = "running", w.res = "running", NEW b \in 0..255, b \notin Conditionals, b # 173
  PROVE  ReadAlike(v, w, LegacyReads(v, b), TapReads(w, b))
<1> DEFINE L == LegacyReads(v, b)
           T == TapReads(w, b)
<1>1. Machine(v) /\ Machine(w) /\ Refuse(v).res = "refused" /\ Refuse(w).res = "refused"
  BY SameByItems DEF Same
<1>2. CASE ~TapWithinLimits(w)
  <2>1. T = Refuse(w)
    BY <1>2 DEF TapReads
  <2> QED BY <1>1, <2>1 DEF ReadAlike, BothRun
<1>3. CASE TapWithinLimits(w) /\ b = 0
  <2>1. L = PushItem(v, <<>>) /\ T = StartData(w, 0, TRUE)
    BY <1>3, LegacyLoop, TapLoop
  <2>2. PICK q : q = [w EXCEPT !.mode = "op", !.want = 0, !.buf = <<>>]
    OBVIOUS
  <2>3. Same(v, q) /\ q.mode = "op" /\ q.conds = w.conds
    BY <2>2 DEF Same, Machine
  <2>4. Executing(q)
    BY <2>3 DEF Executing
  <2>5. T = Pushed(q, <<>>, TRUE)
    BY <2>1, <2>2 DEF StartData
  <2>6. Pushed(v, <<>>, FALSE) \in {L, Refuse(L)} /\ (Pushed(v, <<>>, FALSE) = L \/ T = Refuse(PushItem(q, <<>>)))
    BY <2>1, <2>4, <2>5 DEF Pushed, Check
  <2>7. ReadAlike(v, q, Pushed(v, <<>>, FALSE), T)
    BY <2>3, <2>4, <2>5, ReadsPush
  <2>8. Refuse(PushItem(q, <<>>)).res = "refused"
    BY <2>3, KeptByItems DEF Same, Kept
  <2> QED BY <2>3, <2>6, <2>7, <2>8 DEF ReadAlike, BothRun
<1>4. CASE TapWithinLimits(w) /\ (b \in 1..75 \/ b > 187)
  <2>1. L = Refuse(v)
    BY <1>4, LegacyLoop
  <2> QED BY <1>1, <2>1 DEF ReadAlike, BothRun
<1>5. CASE TapWithinLimits(w) /\ b \in 76..78
  <2>1. L = StartLength(v, b) /\ T = StartLength(w, b)
    BY <1>5, LegacyLoop, TapLoop
  <2> QED BY <2>1, ReadsLength
<1>6. CASE TapWithinLimits(w) /\ b \in {79, 80}
  <2>1. T \in {Refuse(w), [w EXCEPT !.res = "success"], TapOpcode([w EXCEPT !.ops = @ + 1], 79)}
    <3>1. 80 \in OpSuccess
      BY DEF OpSuccess
    <3>2. b > 78 /\ b \notin 81..96
      BY <1>6
    <3>3. PICK q : q = [w EXCEPT !.ops = @ + 1]
      OBVIOUS
    <3>4. /\ b \in OpSuccess => T = [w EXCEPT !.res = "success"]
          /\ b \notin OpSuccess => T \in {Refuse(w), TapOpcode(q, b)}
      BY <1>6, <3>2, <3>3, TapExecutes
    <3>5. CASE b = 80
      BY <3>1, <3>4, <3>5
    <3>6. CASE b = 79
      BY <3>3, <3>4, <3>6
    <3> QED BY <1>6, <3>5, <3>6
  <2>2. [w EXCEPT !.res = "success"].res # "running"
    BY <1>1 DEF Machine
  <2>3. TapOpcode([w EXCEPT !.ops = @ + 1], 79).res # "running"
    <3>1. PICK q : q = [w EXCEPT !.ops = @ + 1]
      OBVIOUS
    <3>2. Machine(q)
      BY <1>1, <3>1 DEF Machine
    <3>3. TapOpcode(q, 79) = Refuse(q)
      BY RearrangeCovers DEF TapOpcode
    <3> QED BY <3>1, <3>2, <3>3, KeptByItems
  <2> QED BY <1>1, <2>1, <2>2, <2>3 DEF ReadAlike, BothRun
<1>7. CASE TapWithinLimits(w) /\ b \in 81..96
  <2>1. L = PushItem(v, <<b - 80>>) /\ T = Pushed(w, <<b - 80>>, TRUE)
    BY <1>7, LegacyLoop, TapLoop
  <2>2. PICK d : d = <<b - 80>>
    OBVIOUS
  <2>3. Pushed(v, d, FALSE) \in {L, Refuse(L)} /\ (Pushed(v, d, FALSE) = L \/ T = Refuse(PushItem(w, d)))
    BY <2>1, <2>2 DEF Pushed, Check
  <2>4. ReadAlike(v, w, Pushed(v, d, FALSE), T)
    BY <2>1, <2>2, ReadsPush
  <2>5. Refuse(PushItem(w, d)).res = "refused"
    BY <1>1, KeptByItems DEF Kept
  <2> QED BY <2>3, <2>4, <2>5 DEF ReadAlike, BothRun
<1>8. CASE TapWithinLimits(w) /\ b \in 97..187
  <2>1. PICK p : p = [v EXCEPT !.ops = @ + 1]
    OBVIOUS
  <2>2. PICK q : q = [w EXCEPT !.ops = @ + 1]
    OBVIOUS
  <2>3. Same(p, q) /\ p.mode = "op" /\ q.mode = "op" /\ p.conds = v.conds /\ q.conds = w.conds
    BY <2>1, <2>2 DEF Same, Machine
  <2>4. PICK done : done = ExecuteOpcode(p, b)
    OBVIOUS
  <2>5. PICK todo : todo = TapOpcode(q, b)
    OBVIOUS
  <2>6. Kept(p, done) /\ Kept(q, todo)
    BY <2>3, <2>4, <2>5, KeptByOpcode DEF Same, Conditionals
  <2>7. BothRun(done, todo) => Same(done, todo)
    BY <2>3, <2>4, <2>5, SameByOpcode DEF Conditionals
  <2>8. L \in {Refuse(v), done, Refuse(done)}
    <3>1. L = IF v.ops = MaxOps THEN Refuse(v)
              ELSE IF done.res = "running" THEN Check(WithinLimits(done), done) ELSE done
      BY <1>8, <2>1, <2>4, LegacyLoop
    <3> QED BY <3>1 DEF Check
  <2>9. T \in {Refuse(w), [w EXCEPT !.res = "success"], todo}
    <3>1. b > 78 /\ b \notin 81..96
      BY <1>8
    <3>2. /\ b \in OpSuccess => T = [w EXCEPT !.res = "success"]
          /\ b \notin OpSuccess => T \in {Refuse(w), TapOpcode(q, b)}
      BY <1>8, <2>2, <3>1, TapExecutes
    <3> QED BY <2>5, <3>2
  <2>10. Refuse(done).res = "refused" /\ [w EXCEPT !.res = "success"].res = "success"
    BY <1>1, <2>6, KeptByItems DEF Kept, Machine
  <2>11. ASSUME BothRun(L, T) PROVE L = done /\ T = todo
    BY <1>1, <2>8, <2>9, <2>10, <2>11 DEF BothRun
  <2>12. SameMode(done, todo)
    BY <2>3, <2>6 DEF SameMode, Kept
  <2> QED BY <2>3, <2>6, <2>7, <2>11, <2>12 DEF ReadAlike, Kept
<1> QED BY <1>2, <1>3, <1>4, <1>5, <1>6, <1>7, <1>8

\* A byte read by tapscript where it does not execute.
LEMMA TapSkips ==
  ASSUME NEW vm, Machine(vm), vm.conds \in Seq(BOOLEAN), ~Executing(vm), vm.res = "running",
         NEW b \in 0..255, TapReads(vm, b).res = "running"
  PROVE  /\ TapReads(vm, b).stack = vm.stack /\ TapReads(vm, b).alt = vm.alt
         /\ vm.mode = "op" /\ b \in Conditionals => TapReads(vm, b).mode = "op"
<1> DEFINE Still(out) == Machine(out) /\ out.stack = vm.stack /\ out.alt = vm.alt
           T == TapReads(vm, b)
<1>1. Still(vm) /\ Still(Refuse(vm)) /\ Still(StartLength(vm, b)) /\ Still(Pushed(vm, <<b - 80>>, TRUE))
  BY DEF Refuse, StartLength, Pushed, Machine
<1>2. PICK q : q = [vm EXCEPT !.mode = "op", !.want = 0, !.buf = <<>>]
  OBVIOUS
<1>3. Still(q) /\ ~Executing(q)
  BY <1>2 DEF Machine, Executing
<1>4. ASSUME NEW n PROVE Still(StartData(vm, n, TRUE))
  <2>1. CASE n = 0
    <3>1. StartData(vm, n, TRUE) = Pushed(q, <<>>, TRUE)
      BY <1>2, <2>1 DEF StartData
    <3>2. Pushed(q, <<>>, TRUE) = q
      BY <1>3 DEF Pushed
    <3> QED BY <1>3, <3>1, <3>2
  <2>2. CASE n # 0
    BY <2>2 DEF StartData, Machine
  <2> QED BY <2>1, <2>2
<1>5. Still(ReadOn(vm, b, TRUE))
  <2>1. PICK got : got = Append(vm.buf, b)
    OBVIOUS
  <2>2. Pushed(q, got, TRUE) = q
    BY <1>3 DEF Pushed
  <2>3. ReadOn(vm, b, TRUE) \in {[vm EXCEPT !.buf = got], StartData(vm, LittleEndian(got), TRUE), q}
    BY <1>2, <2>1, <2>2 DEF ReadOn
  <2>4. Still([vm EXCEPT !.buf = got])
    BY DEF Machine
  <2> QED BY <1>3, <1>4, <2>3, <2>4
<1>6. CASE vm.mode # "op" \/ ~TapWithinLimits(vm)
  BY <1>1, <1>5, <1>6, KeptByItems DEF TapReads
<1>7. CASE vm.mode = "op" /\ TapWithinLimits(vm) /\ b \notin Conditionals
  <2>1. T \in {StartData(vm, b, TRUE), StartLength(vm, b), Pushed(vm, <<b - 80>>, TRUE), vm}
    BY <1>7 DEF TapReads, Conditionals
  <2> QED BY <1>1, <1>4, <1>7, <2>1
<1>8. CASE vm.mode = "op" /\ TapWithinLimits(vm) /\ b \in Conditionals
  <2>1. T # Refuse(vm)
    BY KeptByItems
  <2>2. \/ T = TapIf(vm, b) \/ T = TapElse(vm) \/ T = CloseArm(vm)
    BY <1>8, TapLoop DEF Conditionals
  <2>3. T.stack = vm.stack /\ T.alt = vm.alt /\ T.mode = vm.mode
    BY <2>1, <2>2, TapIfDoes, TapElseDoes, CloseArmDoes
  <2> QED BY <1>8, <2>3
<1> QED BY <1>6, <1>7, <1>8

\* What OP_IF and OP_ELSE do in the legacy engine, unless they refuse.
LEMMA OpenArmDoes ==
  ASSUME NEW vm, Machine(vm), NEW op, NEW out, out = OpenArm(vm, op), out # Refuse(vm)
  PROVE  /\ Machine(out) /\ out.alt = vm.alt /\ out.stack = Replace(vm, 1, <<>>).stack
         /\ \E c \in BOOLEAN : /\ c <=> Condition(vm, op)
                               /\ out.conds = Append(vm.conds, c)
                               /\ c => out.mode = "op"
                               /\ ~c => out.mode = "skip" /\ out.depth = 1
<1>1. PICK mid : mid = Replace(vm, 1, <<>>)
  OBVIOUS
<1>2. Machine(mid) /\ mid.alt = vm.alt /\ mid.conds = vm.conds
  BY <1>1, KeptByItems DEF Kept
<1>3. PICK c \in BOOLEAN : c = Condition(vm, op)
  BY DEF Condition
<1>4. out = [mid EXCEPT !.conds = Append(@, c), !.mode = IF c THEN "op" ELSE "skip",
                        !.depth = IF c THEN 0 ELSE 1]
  BY <1>1, <1>3 DEF OpenArm, Need
<1>5. Machine(out) /\ out.alt = mid.alt /\ out.stack = mid.stack /\ out.conds = Append(mid.conds, c)
      /\ out.mode = (IF c THEN "op" ELSE "skip") /\ out.depth = IF c THEN 0 ELSE 1
  BY <1>2, <1>4 DEF Machine
<1> QED BY <1>1, <1>2, <1>3, <1>5

\* OP_ELSE in the legacy engine, in an arm that was taken.
LEMMA ElseArmDoes ==
  ASSUME NEW vm, Machine(vm), vm.conds \in Seq(BOOLEAN), vm.conds # <<>>,
         vm.conds[Len(vm.conds)], NEW out, out = ElseArm(vm)
  PROVE  /\ Machine(out) /\ out.alt = vm.alt /\ out.stack = vm.stack
         /\ out.conds = [vm.conds EXCEPT ![Len(vm.conds)] = FALSE]
         /\ out.mode = "skip" /\ out.depth = 1
<1>1. out = [vm EXCEPT !.conds[Len(vm.conds)] = ~@,
                       !.mode = IF Last(vm.conds) THEN "skip" ELSE "op",
                       !.depth = IF Last(vm.conds) THEN 1 ELSE 0]
  BY DEF ElseArm
<1>2. Last(vm.conds)
  BY DEF Last
<1>3. out.mode = "skip" /\ out.depth = 1 /\ Machine(out) /\ out.alt = vm.alt /\ out.stack = vm.stack
  BY <1>1, <1>2 DEF Machine
<1>4. out.conds = [vm.conds EXCEPT ![Len(vm.conds)] = ~vm.conds[Len(vm.conds)]]
  BY <1>1 DEF Machine
<1>5. Len(vm.conds) \in 1..Len(vm.conds) /\ DOMAIN vm.conds = 1..Len(vm.conds)
  BY EmptySeq
<1>6. [vm.conds EXCEPT ![Len(vm.conds)] = ~vm.conds[Len(vm.conds)]]
      = [vm.conds EXCEPT ![Len(vm.conds)] = FALSE]
  BY <1>5
<1> QED BY <1>3, <1>4, <1>6

\* A byte that the legacy engine skips.
LEMMA SkipDoes ==
  ASSUME NEW vm, Machine(vm), NEW b \in 0..255, vm.mode = "skip",
         vm.depth \in Nat \ {0}, ~(b = OpEndIf /\ vm.depth = 1)
  PROVE  LET out == SkipToEndIf(vm, b)
         IN  /\ out.stack = vm.stack /\ out.alt = vm.alt /\ out.conds = vm.conds
             /\ b \in {OpIf, OpNotIf} => out.mode = "skip" /\ out.depth = vm.depth + 1
             /\ b = OpElse /\ vm.depth = 1 => out.mode = "op"
             /\ b = OpElse /\ vm.depth # 1 => out.mode = "skip" /\ out.depth = vm.depth
             /\ b = OpEndIf => out.mode = "skip" /\ out.depth = vm.depth - 1
             /\ b \notin Conditionals => out.mode = "skip" /\ out.depth = vm.depth
  BY DEF SkipToEndIf, Machine, Conditionals, OpIf, OpNotIf, OpElse, OpEndIf

\* A byte is fed to both, both go on, and it is none that they read differently.
FedBoth(b) ==
    /\ Machine(legacy) /\ legacy.res = "running" /\ legacy' = LegacyReads(legacy, b)
    /\ legacy'.res = "running"
    /\ Machine(tap) /\ tap.res = "running" /\ tap' = TapReads(tap, b) /\ tap'.res = "running"
    /\ arms'.open = Counted(arms.open, b)
    /\ InArms(tap.conds, arms.open)
    /\ ~Strays(b)
    /\ Abreast

\* An opcode that the legacy engine gets through.
LEMMA LegacyRuns ==
  ASSUME NEW v, Machine(v), v.mode = "op", v.res = "running", NEW b \in 97..187,
         LegacyReads(v, b).res = "running"
  PROVE  \E p : /\ Machine(p) /\ p.stack = v.stack /\ p.alt = v.alt /\ p.conds = v.conds
                /\ p.mode = "op"
                /\ LegacyReads(v, b) = ExecuteOpcode(p, b) /\ LegacyReads(v, b) # Refuse(p)
<1>0. PICK p : p = [v EXCEPT !.ops = @ + 1]
  OBVIOUS
<1>1. /\ Machine(p) /\ p.res = "running" /\ p.stack = v.stack /\ p.alt = v.alt
      /\ p.conds = v.conds /\ p.mode = "op" /\ p.depth = v.depth
  BY <1>0 DEF Machine
<1>2. PICK done : done = ExecuteOpcode(p, b)
  OBVIOUS
<1>3. LegacyReads(v, b) = IF v.ops = MaxOps THEN Refuse(v)
                          ELSE IF done.res = "running" THEN Check(WithinLimits(done), done)
                          ELSE done
  <2>1. b \in 0..255
    OBVIOUS
  <2> QED BY <1>0, <1>2, <2>1, LegacyLoop
<1>4. LegacyReads(v, b) \in {Refuse(v), Refuse(done), done} /\ Refuse(v).res = "refused"
      /\ Refuse(p).res = "refused"
  BY <1>1, <1>3, KeptByItems DEF Check
<1>5. Refuse(done).res # "running"
  <2>1. b \in 0..255
    OBVIOUS
  <2> QED BY <1>1, <1>2, <2>1, OpcodeStays, KeptByItems
<1>6. LegacyReads(v, b) = ExecuteOpcode(p, b) /\ LegacyReads(v, b) # Refuse(p)
  BY <1>2, <1>4, <1>5
<1> QED BY <1>1, <1>6

\* The same for the byte that is fed.
LEMMA FedRuns ==
  ASSUME NEW b \in 97..187, FedBoth(b), legacy.mode = "op"
  PROVE  \E p : /\ Machine(p) /\ p.stack = legacy.stack /\ p.alt = legacy.alt
                /\ p.conds = legacy.conds /\ p.mode = "op"
                /\ legacy' = ExecuteOpcode(p, b) /\ legacy' # Refuse(p)
<1>1. Machine(legacy) /\ legacy.res = "running" /\ LegacyReads(legacy, b).res = "running"
      /\ legacy' = LegacyReads(legacy, b)
  BY DEF FedBoth
<1>2. PICK p : /\ Machine(p) /\ p.stack = legacy.stack /\ p.alt = legacy.alt
               /\ p.conds = legacy.conds /\ p.mode = "op"
               /\ LegacyReads(legacy, b) = ExecuteOpcode(p, b)
               /\ LegacyReads(legacy, b) # Refuse(p)
  BY <1>1, LegacyRuns
<1> QED BY <1>1, <1>2

\* Outside a skip every arm is taken.
LEMMA TogetherExecutes ==
  ASSUME Together
  PROVE  Executing(tap)
  BY DEF Together, Executing

\* A byte of a push, or one that is no conditional.
LEMMA AbreastPlain ==
  ASSUME NEW b \in 0..255, FedBoth(b), legacy.mode \in {"op", "length", "data"}, Together,
         legacy.mode # "op" \/ b \notin Conditionals
  PROVE  Abreast'
<1>1. Same(legacy, tap) /\ SameMode(legacy, tap) /\ Executing(tap)
  BY TogetherExecutes DEF FedBoth, Abreast, Same, SameMode, Together
<1>2. ReadAlike(legacy, tap, legacy', tap')
  <2>1. CASE legacy.mode # "op"
    <3>1. legacy' = ReadOn(legacy, b, FALSE) /\ tap' = ReadOn(tap, b, TRUE)
      BY <2>1 DEF FedBoth, LegacyReads, TapReads, Together
    <3> QED BY <1>1, <2>1, <3>1, ReadsOn
  <2>2. CASE legacy.mode = "op"
    <3>1. b \notin Conditionals /\ b # 173 /\ tap.mode = "op"
      BY <2>2 DEF FedBoth, Strays, Together
    <3> QED BY <1>1, <2>2, <3>1, ReadsOpcode DEF FedBoth
  <2> QED BY <2>1, <2>2
<1>3. /\ Same(legacy', tap') /\ SameMode(legacy', tap')
      /\ legacy'.conds = legacy.conds /\ tap'.conds = tap.conds
  BY <1>2 DEF ReadAlike, BothRun, FedBoth
<1>4. arms'.open = arms.open
  <2>1. tap.mode # "op" \/ b \notin Conditionals
    BY DEF Together
  <2> QED BY <2>1, CountedIs DEF FedBoth
<1>5. Together'
  BY <1>3, <1>4 DEF Together, SameMode, FirstArm
<1> QED BY <1>3, <1>4, <1>5 DEF FedBoth, Abreast, Same, SameMode

\* The members of a list with one more, with the last changed, without the last.
LEMMA OneMore ==
  ASSUME NEW S, NEW q \in Seq(S), NEW x \in S
  PROVE  /\ Append(q, x) \in Seq(S) /\ Len(q) \in Nat /\ Len(Append(q, x)) = Len(q) + 1
         /\ \A i \in 1..Len(q) : Append(q, x)[i] = q[i]
         /\ Append(q, x)[Len(q) + 1] = x
  BY AppendProperties

\* OP_IF and OP_NOTIF read by both outside a skip.
LEMMA AbreastOpens ==
  ASSUME NEW b \in {OpIf, OpNotIf}, FedBoth(b), legacy.mode = "op", Together
  PROVE  Abreast'
<1>1. b \in 0..255 /\ b \in 97..187 /\ tap.mode = "op" /\ Executing(tap)
  BY TogetherExecutes DEF Together, OpIf, OpNotIf
<1>3. PICK p : /\ Machine(p) /\ p.stack = legacy.stack /\ p.alt = legacy.alt
               /\ p.conds = legacy.conds /\ legacy' = OpenArm(p, b) /\ legacy' # Refuse(p)
  <2>1. PICK p : /\ Machine(p) /\ p.stack = legacy.stack /\ p.alt = legacy.alt
                 /\ p.conds = legacy.conds
                 /\ legacy' = ExecuteOpcode(p, b) /\ legacy' # Refuse(p)
    BY <1>1, FedRuns
  <2>2. ExecuteOpcode(p, b) = OpenArm(p, b)
    BY LegacyArms
  <2> QED BY <2>1, <2>2
<1>4. /\ legacy'.alt = legacy.alt /\ legacy'.stack = Replace(p, 1, <<>>).stack
      /\ \E c \in BOOLEAN : /\ c <=> Condition(p, b)
                            /\ legacy'.conds = Append(p.conds, c)
                            /\ c => legacy'.mode = "op"
                            /\ ~c => legacy'.mode = "skip" /\ legacy'.depth = 1
  BY <1>3, OpenArmDoes
<1>5. tap' # Refuse(tap) /\ Refuse(tap).res = "refused"
  BY KeptByItems DEF FedBoth
<1>6. tap' = TapIf(tap, b)
  <2>1. CASE TapWithinLimits(tap)
    BY <1>1, <2>1, TapLoop DEF FedBoth
  <2>2. CASE ~TapWithinLimits(tap)
    BY <1>1, <1>5, <2>2 DEF FedBoth, TapReads
  <2> QED BY <2>1, <2>2
<1>7. /\ tap'.mode = "op" /\ tap'.alt = tap.alt /\ tap'.stack = Replace(tap, 1, <<>>).stack
      /\ \E c \in BOOLEAN : /\ c <=> Executing(tap) /\ Condition(tap, b)
                            /\ tap'.conds = Append(tap.conds, c)
  BY <1>1, <1>5, <1>6, TapIfDoes DEF FedBoth
<1>8. legacy'.stack = tap'.stack /\ legacy'.alt = tap'.alt
  <2>1. Same(p, tap)
    BY <1>3 DEF Same, FedBoth, Abreast
  <2>2. Replace(p, 1, <<>>).stack = Replace(tap, 1, <<>>).stack
    BY <2>1, SameByItems DEF Same
  <2> QED BY <1>4, <1>7, <2>2 DEF FedBoth, Abreast
<1>9. PICK c \in BOOLEAN : /\ c <=> Condition(p, b)
                           /\ legacy'.conds = Append(p.conds, c)
                           /\ c => legacy'.mode = "op"
                           /\ ~c => legacy'.mode = "skip" /\ legacy'.depth = 1
  BY <1>4
<1>10. tap'.conds = Append(tap.conds, c)
  <2>1. PICK d \in BOOLEAN : /\ d <=> Executing(tap) /\ Condition(tap, b)
                             /\ tap'.conds = Append(tap.conds, d)
    BY <1>7
  <2>2. Condition(p, b) <=> Condition(tap, b)
    BY <1>3 DEF Condition, FedBoth, Abreast
  <2>3. c = d
    BY <1>1, <1>9, <2>1, <2>2
  <2> QED BY <2>1, <2>3
<1>11. PICK arm \in Arm : arms'.open = Append(arms.open, arm) /\ arm.elses = 0
  <2>1. PICK t \in BOOLEAN : t = (Taken(arms.open) /\ tap.stack # <<>> /\ Condition(tap, b))
    OBVIOUS
  <2>2. PICK arm : arm = [taken |-> t, elses |-> 0]
    OBVIOUS
  <2>3. arm \in Arm /\ arm.elses = 0
    BY <2>2 DEF Arm
  <2>4. arms'.open = Append(arms.open, arm)
    BY <1>1, <2>1, <2>2, CountedIs DEF FedBoth
  <2> QED BY <2>3, <2>4
<1>12. PICK n \in Nat : n = Len(legacy.conds) /\ n = Len(tap.conds) /\ n = Len(arms.open)
  BY DEF FedBoth, Abreast, Together, InArms
<1>13. /\ legacy'.conds \in Seq(BOOLEAN) /\ Len(legacy'.conds) = n + 1
       /\ \A i \in 1..n : legacy'.conds[i] = legacy.conds[i]
       /\ legacy'.conds[n + 1] = c
  <2>1. legacy.conds \in Seq(BOOLEAN) /\ legacy'.conds = Append(legacy.conds, c)
    BY <1>3, <1>9 DEF FedBoth, Abreast
  <2>2. /\ Append(legacy.conds, c) \in Seq(BOOLEAN)
        /\ Len(Append(legacy.conds, c)) = Len(legacy.conds) + 1
        /\ \A i \in 1..Len(legacy.conds) : Append(legacy.conds, c)[i] = legacy.conds[i]
        /\ Append(legacy.conds, c)[Len(legacy.conds) + 1] = c
    BY <2>1, OneMore
  <2> QED BY <1>12, <2>1, <2>2
<1>14. /\ Len(tap'.conds) = n + 1
       /\ \A i \in 1..n : tap'.conds[i] = tap.conds[i]
       /\ tap'.conds[n + 1] = c
  BY <1>10, <1>12, OneMore DEF FedBoth, InArms
<1>15. /\ Len(arms'.open) = n + 1
       /\ \A i \in 1..n : arms'.open[i] = arms.open[i]
       /\ arms'.open[n + 1].elses = 0
  BY <1>11, <1>12, OneMore DEF FedBoth, InArms
<1>16. \A i \in 1..(n + 1) : i \in 1..n \/ i = n + 1
  BY <1>12
<1>17. \A i \in 1..Len(arms'.open) : arms'.open[i].elses <= 1
  BY <1>12, <1>15, <1>16 DEF FedBoth, Abreast
<1>18. \A i \in 1..n : tap'.conds[i] /\ (legacy'.conds[i] <=> arms'.open[i].elses = 0)
  BY <1>12, <1>13, <1>14, <1>15 DEF Together, FirstArm
<1>19. CASE c
  <2>1. Together'
    BY <1>1, <1>7, <1>9, <1>13, <1>14, <1>15, <1>16, <1>18, <1>19 DEF Together, FirstArm
  <2> QED BY <1>8, <1>9, <1>13, <1>17, <1>19, <2>1 DEF Abreast
<1>20. CASE ~c
  <2>1. Skipping'
    <3>1. (n + 1) - 1 = n /\ n + 1 >= 1 /\ n + 1 = (n + 1) + 1 - 1
      BY <1>12
    <3> QED BY <1>9, <1>13, <1>14, <1>18, <1>20, <3>1 DEF Skipping, FirstArm
  <2> QED BY <1>8, <1>9, <1>13, <1>17, <1>20, <2>1 DEF Abreast
<1> QED BY <1>19, <1>20

\* A list with its last changed.
LEMMA LastChanged ==
  ASSUME NEW S, NEW q \in Seq(S), q # <<>>, NEW x \in S
  PROVE  \E r : /\ r = [q EXCEPT ![Len(q)] = x] /\ Len(r) = Len(q) /\ r[Len(q)] = x
                /\ \A i \in 1..(Len(q) - 1) : r[i] = q[i]
<1>1. PICK n \in Nat \ {0} : n = Len(q) /\ n \in 1..Len(q)
  BY EmptySeq
<1>2. /\ Len([q EXCEPT ![n] = x]) = Len(q) /\ [q EXCEPT ![n] = x][n] = x
      /\ \A i \in 1..Len(q) : i # n => [q EXCEPT ![n] = x][i] = q[i]
  BY <1>1, ChangedOne
<1>3. \A i \in 1..(n - 1) : i \in 1..n /\ i # n
  BY <1>1
<1> QED BY <1>1, <1>2, <1>3

\* OP_ELSE as execute_tapscript and a reader take it.
LEMMA TapOnElse ==
  ASSUME FedBoth(OpElse), tap.mode = "op", NEW n, n = Len(tap.conds)
  PROVE  /\ n \in Nat \ {0} /\ n = Len(arms.open) /\ tap'.mode = "op"
         /\ tap'.stack = tap.stack /\ tap'.alt = tap.alt
         /\ Len(tap'.conds) = n /\ \A i \in 1..(n - 1) : tap'.conds[i] = tap.conds[i]
         /\ tap'.conds[n] <=> ~tap.conds[n] /\ \A i \in 1..(n - 1) : tap.conds[i]
         /\ Len(arms'.open) = n /\ \A i \in 1..(n - 1) : arms'.open[i] = arms.open[i]
         /\ arms.open[n].elses = 0 /\ arms'.open[n].elses = 1
<1>0. OpElse \in 0..255
  BY DEF OpElse
<1>1. tap' # Refuse(tap) /\ tap' = TapElse(tap)
  <2>1. tap' # Refuse(tap) /\ Refuse(tap).res = "refused"
    BY KeptByItems DEF FedBoth
  <2>2. CASE TapWithinLimits(tap)
    BY <1>0, <2>1, <2>2, TapLoop DEF FedBoth
  <2>3. CASE ~TapWithinLimits(tap)
    BY <2>1, <2>3 DEF FedBoth, TapReads
  <2> QED BY <2>1, <2>2, <2>3
<1>2. /\ tap'.mode = "op" /\ tap'.stack = tap.stack /\ tap'.alt = tap.alt /\ tap.conds # <<>>
      /\ \E c \in BOOLEAN :
            /\ c <=> /\ ~tap.conds[Len(tap.conds)]
                     /\ \A i \in 1..(Len(tap.conds) - 1) : tap.conds[i]
            /\ tap'.conds = [tap.conds EXCEPT ![Len(tap.conds)] = c]
  BY <1>1, TapElseDoes DEF FedBoth, InArms
<1>3. tap.conds \in Seq(BOOLEAN) /\ arms.open \in Seq(Arm) /\ n = Len(arms.open)
  BY DEF FedBoth, InArms
<1>4. PICK c \in BOOLEAN : /\ c <=> ~tap.conds[n] /\ \A i \in 1..(n - 1) : tap.conds[i]
                           /\ tap'.conds = [tap.conds EXCEPT ![n] = c]
  BY <1>2
<1>5. /\ n \in Nat \ {0} /\ Len(tap'.conds) = n
      /\ \A i \in 1..(n - 1) : tap'.conds[i] = tap.conds[i]
      /\ tap'.conds[n] = c
  <2>1. tap.conds # <<>> /\ tap.conds \in Seq(BOOLEAN)
    BY <1>2, <1>3
  <2>2. n \in Nat \ {0}
    BY <2>1, EmptySeq
  <2>3. \E r : /\ r = [tap.conds EXCEPT ![Len(tap.conds)] = c] /\ Len(r) = Len(tap.conds)
               /\ r[Len(tap.conds)] = c
               /\ \A i \in 1..(Len(tap.conds) - 1) : r[i] = tap.conds[i]
    BY <2>1, LastChanged
  <2> QED BY <1>4, <2>2, <2>3
<1>6. arms.open # <<>>
  BY <1>3, <1>5, EmptySeq
<1>7. PICK x : x = [taken |-> ~arms.open[n].taken, elses |-> arms.open[n].elses + 1]
  OBVIOUS
<1>8. arms'.open = [arms.open EXCEPT ![Len(arms.open)] = x]
  <2>1. arms'.open = Counted(arms.open, OpElse)
    BY DEF FedBoth
  <2>2. Counted(arms.open, OpElse) = [arms.open EXCEPT ![Len(arms.open)] =
                                         [taken |-> ~@.taken, elses |-> @.elses + 1]]
    BY <1>0, <1>6, CountedIs
  <2>3. [arms.open EXCEPT ![Len(arms.open)] = [taken |-> ~@.taken, elses |-> @.elses + 1]]
        = [arms.open EXCEPT ![Len(arms.open)] = x]
    BY <1>3, <1>7
  <2> QED BY <2>1, <2>2, <2>3
<1>9. /\ Len(arms'.open) = n /\ \A i \in 1..(n - 1) : arms'.open[i] = arms.open[i]
      /\ arms'.open[n] = x
  <2>1. arms.open[n] \in Arm /\ n \in 1..Len(arms.open)
    BY <1>3, <1>5
  <2>2. x \in Arm
    BY <1>7, <2>1 DEF Arm
  <2>3. /\ Len([arms.open EXCEPT ![n] = x]) = Len(arms.open)
        /\ [arms.open EXCEPT ![n] = x][n] = x
        /\ \A i \in 1..Len(arms.open) : i # n => [arms.open EXCEPT ![n] = x][i] = arms.open[i]
    BY <1>3, <2>1, <2>2, ChangedOne
  <2>4. \A i \in 1..(n - 1) : i \in 1..n /\ i # n
    BY <1>5
  <2> QED BY <1>3, <1>8, <2>3, <2>4
<1>10. arms.open[n].elses = 0
  <2>1. arms.open[n] \in Arm /\ arms.open[n].elses <= 1
    BY <1>3, <1>5 DEF FedBoth, Abreast
  <2>2. arms.open[n].elses # 1
    BY <1>3, <1>6 DEF FedBoth, Strays, Last
  <2> QED BY <2>1, <2>2 DEF Arm
<1>11. x.elses = 1
  BY <1>7, <1>10
<1> QED BY <1>2, <1>3, <1>4, <1>5, <1>9, <1>10, <1>11

\* OP_ENDIF as execute_tapscript and a reader take it.
LEMMA TapOnEndIf ==
  ASSUME FedBoth(OpEndIf), tap.mode = "op", NEW n, n = Len(tap.conds)
  PROVE  /\ n \in Nat \ {0} /\ n = Len(arms.open) /\ tap'.mode = "op"
         /\ tap'.stack = tap.stack /\ tap'.alt = tap.alt
         /\ Len(tap'.conds) = n - 1 /\ \A i \in 1..(n - 1) : tap'.conds[i] = tap.conds[i]
         /\ Len(arms'.open) = n - 1 /\ \A i \in 1..(n - 1) : arms'.open[i] = arms.open[i]
<1>0. OpEndIf \in 0..255
  BY DEF OpEndIf
<1>1. tap' # Refuse(tap) /\ tap' = CloseArm(tap)
  <2>1. tap' # Refuse(tap) /\ Refuse(tap).res = "refused"
    BY KeptByItems DEF FedBoth
  <2>2. CASE TapWithinLimits(tap)
    BY <1>0, <2>1, <2>2, TapLoop DEF FedBoth
  <2>3. CASE ~TapWithinLimits(tap)
    BY <2>1, <2>3 DEF FedBoth, TapReads
  <2> QED BY <2>1, <2>2, <2>3
<1>2. /\ tap'.mode = "op" /\ tap'.stack = tap.stack /\ tap'.alt = tap.alt /\ tap.conds # <<>>
      /\ tap'.conds = Front(tap.conds)
  BY <1>1, CloseArmDoes DEF FedBoth
<1>3. tap.conds \in Seq(BOOLEAN) /\ arms.open \in Seq(Arm) /\ n = Len(arms.open)
  BY DEF FedBoth, InArms
<1>4. /\ n \in Nat \ {0} /\ Len(tap'.conds) = n - 1
      /\ \A i \in 1..(n - 1) : tap'.conds[i] = tap.conds[i]
  <2>1. n \in Nat \ {0}
    BY <1>2, <1>3, EmptySeq
  <2>2. Len(tap.conds) >= 1
    BY <2>1
  <2>3. /\ Len(Front(tap.conds)) = Len(tap.conds) - 1
        /\ \A i \in 1..(Len(tap.conds) - 1) : Front(tap.conds)[i] = tap.conds[i]
    BY <1>3, <2>2, FrontOf
  <2> QED BY <1>2, <2>1, <2>3
<1>5. arms.open # <<>>
  BY <1>3, <1>4, EmptySeq
<1>6. arms'.open = Front(arms.open)
  BY <1>0, <1>5, CountedIs DEF FedBoth
<1>7. Len(arms'.open) = n - 1 /\ \A i \in 1..(n - 1) : arms'.open[i] = arms.open[i]
  BY <1>3, <1>4, <1>6, FrontOf
<1> QED BY <1>2, <1>3, <1>4, <1>7

\* OP_ELSE read by both outside a skip.
LEMMA AbreastTurns ==
  ASSUME FedBoth(OpElse), legacy.mode = "op", Together
  PROVE  Abreast'
<1>1. OpElse \in 97..187 /\ tap.mode = "op"
  BY DEF Together, OpElse
<1>2. PICK n : n = Len(tap.conds)
  OBVIOUS
<1>3. /\ n \in Nat \ {0} /\ n = Len(arms.open) /\ tap'.mode = "op"
      /\ tap'.stack = tap.stack /\ tap'.alt = tap.alt
      /\ Len(tap'.conds) = n /\ \A i \in 1..(n - 1) : tap'.conds[i] = tap.conds[i]
      /\ tap'.conds[n] <=> ~tap.conds[n] /\ \A i \in 1..(n - 1) : tap.conds[i]
      /\ Len(arms'.open) = n /\ \A i \in 1..(n - 1) : arms'.open[i] = arms.open[i]
      /\ arms.open[n].elses = 0 /\ arms'.open[n].elses = 1
  BY <1>1, <1>2, TapOnElse
<1>4. PICK p : /\ Machine(p) /\ p.stack = legacy.stack /\ p.alt = legacy.alt
               /\ p.conds = legacy.conds /\ legacy' = ElseArm(p)
  <2>1. PICK p : /\ Machine(p) /\ p.stack = legacy.stack /\ p.alt = legacy.alt
                 /\ p.conds = legacy.conds /\ legacy' = ExecuteOpcode(p, OpElse)
    BY <1>1, FedRuns
  <2>2. ExecuteOpcode(p, OpElse) = ElseArm(p)
    BY LegacyArms
  <2> QED BY <2>1, <2>2
<1>5. legacy.conds \in Seq(BOOLEAN) /\ Len(legacy.conds) = n
  BY <1>2 DEF FedBoth, Abreast, Together
<1>6. \A i \in 1..n : tap.conds[i] /\ FirstArm(i)
  BY <1>5 DEF Together
<1>7. legacy.conds[n] /\ legacy.conds # <<>> /\ tap.conds[n]
  BY <1>3, <1>5, <1>6, EmptySeq DEF FirstArm
<1>8. /\ legacy'.alt = legacy.alt /\ legacy'.stack = legacy.stack
      /\ legacy'.conds = [legacy.conds EXCEPT ![n] = FALSE]
      /\ legacy'.mode = "skip" /\ legacy'.depth = 1
  <2>1. p.conds \in Seq(BOOLEAN) /\ p.conds # <<>> /\ p.conds[Len(p.conds)] /\ Len(p.conds) = n
    BY <1>4, <1>5, <1>7
  <2>2. /\ legacy'.alt = p.alt /\ legacy'.stack = p.stack
        /\ legacy'.conds = [p.conds EXCEPT ![Len(p.conds)] = FALSE]
        /\ legacy'.mode = "skip" /\ legacy'.depth = 1
    BY <1>4, <2>1, ElseArmDoes
  <2> QED BY <1>4, <2>1, <2>2
<1>9. /\ legacy'.conds \in Seq(BOOLEAN) /\ Len(legacy'.conds) = n /\ ~legacy'.conds[n]
      /\ \A i \in 1..(n - 1) : legacy'.conds[i] = legacy.conds[i]
  <2>1. n \in 1..Len(legacy.conds) /\ FALSE \in BOOLEAN
    BY <1>3, <1>5
  <2>2. /\ [legacy.conds EXCEPT ![n] = FALSE] \in Seq(BOOLEAN)
        /\ Len([legacy.conds EXCEPT ![n] = FALSE]) = Len(legacy.conds)
        /\ [legacy.conds EXCEPT ![n] = FALSE][n] = FALSE
        /\ \A i \in 1..Len(legacy.conds) : i # n => [legacy.conds EXCEPT ![n] = FALSE][i] = legacy.conds[i]
    BY <1>5, <2>1, ChangedOne
  <2>3. \A i \in 1..(n - 1) : i \in 1..n /\ i # n
    BY <1>3
  <2> QED BY <1>5, <1>8, <2>2, <2>3
<1>10. \A i \in 1..n : i \in 1..(n - 1) \/ i = n
  BY <1>3
<1>11. \A i \in 1..(n - 1) : tap'.conds[i] /\ (legacy'.conds[i] <=> arms'.open[i].elses = 0)
  <2>1. \A i \in 1..(n - 1) : i \in 1..n
    BY <1>3
  <2>2. \A i \in 1..(n - 1) : tap.conds[i] /\ (legacy.conds[i] <=> arms.open[i].elses = 0)
    BY <1>6, <2>1 DEF FirstArm
  <2>3. \A i \in 1..(n - 1) : /\ tap'.conds[i] = tap.conds[i]
                              /\ legacy'.conds[i] = legacy.conds[i]
                              /\ arms'.open[i] = arms.open[i]
    BY <1>3, <1>9
  <2> QED BY <2>2, <2>3
<1>12. Skipping'
  <2>1. n >= 1 /\ 1 \in Nat \ {0} /\ n = n + 1 - 1 /\ ~tap'.conds[n]
    BY <1>3, <1>7
  <2> QED BY <1>3, <1>8, <1>9, <1>11, <2>1 DEF Skipping, FirstArm
<1>13. \A i \in 1..Len(arms'.open) : arms'.open[i].elses <= 1
  BY <1>3, <1>10 DEF FedBoth, Abreast
<1>14. legacy.stack = tap.stack /\ legacy.alt = tap.alt
  BY DEF FedBoth, Abreast
<1> QED BY <1>3, <1>8, <1>9, <1>12, <1>13, <1>14 DEF Abreast

\* OP_ENDIF read by both outside a skip.
LEMMA AbreastCloses ==
  ASSUME FedBoth(OpEndIf), legacy.mode = "op", Together
  PROVE  Abreast'
<1>1. OpEndIf \in 97..187 /\ tap.mode = "op"
  BY DEF Together, OpEndIf
<1>2. PICK n : n = Len(tap.conds)
  OBVIOUS
<1>3. /\ n \in Nat \ {0} /\ n = Len(arms.open) /\ tap'.mode = "op"
      /\ tap'.stack = tap.stack /\ tap'.alt = tap.alt
      /\ Len(tap'.conds) = n - 1 /\ \A i \in 1..(n - 1) : tap'.conds[i] = tap.conds[i]
      /\ Len(arms'.open) = n - 1 /\ \A i \in 1..(n - 1) : arms'.open[i] = arms.open[i]
  BY <1>1, <1>2, TapOnEndIf
<1>4. PICK p : /\ Machine(p) /\ p.stack = legacy.stack /\ p.alt = legacy.alt
               /\ p.conds = legacy.conds /\ p.mode = "op"
               /\ legacy' = CloseArm(p) /\ legacy' # Refuse(p)
  <2>1. PICK p : /\ Machine(p) /\ p.stack = legacy.stack /\ p.alt = legacy.alt
                 /\ p.conds = legacy.conds /\ p.mode = "op"
                 /\ legacy' = ExecuteOpcode(p, OpEndIf) /\ legacy' # Refuse(p)
    BY <1>1, FedRuns
  <2>2. ExecuteOpcode(p, OpEndIf) = CloseArm(p)
    BY LegacyArms
  <2> QED BY <2>1, <2>2
<1>5. /\ legacy'.stack = legacy.stack /\ legacy'.alt = legacy.alt /\ legacy'.mode = "op"
      /\ legacy'.conds = Front(legacy.conds)
  BY <1>4, CloseArmDoes
<1>6. legacy.conds \in Seq(BOOLEAN) /\ Len(legacy.conds) = n
  BY <1>2 DEF FedBoth, Abreast, Together
<1>7. /\ legacy'.conds \in Seq(BOOLEAN) /\ Len(legacy'.conds) = n - 1
      /\ \A i \in 1..(n - 1) : legacy'.conds[i] = legacy.conds[i]
  <2>1. Len(legacy.conds) >= 1
    BY <1>3, <1>6
  <2>2. /\ Front(legacy.conds) \in Seq(BOOLEAN) /\ Len(Front(legacy.conds)) = Len(legacy.conds) - 1
        /\ \A i \in 1..(Len(legacy.conds) - 1) : Front(legacy.conds)[i] = legacy.conds[i]
    BY <1>6, <2>1, FrontOf
  <2> QED BY <1>5, <1>6, <2>2
<1>8. \A i \in 1..(n - 1) : i \in 1..n
  BY <1>3
<1>9. \A i \in 1..n : tap.conds[i] /\ FirstArm(i) /\ arms.open[i].elses <= 1
  BY <1>3, <1>6 DEF Together, FedBoth, Abreast
<1>10. \A i \in 1..(n - 1) : /\ tap'.conds[i] /\ (legacy'.conds[i] <=> arms'.open[i].elses = 0)
                             /\ arms'.open[i].elses <= 1
  BY <1>3, <1>7, <1>8, <1>9 DEF FirstArm
<1>11. Together'
  BY <1>3, <1>5, <1>7, <1>10 DEF Together, FirstArm
<1>12. legacy.stack = tap.stack /\ legacy.alt = tap.alt
  BY DEF FedBoth, Abreast
<1> QED BY <1>3, <1>5, <1>7, <1>10, <1>11, <1>12 DEF Abreast

\* A byte that the legacy engine skips.
LEMMA AbreastSkips ==
  ASSUME NEW b \in 0..255, FedBoth(b), legacy.mode = "skip", Skipping
  PROVE  Abreast'
<1>1. PICK n : n = Len(legacy.conds)
  OBVIOUS
<1>2. PICK d : d = legacy.depth
  OBVIOUS
<1>3. PICK m : m = Len(tap.conds)
  OBVIOUS
<1>4. /\ n \in Nat \ {0} /\ d \in Nat \ {0} /\ m = n + d - 1 /\ ~tap.conds[n] /\ ~legacy.conds[n]
      /\ \A i \in 1..(n - 1) : tap.conds[i] /\ FirstArm(i)
  BY <1>1, <1>2, <1>3 DEF Skipping, FedBoth, Abreast
<1>5. /\ legacy.stack = tap.stack /\ legacy.alt = tap.alt /\ legacy.conds \in Seq(BOOLEAN)
      /\ \A i \in 1..m : arms.open[i].elses <= 1
      /\ m = Len(arms.open) /\ tap.conds \in Seq(BOOLEAN)
  BY <1>3 DEF FedBoth, Abreast, InArms
<1>6. m \in Nat \ {0} /\ n \in 1..m /\ \A i \in 1..n : i \in 1..m
  BY <1>4
<1>7. ~Executing(tap)
  BY <1>3, <1>4, <1>6 DEF Executing
<1>8. /\ tap'.stack = tap.stack /\ tap'.alt = tap.alt
      /\ tap.mode = "op" /\ b \in Conditionals => tap'.mode = "op"
  BY <1>5, <1>7, TapSkips DEF FedBoth
<1>9. ~(b = OpEndIf /\ d = 1) /\ (tap.mode # "op" => b \notin Conditionals)
  BY <1>2 DEF FedBoth, Strays, Conditionals
<1>10. /\ legacy'.stack = legacy.stack /\ legacy'.alt = legacy.alt /\ legacy'.conds = legacy.conds
       /\ b \in {OpIf, OpNotIf} => legacy'.mode = "skip" /\ legacy'.depth = d + 1
       /\ b = OpElse /\ d = 1 => legacy'.mode = "op"
       /\ b = OpElse /\ d # 1 => legacy'.mode = "skip" /\ legacy'.depth = d
       /\ b = OpEndIf => legacy'.mode = "skip" /\ legacy'.depth = d - 1
       /\ b \notin Conditionals => legacy'.mode = "skip" /\ legacy'.depth = d
  <2>1. legacy' = SkipToEndIf(legacy, b) /\ Machine(legacy)
    BY DEF FedBoth, LegacyReads
  <2>2. legacy.depth \in Nat \ {0} /\ ~(b = OpEndIf /\ legacy.depth = 1)
    BY <1>2, <1>4, <1>9
  <2> DEFINE out == SkipToEndIf(legacy, b)
  <2>4. /\ out.stack = legacy.stack /\ out.alt = legacy.alt /\ out.conds = legacy.conds
        /\ b \in {OpIf, OpNotIf} => out.mode = "skip" /\ out.depth = legacy.depth + 1
        /\ b = OpElse /\ legacy.depth = 1 => out.mode = "op"
        /\ b = OpElse /\ legacy.depth # 1 => out.mode = "skip" /\ out.depth = legacy.depth
        /\ b = OpEndIf => out.mode = "skip" /\ out.depth = legacy.depth - 1
        /\ b \notin Conditionals => out.mode = "skip" /\ out.depth = legacy.depth
    BY <2>1, <2>2, SkipDoes
  <2> QED BY <1>2, <2>1, <2>4
<1>11. ASSUME legacy'.mode = "skip", legacy'.depth \in Nat \ {0},
              Len(tap'.conds) = n + legacy'.depth - 1,
              \A i \in 1..n : tap'.conds[i] = tap.conds[i],
              \A i \in 1..(n - 1) : arms'.open[i].elses = arms.open[i].elses,
              \A i \in 1..Len(arms'.open) : arms'.open[i].elses <= 1
       PROVE  Abreast'
  <2>1. \A i \in 1..(n - 1) : i \in 1..n
    BY <1>4
  <2>2. n \in 1..n /\ n >= 1
    BY <1>4
  <2>3. \A i \in 1..(n - 1) : tap'.conds[i] /\ (legacy'.conds[i] <=> arms'.open[i].elses = 0)
    BY <1>4, <1>10, <1>11, <2>1 DEF FirstArm
  <2>4. ~tap'.conds[n] /\ ~legacy'.conds[n] /\ Len(legacy'.conds) = n
    BY <1>1, <1>4, <1>10, <1>11, <2>2
  <2>5. Skipping'
    BY <1>11, <2>2, <2>3, <2>4 DEF Skipping, FirstArm
  <2> QED BY <1>5, <1>8, <1>10, <1>11, <2>5 DEF Abreast
<1>12. CASE b \notin Conditionals
  <2>1. arms'.open = arms.open
    BY <1>12, CountedIs DEF FedBoth
  <2>2. tap'.conds = tap.conds
    BY <1>12, TapPlain DEF FedBoth
  <2>3. legacy'.mode = "skip" /\ legacy'.depth = d
    BY <1>10, <1>12
  <2>4. Len(tap'.conds) = n + legacy'.depth - 1
    BY <1>3, <1>4, <2>2, <2>3
  <2> QED BY <1>4, <1>5, <1>11, <2>1, <2>2, <2>3, <2>4
<1>13. CASE b \in {OpIf, OpNotIf}
  <2>1. tap.mode = "op"
    BY <1>9, <1>13 DEF Conditionals
  <2>2. tap' # Refuse(tap) /\ Refuse(tap).res = "refused"
    BY KeptByItems DEF FedBoth
  <2>3. tap' = TapIf(tap, b)
    <3>1. CASE TapWithinLimits(tap)
      BY <1>13, <2>1, <3>1, TapLoop DEF FedBoth
    <3>2. CASE ~TapWithinLimits(tap)
      BY <2>1, <2>2, <3>2 DEF FedBoth, TapReads
    <3> QED BY <3>1, <3>2
  <2>4. PICK c \in BOOLEAN : tap'.conds = Append(tap.conds, c)
    <3>1. Machine(tap)
      BY DEF FedBoth
    <3> QED BY <2>2, <2>3, <3>1, TapIfDoes
  <2>5. Len(tap'.conds) = m + 1 /\ \A i \in 1..m : tap'.conds[i] = tap.conds[i]
    <3>1. /\ Len(Append(tap.conds, c)) = Len(tap.conds) + 1
          /\ \A i \in 1..Len(tap.conds) : Append(tap.conds, c)[i] = tap.conds[i]
      BY <1>5, OneMore
    <3> QED BY <1>3, <2>4, <3>1
  <2>6. PICK arm \in Arm : arms'.open = Append(arms.open, arm) /\ arm.elses = 0
    <3>1. PICK t \in BOOLEAN : t = (Taken(arms.open) /\ tap.stack # <<>> /\ Condition(tap, b))
      OBVIOUS
    <3>2. PICK arm : arm = [taken |-> t, elses |-> 0]
      OBVIOUS
    <3>3. arm \in Arm /\ arm.elses = 0
      BY <3>2 DEF Arm
    <3>4. arms'.open = Append(arms.open, arm)
      BY <1>13, <2>1, <3>1, <3>2, CountedIs DEF FedBoth
    <3> QED BY <3>3, <3>4
  <2>7. /\ Len(arms'.open) = m + 1 /\ \A i \in 1..m : arms'.open[i] = arms.open[i]
        /\ arms'.open[m + 1].elses = 0
    <3>1. arms.open \in Seq(Arm)
      BY DEF FedBoth, InArms
    <3> QED BY <1>5, <2>6, <3>1, OneMore
  <2>8. \A i \in 1..(m + 1) : i \in 1..m \/ i = m + 1
    BY <1>6
  <2>9. \A i \in 1..Len(arms'.open) : arms'.open[i].elses <= 1
    BY <1>5, <2>7, <2>8
  <2>10. legacy'.mode = "skip" /\ legacy'.depth = d + 1 /\ d + 1 \in Nat \ {0}
         /\ m + 1 = n + (d + 1) - 1
    BY <1>4, <1>10, <1>13
  <2>11. \A i \in 1..(n - 1) : i \in 1..m
    BY <1>4
  <2>12. /\ \A i \in 1..n : tap'.conds[i] = tap.conds[i]
         /\ \A i \in 1..(n - 1) : arms'.open[i].elses = arms.open[i].elses
    BY <1>6, <2>5, <2>7, <2>11
  <2>13. Len(tap'.conds) = n + legacy'.depth - 1 /\ legacy'.depth \in Nat \ {0}
    BY <2>5, <2>10
  <2> QED BY <1>11, <2>9, <2>10, <2>12, <2>13
<1>14. CASE b = OpElse
  <2>1. tap.mode = "op" /\ FedBoth(OpElse)
    BY <1>9, <1>14 DEF Conditionals
  <2>2. /\ tap'.mode = "op"
        /\ Len(tap'.conds) = m /\ \A i \in 1..(m - 1) : tap'.conds[i] = tap.conds[i]
        /\ tap'.conds[m] <=> ~tap.conds[m] /\ \A i \in 1..(m - 1) : tap.conds[i]
        /\ Len(arms'.open) = m /\ \A i \in 1..(m - 1) : arms'.open[i] = arms.open[i]
        /\ arms.open[m].elses = 0 /\ arms'.open[m].elses = 1
    BY <1>3, <2>1, TapOnElse
  <2>3. \A i \in 1..m : i \in 1..(m - 1) \/ i = m
    BY <1>6
  <2>4. \A i \in 1..(m - 1) : i \in 1..m
    BY <1>6
  <2>5. \A i \in 1..Len(arms'.open) : arms'.open[i].elses <= 1
    BY <1>5, <2>2, <2>3, <2>4
  <2>6. CASE d = 1
    <3>1. m = n /\ legacy'.mode = "op"
      BY <1>4, <1>10, <1>14, <2>6
    <3>2. \A i \in 1..(n - 1) : tap'.conds[i] /\ (legacy'.conds[i] <=> arms'.open[i].elses = 0)
      BY <1>4, <1>10, <2>2, <3>1 DEF FirstArm
    <3>3. tap'.conds[n] /\ ~legacy'.conds[n] /\ arms'.open[n].elses # 0
      BY <1>4, <1>10, <2>2, <3>1
    <3>4. \A i \in 1..n : tap'.conds[i] /\ (legacy'.conds[i] <=> arms'.open[i].elses = 0)
      BY <2>3, <3>1, <3>2, <3>3
    <3>5. Len(legacy'.conds) = n /\ Len(tap'.conds) = n
      BY <1>1, <1>10, <2>2, <3>1
    <3>6. Together'
      BY <2>2, <3>1, <3>4, <3>5 DEF Together, FirstArm
    <3> QED BY <1>5, <1>8, <1>10, <2>5, <3>1, <3>6 DEF Abreast
  <2>7. CASE d # 1
    <3>1. m > n /\ legacy'.mode = "skip" /\ legacy'.depth = d
      BY <1>4, <1>10, <1>14, <2>7
    <3>2. \A i \in 1..n : i \in 1..(m - 1)
      BY <1>4, <1>6, <3>1
    <3>3. \A i \in 1..(n - 1) : i \in 1..n
      BY <1>4
    <3>4. /\ \A i \in 1..n : tap'.conds[i] = tap.conds[i]
          /\ \A i \in 1..(n - 1) : arms'.open[i].elses = arms.open[i].elses
      BY <2>2, <3>2, <3>3
    <3> QED BY <1>4, <1>11, <2>2, <2>5, <3>1, <3>4
  <2> QED BY <2>6, <2>7
<1>15. CASE b = OpEndIf
  <2>1. tap.mode = "op" /\ FedBoth(OpEndIf)
    BY <1>9, <1>15 DEF Conditionals
  <2>2. /\ Len(tap'.conds) = m - 1 /\ \A i \in 1..(m - 1) : tap'.conds[i] = tap.conds[i]
        /\ Len(arms'.open) = m - 1 /\ \A i \in 1..(m - 1) : arms'.open[i] = arms.open[i]
    BY <1>3, <2>1, TapOnEndIf
  <2>3. /\ legacy'.mode = "skip" /\ legacy'.depth = d - 1 /\ d - 1 \in Nat \ {0}
        /\ m - 1 = n + (d - 1) - 1 /\ m > n
    BY <1>4, <1>9, <1>10, <1>15
  <2>4. \A i \in 1..n : i \in 1..(m - 1)
    BY <1>4, <1>6, <2>3
  <2>5. (\A i \in 1..(n - 1) : i \in 1..n) /\ \A i \in 1..(m - 1) : i \in 1..m
    BY <1>4, <1>6
  <2>6. /\ \A i \in 1..n : tap'.conds[i] = tap.conds[i]
        /\ \A i \in 1..(n - 1) : arms'.open[i].elses = arms.open[i].elses
        /\ \A i \in 1..Len(arms'.open) : arms'.open[i].elses <= 1
    BY <1>5, <2>2, <2>4, <2>5
  <2>7. Len(tap'.conds) = n + legacy'.depth - 1 /\ legacy'.depth \in Nat \ {0}
    BY <2>2, <2>3
  <2> QED BY <1>11, <2>3, <2>6, <2>7
<1> QED BY <1>12, <1>13, <1>14, <1>15 DEF Conditionals

\* Every byte that both read alike keeps them abreast.
LEMMA AbreastStep ==
  ASSUME NEW b \in 0..255, FedBoth(b)
  PROVE  Abreast'
<1>1. CASE legacy.mode = "skip" /\ Skipping
  BY <1>1, AbreastSkips
<1>2. CASE legacy.mode \in {"op", "length", "data"} /\ Together
  <2>1. CASE legacy.mode # "op" \/ b \notin Conditionals
    BY <1>2, <2>1, AbreastPlain
  <2>2. CASE legacy.mode = "op" /\ b \in Conditionals
    BY <1>2, <2>2, AbreastOpens, AbreastTurns, AbreastCloses DEF Conditionals
  <2> QED BY <2>1, <2>2
<1> QED BY <1>1, <1>2 DEF FedBoth, Abreast

\* Both start with the same items and no conditional.
LEMMA AlignedInit == ScriptInit => Aligned
<1> SUFFICES ASSUME ScriptInit PROVE Abreast
  BY DEF Aligned
<1>1. PICK s \in InitialStacks : legacy = StartLegacy(s) /\ tap = Start(s)
  BY DEF ScriptInit
<1>2. /\ tap.stack = s /\ tap.alt = <<>> /\ tap.conds = <<>> /\ tap.mode = "op"
      /\ legacy.stack = s /\ legacy.alt = <<>> /\ legacy.conds = <<>> /\ legacy.mode = "op"
  BY <1>1 DEF StartLegacy, Start
<1>3. arms.open = <<>>
  BY DEF ScriptInit
<1>4. <<>> \in Seq(BOOLEAN) /\ Len(<<>>) = 0
  BY EmptySeq
<1> QED BY <1>2, <1>3, <1>4 DEF Abreast, Together

\* Every byte, and the end of the script, keep the two aligned.
LEMMA AlignedStep ==
  ASSUME ScriptInv, Aligned, [ScriptNext(0..255)]_scriptVars
  PROVE  Aligned'
<1>1. Machine(legacy) /\ Machine(tap) /\ ArmsFollowed
  BY DEF ScriptInv
<1>2. ASSUME NEW b \in 0..255, Feed(b) PROVE Aligned'
  <2> SUFFICES ASSUME legacy'.res = "running", tap'.res = "running", arms'.aligned
               PROVE  Abreast'
    BY DEF Aligned
  <2>1. legacy' = LegacyReads(legacy, b) /\ tap' = TapReads(tap, b)
    BY <1>2 DEF Feed
  <2>2. arms'.open = Counted(arms.open, b) /\ arms.aligned /\ ~Strays(b)
    BY <1>2 DEF Feed
  <2>3. legacy.res = "running"
    BY <1>1, <2>1, LegacyStays
  <2>4. tap.res = "running"
    BY <1>1, <1>2, TapStep
  <2>5. Abreast /\ InArms(tap.conds, arms.open)
    BY <1>1, <2>2, <2>3, <2>4 DEF Aligned, ArmsFollowed
  <2>6. FedBoth(b)
    BY <1>1, <2>1, <2>2, <2>3, <2>4, <2>5 DEF FedBoth
  <2> QED BY <2>6, AbreastStep
<1>3. ASSUME EndScript PROVE Aligned'
  <2>1. tap' = TapEnds(tap) /\ tap'.res # "running"
    BY <1>1, <1>3 DEF EndScript, TapEnds, Machine
  <2> QED BY <2>1 DEF Aligned
<1>4. CASE UNCHANGED scriptVars
  BY <1>4 DEF Aligned, Abreast, Together, Skipping, FirstArm, scriptVars
<1> QED BY <1>2, <1>3, <1>4 DEF ScriptNext

\* On every script, as long as it stays off the four things that the legacy
\* engine is known to read differently, both interpreters hold the same items
\* and skip the same bytes, whatever the flags and the limits.
THEOREM AlwaysInLockStep == ScriptSpec => []LockStep
<1>1. ScriptInv /\ Aligned => LockStep
  <2> SUFFICES ASSUME ScriptInv, Aligned, legacy.res = "running", tap.res = "running", arms.aligned
               PROVE  /\ legacy.stack = tap.stack /\ legacy.alt = tap.alt
                      /\ (legacy.mode = "skip") = ~Executing(tap)
                      /\ Len(tap.conds) = Len(legacy.conds) +
                                          (IF legacy.mode = "skip" THEN legacy.depth - 1 ELSE 0)
    BY DEF LockStep
  <2>1. Abreast /\ Len(tap.conds) \in Nat
    BY DEF Aligned, ScriptInv, ArmsFollowed, InArms
  <2>2. legacy.stack = tap.stack /\ legacy.alt = tap.alt /\ legacy.conds \in Seq(BOOLEAN)
    BY <2>1 DEF Abreast
  <2>3. CASE legacy.mode = "skip" /\ Skipping
    <3>1. PICK n \in Nat : n = Len(legacy.conds)
      BY <2>2
    <3>2. n >= 1 /\ legacy.depth \in Nat \ {0} /\ Len(tap.conds) = n + legacy.depth - 1 /\ ~tap.conds[n]
      BY <2>3, <3>1 DEF Skipping
    <3>3. n \in 1..Len(tap.conds)
      BY <3>1, <3>2
    <3>4. ~Executing(tap)
      BY <3>2, <3>3 DEF Executing
    <3>5. Len(tap.conds) = Len(legacy.conds) + (legacy.depth - 1)
      BY <3>1, <3>2
    <3> QED BY <2>2, <2>3, <3>4, <3>5
  <2>4. CASE legacy.mode \in {"op", "length", "data"} /\ Together
    <3>1. Executing(tap) /\ legacy.mode # "skip"
      BY <2>4, TogetherExecutes
    <3>2. Len(tap.conds) = Len(legacy.conds) + 0
      BY <2>1, <2>4 DEF Together
    <3> QED BY <2>2, <3>1, <3>2
  <2> QED BY <2>1, <2>3, <2>4 DEF Abreast
<1>2. ScriptInit => ScriptInv /\ Aligned
  BY ScriptInvInit, AlignedInit
<1>3. ScriptInv /\ Aligned /\ [ScriptNext(0..255)]_scriptVars => ScriptInv' /\ Aligned'
  BY ScriptInvStep, AlignedStep
<1> QED BY <1>1, <1>2, <1>3, PTL DEF ScriptSpec

-----------------------------------------------------------------------------
(* Spending: what an output commits to and what a signature covers         *)

\* The nodes of a path, from the leaf to the root.
IsNodes(f, leaf, path) ==
    f = [j \in 0..Len(path) |-> IF j = 0 THEN leaf ELSE TapBranch(f[j - 1], path[j])]

\* The hashes at every depth of a tree.
IsLevels(f, root) ==
    f = [d \in 0..MaxPath |-> IF d = 0 THEN {root} ELSE UNION {Inside(h) : h \in f[d - 1]}]

\* What the two recursive functions are.
LEMMA RootUnfolds ==
  ASSUME NEW leaf, NEW path
  PROVE  MerkleRoot(leaf, path) = (CHOOSE f : IsNodes(f, leaf, path))[Len(path)]
  BY DEF MerkleRoot, IsNodes

\* What LeavesOf names, in terms of the levels of the tree.
LEMMA LeavesUnfold ==
  ASSUME NEW root
  PROVE  LET level == CHOOSE f : IsLevels(f, root)
         IN  LeavesOf(root) =
               {h.leaf : h \in {x \in UNION {level[d] : d \in 0..MaxPath} : "leaf" \in DOMAIN x}}
  BY DEF LeavesOf, IsLevels

\* A function given by its first value and by a step exists: no number is the
\* smallest one it cannot reach.
LEMMA NodesExist ==
  ASSUME NEW leaf, NEW path, Len(path) \in Nat
  PROVE  \E f : IsNodes(f, leaf, path)
<1> DEFINE Upto(f, n) == f = [j \in 0..n |-> IF j = 0 THEN leaf ELSE TapBranch(f[j - 1], path[j])]
           B == {n \in Nat : ~\E f : Upto(f, n)}
<1>1. B = {}
  <2> SUFFICES ASSUME B # {} PROVE FALSE
    OBVIOUS
  <2>1. PICK n \in B : \A m \in B : ~(m < n)
    <3>1. B \in SUBSET Nat
      OBVIOUS
    <3> QED BY <3>1, SmallestNumber
  <2>2. CASE n = 0
    <3>1. Upto([j \in 0..0 |-> leaf], 0)
      OBVIOUS
    <3> QED BY <2>1, <2>2, <3>1
  <2>3. CASE n # 0
    <3>1. n \in Nat /\ n - 1 \in Nat /\ n - 1 < n
      BY <2>1, <2>3
    <3>2. n - 1 \notin B
      BY <2>1, <3>1
    <3>3. PICK f : Upto(f, n - 1)
      BY <3>2, <3>1
    <3> DEFINE g == [j \in 0..n |-> IF j < n THEN f[j] ELSE TapBranch(f[n - 1], path[n])]
    <3>4. ASSUME NEW j \in 0..n
          PROVE  g[j] = IF j = 0 THEN leaf ELSE TapBranch(g[j - 1], path[j])
      <4>1. CASE j = 0
        BY <2>3, <3>1, <3>3, <4>1
      <4>2. CASE j # 0 /\ j < n
        <5>1. j \in 0..(n - 1) /\ j - 1 \in 0..n /\ j - 1 < n
          BY <2>1, <4>2
        <5>2. f[j] = TapBranch(f[j - 1], path[j])
          BY <3>3, <4>2, <5>1
        <5> QED BY <4>2, <5>1, <5>2
      <4>3. CASE j = n
        <5>1. n - 1 \in 0..n /\ n - 1 < n
          BY <2>1, <3>1
        <5> QED BY <2>3, <4>3, <5>1
      <4> QED BY <2>1, <4>1, <4>2, <4>3
    <3>5. g = [j \in 0..n |-> g[j]]
      OBVIOUS
    <3> HIDE DEF g
    <3>6. Upto(g, n)
      BY <3>4, <3>5
    <3> QED BY <2>1, <3>6
  <2> QED BY <2>2, <2>3
<1>2. Len(path) \notin B
  BY <1>1
<1> QED BY <1>2 DEF IsNodes

\* The levels of a tree exist down to every depth.
LEMMA LevelsExist ==
  ASSUME NEW root
  PROVE  \E f : IsLevels(f, root)
<1> DEFINE Step(S) == UNION {Inside(h) : h \in S}
<1> HIDE DEF Step
<1> DEFINE Upto(f, n) == f = [d \in 0..n |-> IF d = 0 THEN {root} ELSE Step(f[d - 1])]
           B == {n \in Nat : ~\E f : Upto(f, n)}
<1>1. B = {}
  <2> SUFFICES ASSUME B # {} PROVE FALSE
    OBVIOUS
  <2>1. PICK n \in B : \A m \in B : ~(m < n)
    <3>1. B \in SUBSET Nat
      OBVIOUS
    <3> QED BY <3>1, SmallestNumber
  <2>2. CASE n = 0
    <3>1. Upto([j \in 0..0 |-> {root}], 0)
      OBVIOUS
    <3> QED BY <2>1, <2>2, <3>1
  <2>3. CASE n # 0
    <3>1. n \in Nat /\ n - 1 \in Nat /\ n - 1 < n
      BY <2>1, <2>3
    <3>2. n - 1 \notin B
      BY <2>1, <3>1
    <3>3. PICK f : Upto(f, n - 1)
      BY <3>2, <3>1
    <3> DEFINE g == [j \in 0..n |-> IF j < n THEN f[j] ELSE Step(f[n - 1])]
    <3>4. ASSUME NEW j \in 0..n
          PROVE  g[j] = IF j = 0 THEN {root} ELSE Step(g[j - 1])
      <4>1. CASE j = 0
        BY <2>3, <3>1, <3>3, <4>1
      <4>2. CASE j # 0 /\ j < n
        <5>1. j \in 0..(n - 1) /\ j - 1 \in 0..n /\ j - 1 < n
          BY <2>1, <4>2
        <5>2. f[j] = Step(f[j - 1])
          BY <3>3, <4>2, <5>1
        <5> QED BY <4>2, <5>1, <5>2
      <4>3. CASE j = n
        <5>1. n - 1 \in 0..n /\ n - 1 < n
          BY <2>1, <3>1
        <5> QED BY <2>3, <4>3, <5>1
      <4> QED BY <2>1, <4>1, <4>2, <4>3
    <3>5. g = [j \in 0..n |-> g[j]]
      OBVIOUS
    <3> HIDE DEF g
    <3>6. Upto(g, n)
      BY <3>4, <3>5
    <3> QED BY <2>1, <3>6
  <2> QED BY <2>2, <2>3
<1>2. MaxPath \notin B /\ MaxPath \in Nat
  BY <1>1, SpendAssumption
<1> QED BY <1>2 DEF IsLevels, Step

\* A leaf that hashes to a root along a path is one of the leaves of the root.
LEMMA PathLeads ==
  ASSUME NEW script, NEW path, Len(path) \in 0..MaxPath
  PROVE  script \in LeavesOf(MerkleRoot(TapLeaf(script), path))
<1> DEFINE n == Len(path)
           leaf == TapLeaf(script)
           root == MerkleRoot(leaf, path)
           node == CHOOSE f : IsNodes(f, leaf, path)
           level == CHOOSE f : IsLevels(f, root)
<1>1. MaxPath \in Nat /\ n \in Nat /\ n <= MaxPath
  BY SpendAssumption
<1>2. IsNodes(node, leaf, path) /\ root = node[n]
  BY <1>1, NodesExist, RootUnfolds
<1>3. IsLevels(level, root)
  BY LevelsExist
<1> HIDE DEF node, level, root, leaf
<1>4. /\ node[0] = leaf
      /\ \A j \in 1..n : node[j] = TapBranch(node[j - 1], path[j])
  <2>1. \A j \in 0..n : node[j] = IF j = 0 THEN leaf ELSE TapBranch(node[j - 1], path[j])
    BY <1>2 DEF IsNodes
  <2> QED BY <1>1, <2>1
<1>5. /\ level[0] = {root}
      /\ \A d \in 1..n : level[d] = UNION {Inside(h) : h \in level[d - 1]}
  <2>1. \A d \in 0..MaxPath : level[d] = IF d = 0 THEN {root} ELSE UNION {Inside(h) : h \in level[d - 1]}
    BY <1>3 DEF IsLevels
  <2>2. 0 \in 0..MaxPath /\ \A d \in 1..n : d \in 0..MaxPath /\ d # 0
    BY <1>1
  <2>3. level[0] = {root}
    BY <2>1, <2>2
  <2>4. ASSUME NEW d \in 1..n PROVE level[d] = UNION {Inside(h) : h \in level[d - 1]}
    BY <2>1, <2>2
  <2> QED BY <2>3, <2>4
<1>6. \A j \in 1..n : node[j - 1] \in Inside(node[j])
  <2> TAKE j \in 1..n
  <2>1. node[j] = [branch |-> {node[j - 1], path[j]}]
    BY <1>4 DEF TapBranch
  <2>2. "branch" \in DOMAIN node[j] /\ node[j].branch = {node[j - 1], path[j]}
    BY <2>1
  <2> QED BY <2>2 DEF Inside
<1>7. \A d \in 0..n : node[n - d] \in level[d]
  <2> DEFINE B == {d \in 0..n : node[n - d] \notin level[d]}
  <2> SUFFICES ASSUME B # {} PROVE FALSE
    OBVIOUS
  <2>1. PICK d \in B : \A m \in B : ~(m < d)
    <3>1. B \in SUBSET Nat
      BY <1>1
    <3> QED BY <3>1, SmallestNumber
  <2>2. d # 0
    BY <1>1, <1>2, <1>5, <2>1
  <2>3. d \in 1..n /\ d - 1 \in 0..n /\ d - 1 < d /\ n - (d - 1) \in 1..n /\ n - (d - 1) - 1 = n - d
    BY <1>1, <2>1, <2>2
  <2>4. node[n - (d - 1)] \in level[d - 1]
    BY <2>1, <2>3
  <2>5. node[n - d] \in Inside(node[n - (d - 1)])
    BY <1>6, <2>3
  <2>6. node[n - d] \in level[d]
    BY <1>5, <2>3, <2>4, <2>5
  <2> QED BY <2>1, <2>6
<1>8. leaf \in level[n] /\ n \in 0..MaxPath
  <2>1. n \in 0..n /\ n - n = 0
    BY <1>1
  <2> QED BY <1>1, <1>4, <1>7, <2>1
<1>9. leaf \in UNION {level[d] : d \in 0..MaxPath} /\ "leaf" \in DOMAIN leaf /\ leaf.leaf = script
  BY <1>8 DEF leaf, TapLeaf
<1>10. LeavesOf(root) =
          {h.leaf : h \in {x \in UNION {level[d] : d \in 0..MaxPath} : "leaf" \in DOMAIN x}}
  BY LeavesUnfold DEF level
<1>11. script \in LeavesOf(root)
  BY <1>9, <1>10
<1> QED BY <1>11 DEF root, leaf

-----------------------------------------------------------------------------
\* What two transactions have in common when the digests of input i of one and
\* of input k of the other are the same.
Alike(tx, i, other, k, type, first) ==
    /\ tx.lock = other.lock
    /\ tx.ins[i].prev = other.ins[k].prev
    /\ ~type.acp => /\ i = k /\ Len(tx.ins) = Len(other.ins)
                    /\ \A j \in 1..Len(other.ins) : tx.ins[j].prev = other.ins[j].prev
    /\ type.base \in {"ALL", "DEFAULT"} => tx.outs = other.outs
    /\ type.base = "SINGLE" /\ ~(first /\ type.acp) => tx.outs[i] = other.outs[k]

\* The outputs that a transaction spends, in order.
Prevs(tx) == [j \in 1..Len(tx.ins) |-> tx.ins[j].prev]

\* The outputs that a signature covers, by the base of its sighash type.
LEMMA OutputsAre ==
  ASSUME NEW tx, NEW at, NEW base
  PROVE  /\ base \in {"ALL", "DEFAULT"} => Outputs(tx, at, base) = tx.outs
         /\ base = "SINGLE" => Outputs(tx, at, base) = <<tx.outs[at]>>
  BY DEF Outputs

\* Two lists of spent outputs that are equal agree in every place.
LEMMA PrevsAre ==
  ASSUME NEW tx \in Transactions, NEW other \in Transactions, Prevs(tx) = Prevs(other)
  PROVE  /\ Len(tx.ins) = Len(other.ins)
         /\ \A j \in 1..Len(other.ins) : tx.ins[j].prev = other.ins[j].prev
<1>1. Len(tx.ins) \in Nat /\ Len(other.ins) \in Nat
  BY TransactionAssumption
<1>2. 1..Len(tx.ins) = 1..Len(other.ins)
  BY DEF Prevs
<1>3. Len(tx.ins) = Len(other.ins)
  BY <1>1, <1>2
<1>4. ASSUME NEW j \in 1..Len(other.ins) PROVE tx.ins[j].prev = other.ins[j].prev
  <2>1. Prevs(tx)[j] = tx.ins[j].prev /\ Prevs(other)[j] = other.ins[j].prev
    BY <1>3 DEF Prevs
  <2> QED BY <2>1
<1> QED BY <1>3, <1>4

\* The place of the input and the inputs as calculate_legacy_sighash writes them.
At(i, type) == IF type.acp THEN 1 ELSE i
SignedIns(tx, i, type) ==
    LET ins == IF type.acp THEN <<tx.ins[i]>> ELSE tx.ins
    IN  [j \in 1..Len(ins) |->
            IF j = At(i, type) \/ type.base = "ALL" THEN ins[j] ELSE [ins[j] EXCEPT !.seq = 0]]

\* The fields of a legacy digest that is not the constant one.
LEMMA LegacyFields ==
  ASSUME NEW tx, NEW i, NEW type, type.acp \in BOOLEAN, NEW code, LegacyDigest(tx, i, type, code) # One
  PROVE  LET d == LegacyDigest(tx, i, type, code)
         IN  /\ d.lock = tx.lock /\ d.at = At(i, type) /\ d.ins = SignedIns(tx, i, type)
             /\ d.outs = Outputs(tx, At(i, type), type.base)
  BY DEF LegacyDigest, At, SignedIns

\* An equal legacy digest was made for a transaction that is alike.
LEMMA LegacyAlike ==
  ASSUME NEW tx \in Transactions, NEW other \in Transactions,
         NEW i \in 1..Len(tx.ins), NEW k \in 1..Len(other.ins),
         NEW type \in SighashTypes, type.base # "DEFAULT", NEW code, NEW script,
         LegacyDigest(tx, i, type, code) = LegacyDigest(other, k, type, script),
         LegacyDigest(other, k, type, script) # One
  PROVE  Alike(tx, i, other, k, type, TRUE)
<1>1. type.acp \in BOOLEAN
  BY SpendAssumption
<1>2. LegacyDigest(tx, i, type, code) # One
  OBVIOUS
<1>3. /\ LegacyDigest(tx, i, type, code).lock = tx.lock
      /\ LegacyDigest(tx, i, type, code).at = At(i, type)
      /\ LegacyDigest(tx, i, type, code).outs = Outputs(tx, At(i, type), type.base)
      /\ LegacyDigest(tx, i, type, code).ins = SignedIns(tx, i, type)
  BY <1>2, <1>1, LegacyFields
<1>4. /\ LegacyDigest(other, k, type, script).lock = other.lock
      /\ LegacyDigest(other, k, type, script).at = At(k, type)
      /\ LegacyDigest(other, k, type, script).outs = Outputs(other, At(k, type), type.base)
      /\ LegacyDigest(other, k, type, script).ins = SignedIns(other, k, type)
  BY <1>2, <1>1, LegacyFields
<1>5. /\ tx.lock = other.lock /\ At(i, type) = At(k, type)
      /\ Outputs(tx, At(i, type), type.base) = Outputs(other, At(k, type), type.base)
      /\ SignedIns(tx, i, type) = SignedIns(other, k, type)
  BY <1>3, <1>4
<1>6. /\ type.base \in {"ALL", "DEFAULT"} => tx.outs = other.outs
      /\ type.base = "SINGLE" /\ ~type.acp => tx.outs[i] = other.outs[k]
  <2>1. ~type.acp => At(i, type) = i /\ At(k, type) = k
    BY DEF At
  <2> QED BY <1>5, <2>1, OutputsAre
<1>7. ASSUME NEW t \in Transactions, NEW n \in 1..Len(t.ins)
      PROVE  /\ type.acp => SignedIns(t, n, type)[1] = t.ins[n]
             /\ ~type.acp => /\ DOMAIN SignedIns(t, n, type) = 1..Len(t.ins)
                             /\ \A j \in 1..Len(t.ins) : SignedIns(t, n, type)[j].prev = t.ins[j].prev
  <2>1. \A j \in 1..Len(t.ins) : "prev" \in DOMAIN t.ins[j]
    BY TransactionAssumption
  <2>2. CASE type.acp
    BY <2>2 DEF SignedIns, At
  <2>3. CASE ~type.acp
    <3>1. SignedIns(t, n, type) = [j \in 1..Len(t.ins) |-> IF j = n \/ type.base = "ALL" THEN t.ins[j]
                                                   ELSE [t.ins[j] EXCEPT !.seq = 0]]
      BY <2>3 DEF SignedIns, At
    <3>2. \A j \in 1..Len(t.ins) : [t.ins[j] EXCEPT !.seq = 0].prev = t.ins[j].prev
      BY <2>1
    <3> QED BY <2>3, <3>1, <3>2
  <2> QED BY <1>1, <2>2, <2>3
<1>8. CASE type.acp
  <2>1. tx.ins[i] = other.ins[k]
    BY <1>5, <1>7, <1>8
  <2> QED BY <1>5, <1>6, <1>8, <2>1 DEF Alike
<1>9. CASE ~type.acp
  <2>1. i = k
    BY <1>5, <1>9 DEF At
  <2>2. Len(tx.ins) = Len(other.ins)
    <3>1. Len(tx.ins) \in Nat /\ Len(other.ins) \in Nat
      BY TransactionAssumption
    <3>2. 1..Len(tx.ins) = 1..Len(other.ins)
      BY <1>5, <1>7, <1>9
    <3> QED BY <3>1, <3>2
  <2>3. \A j \in 1..Len(other.ins) : tx.ins[j].prev = other.ins[j].prev
    BY <1>5, <1>7, <1>9, <2>2
  <2> QED BY <1>5, <1>6, <1>9, <2>1, <2>2, <2>3 DEF Alike
<1> QED BY <1>1, <1>8, <1>9

\* calculate_segwit_v0_sighash
LEMMA SegwitFields ==
  ASSUME NEW tx, NEW i, NEW type, type.acp \in BOOLEAN, NEW code, SegwitDigest(tx, i, type, code) # One
  PROVE  LET d == SegwitDigest(tx, i, type, code)
         IN  /\ d.lock = tx.lock /\ d.this = tx.ins[i] /\ d.outs = Outputs(tx, i, type.base)
             /\ ~type.acp => d.prevs = Prevs(tx)
  BY DEF SegwitDigest, Prevs

\* An equal BIP143 digest was made for a transaction that is alike.
LEMMA SegwitAlike ==
  ASSUME NEW tx \in Transactions, NEW other \in Transactions,
         NEW i \in 1..Len(tx.ins), NEW k \in 1..Len(other.ins),
         NEW type \in SighashTypes, NEW code, NEW script,
         SegwitDigest(tx, i, type, code) = SegwitDigest(other, k, type, script),
         SegwitDigest(other, k, type, script) # One
  PROVE  Alike(tx, i, other, k, type, FALSE)
<1>1. type.acp \in BOOLEAN
  BY SpendAssumption
<1>2. SegwitDigest(tx, i, type, code) # One
  OBVIOUS
<1> DEFINE d == SegwitDigest(tx, i, type, code)
           e == SegwitDigest(other, k, type, script)
<1> DEFINE Fields(f, t, n) == /\ f.lock = t.lock /\ f.this = t.ins[n]
                              /\ f.outs = Outputs(t, n, type.base)
                              /\ ~type.acp => f.prevs = Prevs(t)
<1>3. ASSUME NEW t, NEW n, NEW c, SegwitDigest(t, n, type, c) # One
      PROVE  Fields(SegwitDigest(t, n, type, c), t, n)
  BY <1>1, <1>3, SegwitFields
<1> HIDE DEF Fields
<1>4. Fields(d, tx, i)
  BY <1>2, <1>3
<1>5. Fields(e, other, k)
  BY <1>3
<1> USE DEF Fields
<1>6. /\ tx.lock = other.lock /\ tx.ins[i] = other.ins[k]
      /\ Outputs(tx, i, type.base) = Outputs(other, k, type.base)
      /\ ~type.acp => Prevs(tx) = Prevs(other)
  BY <1>4, <1>5
<1>7. /\ type.base \in {"ALL", "DEFAULT"} => tx.outs = other.outs
      /\ type.base = "SINGLE" => tx.outs[i] = other.outs[k]
  BY <1>6, OutputsAre
<1>8. ASSUME ~type.acp
      PROVE  /\ i = k /\ Len(tx.ins) = Len(other.ins)
             /\ \A j \in 1..Len(other.ins) : tx.ins[j].prev = other.ins[j].prev
  <2>1. /\ Len(tx.ins) = Len(other.ins)
        /\ \A j \in 1..Len(other.ins) : tx.ins[j].prev = other.ins[j].prev
    BY <1>6, <1>8, PrevsAre
  <2>2. k \in 1..Len(tx.ins) /\ tx.ins[i].prev = tx.ins[k].prev
    BY <1>6, <2>1
  <2>3. i = k
    BY <2>2, TransactionAssumption
  <2> QED BY <2>1, <2>3
<1> QED BY <1>6, <1>7, <1>8 DEF Alike

\* calculate_taproot_keypath_sighash
LEMMA KeyPathFields ==
  ASSUME NEW tx, NEW i, NEW type, type.acp \in BOOLEAN, NEW spk, NEW annex,
         KeyPathDigest(tx, i, type, spk, annex) # Zero
  PROVE  LET d == KeyPathDigest(tx, i, type, spk, annex)
         IN  /\ d.lock = tx.lock /\ d.outs = Outputs(tx, i, type.base)
             /\ type.acp => d.this = tx.ins[i]
             /\ ~type.acp => d.prevs = Prevs(tx) /\ d.this = [at |-> i]
             /\ "scheme" \in DOMAIN d
  BY DEF KeyPathDigest, Prevs

\* An equal key path digest was made for a transaction that is alike.
LEMMA KeyPathAlike ==
  ASSUME NEW tx \in Transactions, NEW other \in Transactions,
         NEW i \in 1..Len(tx.ins), NEW k \in 1..Len(other.ins),
         NEW type \in SighashTypes, NEW spk, NEW annex, NEW spko, NEW annexo,
         KeyPathDigest(tx, i, type, spk, annex) = KeyPathDigest(other, k, type, spko, annexo),
         KeyPathDigest(other, k, type, spko, annexo) # Zero
  PROVE  Alike(tx, i, other, k, type, FALSE)
<1>1. type.acp \in BOOLEAN
  BY SpendAssumption
<1> DEFINE d == KeyPathDigest(tx, i, type, spk, annex)
           e == KeyPathDigest(other, k, type, spko, annexo)
<1>2. /\ d.lock = tx.lock /\ d.outs = Outputs(tx, i, type.base)
      /\ type.acp => d.this = tx.ins[i]
      /\ ~type.acp => d.prevs = Prevs(tx) /\ d.this = [at |-> i]
  BY <1>1, KeyPathFields
<1>3. /\ e.lock = other.lock /\ e.outs = Outputs(other, k, type.base)
      /\ type.acp => e.this = other.ins[k]
      /\ ~type.acp => e.prevs = Prevs(other) /\ e.this = [at |-> k]
  BY <1>1, KeyPathFields
<1>4. /\ tx.lock = other.lock
      /\ Outputs(tx, i, type.base) = Outputs(other, k, type.base)
      /\ type.acp => tx.ins[i] = other.ins[k]
      /\ ~type.acp => Prevs(tx) = Prevs(other) /\ [at |-> i] = [at |-> k]
  BY <1>2, <1>3
<1>5. /\ type.base \in {"ALL", "DEFAULT"} => tx.outs = other.outs
      /\ type.base = "SINGLE" => tx.outs[i] = other.outs[k]
  BY <1>4, OutputsAre
<1>6. ASSUME ~type.acp
      PROVE  /\ i = k /\ Len(tx.ins) = Len(other.ins)
             /\ \A j \in 1..Len(other.ins) : tx.ins[j].prev = other.ins[j].prev
  <2>1. /\ Len(tx.ins) = Len(other.ins)
        /\ \A j \in 1..Len(other.ins) : tx.ins[j].prev = other.ins[j].prev
    BY <1>4, <1>6, PrevsAre
  <2>2. [at |-> i].at = [at |-> k].at
    BY <1>4, <1>6
  <2> QED BY <2>1, <2>2
<1>7. tx.ins[i].prev = other.ins[k].prev
  BY <1>1, <1>4, <1>6
<1> QED BY <1>4, <1>5, <1>6, <1>7 DEF Alike

-----------------------------------------------------------------------------
\* The items a spend brings, by their number.
LEMMA WitnessShape ==
  ASSUME NEW sig, NEW w \in Witnesses(sig)
  PROVE  /\ Len(w) \in 1..3 => w[1] = sig
         /\ Len(w) >= 3 => Len(w) = 3 /\ w[2] \in Leaves /\ w[3] \in ControlBlocks
<1>1. ASSUME w = <<>> PROVE Len(w) = 0
  BY <1>1
<1>2. ASSUME w = <<sig>> PROVE Len(w) = 1 /\ w[1] = sig
  BY <1>2
<1>3. ASSUME NEW k \in Key, w = <<sig, k>> PROVE Len(w) = 2 /\ w[1] = sig
  BY <1>3
<1>4. ASSUME NEW l \in Leaves, NEW c \in ControlBlocks, w = <<sig, l, c>>
      PROVE  Len(w) = 3 /\ w[1] = sig /\ w[2] = l /\ w[3] = c
  BY <1>4
<1>5. \/ w = <<>> \/ w = <<sig>> \/ \E k \in Key : w = <<sig, k>>
      \/ \E l \in Leaves, c \in ControlBlocks : w = <<sig, l, c>>
  BY DEF Witnesses
<1>6. ASSUME Len(w) = 0 PROVE Len(w) \notin 1..3 /\ ~(Len(w) >= 3)
  BY <1>6
<1>7. ASSUME Len(w) \in {1, 2} PROVE ~(Len(w) >= 3)
  BY <1>7
<1> QED BY <1>1, <1>3, <1>4, <1>2, <1>5, <1>6, <1>7

\* A script signature of two items has the signature first.
LEMMA PairShape ==
  ASSUME NEW q, NEW sig, Len(q) = 2,
         q = <<>> \/ (\E k : q = <<k>>) \/ \E k : q = <<sig, k>>
  PROVE  q[1] = sig
<1>1. ASSUME q = <<>> PROVE Len(q) = 0
  BY <1>1
<1>2. ASSUME NEW k, q = <<k>> PROVE Len(q) = 1
  BY <1>2
<1>3. ASSUME NEW k, q = <<sig, k>> PROVE q[1] = sig
  BY <1>3
<1> QED BY <1>1, <1>2, <1>3

\* A signature that a wallet made for input i of a transaction.
MadeFor(sig, spk) ==
    /\ sig.tx \in Transactions /\ sig.i \in 1..Len(sig.tx.ins) /\ sig.type \in SighashTypes
    /\ \E annex, leaf : sig.digest = Digest(spk, sig.tx, sig.i, sig.type, annex, leaf)

\* What a spend must show: an owner signed, and signed this.
Whole(sig) == sig.digest \notin {One, Zero}
Authorised(spk, tx, i, sig) ==
    /\ sig.key \in Owners(spk)
    /\ Whole(sig) => Alike(tx, i, sig.tx, sig.i, sig.type, spk.kind \notin {"p2wpkh", "p2tr"})

\* The spend s of input i of tx with the signature sig.
Carries(s, tx, i, sig) ==
    s.tx = tx /\ s.i = i /\ s.witness \in Witnesses(sig)

\* What P2wpkh accepts was signed by a key of the output, for this spend.
LEMMA WitnessKey ==
  ASSUME NEW spk, spk.kind = "p2wpkh", NEW sig, MadeFor(sig, spk),
         NEW tx \in Transactions, NEW i \in 1..Len(tx.ins), NEW s, Carries(s, tx, i, sig),
         P2wpkh(spk, s)
  PROVE  Authorised(spk, tx, i, sig)
<1>1. Len(s.witness) = 2 /\ s.witness[1] = sig
  BY WitnessShape DEF P2wpkh, Carries
<1>2. Hash160(s.witness[2]) = spk.hash /\ sig.key = s.witness[2]
  BY <1>1 DEF P2wpkh, CheckSignature
<1>3. sig.key = spk.hash.hash160
  BY <1>2 DEF Hash160
<1>4. sig.key \in Owners(spk)
  BY <1>3 DEF Owners
<1>5. sig.digest = SegwitDigest(tx, i, sig.type, spk.hash)
  BY <1>1 DEF P2wpkh, CheckSignature, Carries
<1>6. sig.digest = SegwitDigest(sig.tx, sig.i, sig.type, spk.hash)
  BY DEF MadeFor, Digest
<1>7. Whole(sig) => Alike(tx, i, sig.tx, sig.i, sig.type, FALSE)
  BY <1>5, <1>6, SegwitAlike DEF MadeFor, Whole
<1> QED BY <1>4, <1>7 DEF Authorised

\* The digest of a taproot signature: of the key path or of a leaf.
LEMMA TaprootDigest ==
  ASSUME NEW spk, spk.kind = "p2tr", NEW sig, MadeFor(sig, spk)
  PROVE  \E annex : \/ sig.digest = KeyPathDigest(sig.tx, sig.i, sig.type, spk, annex)
                    \/ \E leaf : sig.digest = ScriptPathDigest(sig.tx, sig.i, sig.type, spk, annex, leaf)
<1>1. PICK annex, leaf : sig.digest = Digest(spk, sig.tx, sig.i, sig.type, annex, leaf)
  BY DEF MadeFor
<1>2. \/ sig.digest = KeyPathDigest(sig.tx, sig.i, sig.type, spk, annex)
      \/ sig.digest = ScriptPathDigest(sig.tx, sig.i, sig.type, spk, annex,
                                       TapLeaf(CHOOSE l \in leaf : TRUE))
  BY <1>1 DEF Digest
<1> QED BY <1>2

\* A digest of a leaf is none of a key path.
LEMMA PathsApart ==
  ASSUME NEW tx, NEW i, NEW type \in SighashTypes, NEW spk, NEW annex, NEW leaf,
         NEW other, NEW k, NEW spko, NEW annexo,
         ScriptPathDigest(tx, i, type, spk, annex, leaf) # Zero
  PROVE  /\ ScriptPathDigest(tx, i, type, spk, annex, leaf) # KeyPathDigest(other, k, type, spko, annexo)
         /\ ScriptPathDigest(tx, i, type, spk, annex, leaf).base = KeyPathDigest(tx, i, type, spk, annex)
         /\ KeyPathDigest(tx, i, type, spk, annex) # Zero
<1>1. PICK d : d = KeyPathDigest(tx, i, type, spk, annex)
  OBVIOUS
<1>2. PICK e : e = KeyPathDigest(other, k, type, spko, annexo)
  OBVIOUS
<1>3. PICK p : p = ScriptPathDigest(tx, i, type, spk, annex, leaf)
  OBVIOUS
<1>4. d # Zero /\ p = [base |-> d, tapleaf |-> leaf]
  BY <1>1, <1>3 DEF ScriptPathDigest
<1>5. p.base = d /\ DOMAIN p = {"base", "tapleaf"}
  BY <1>4
<1>6. type.acp \in BOOLEAN
  BY SpendAssumption
<1>7. e = Zero \/ "scheme" \in DOMAIN e
  BY <1>2 DEF KeyPathDigest
<1>8. p # e
  BY <1>3, <1>5, <1>7
<1> QED BY <1>1, <1>2, <1>3, <1>4, <1>5, <1>8

\* What the key path accepts was signed by the output key, for this spend.
LEMMA TaprootKey ==
  ASSUME NEW spk, spk.kind = "p2tr", NEW sig, MadeFor(sig, spk),
         NEW tx \in Transactions, NEW i \in 1..Len(tx.ins), NEW s, Carries(s, tx, i, sig),
         P2trKey(spk, s)
  PROVE  Authorised(spk, tx, i, sig)
<1>1. Len(s.witness) = 1 /\ s.witness[1] = sig
  BY WitnessShape DEF P2trKey, Carries
<1>2. sig.key = spk.key /\ sig.digest = KeyPathDigest(tx, i, sig.type, spk, s.annex)
  BY <1>1 DEF P2trKey, CheckSchnorr, Carries
<1>3. sig.key \in Owners(spk)
  BY <1>2 DEF Owners
<1>4. ASSUME Whole(sig) PROVE Alike(tx, i, sig.tx, sig.i, sig.type, FALSE)
  <2>1. sig.digest # Zero /\ sig.tx \in Transactions /\ sig.i \in 1..Len(sig.tx.ins)
        /\ sig.type \in SighashTypes
    BY <1>4 DEF Whole, MadeFor
  <2>2. PICK annex : \/ sig.digest = KeyPathDigest(sig.tx, sig.i, sig.type, spk, annex)
                     \/ \E leaf : sig.digest = ScriptPathDigest(sig.tx, sig.i, sig.type, spk, annex, leaf)
    BY TaprootDigest
  <2>3. ASSUME NEW leaf, sig.digest = ScriptPathDigest(sig.tx, sig.i, sig.type, spk, annex, leaf)
        PROVE  FALSE
    <3>1. ScriptPathDigest(sig.tx, sig.i, sig.type, spk, annex, leaf) # Zero
      BY <2>1, <2>3
    <3>2. ScriptPathDigest(sig.tx, sig.i, sig.type, spk, annex, leaf)
          # KeyPathDigest(tx, i, sig.type, spk, s.annex)
      BY <2>1, <3>1, PathsApart
    <3> QED BY <1>2, <2>3, <3>2
  <2>4. sig.digest = KeyPathDigest(sig.tx, sig.i, sig.type, spk, annex)
    BY <2>2, <2>3
  <2>5. /\ KeyPathDigest(tx, i, sig.type, spk, s.annex)
           = KeyPathDigest(sig.tx, sig.i, sig.type, spk, annex)
        /\ KeyPathDigest(sig.tx, sig.i, sig.type, spk, annex) # Zero
    BY <1>2, <2>1, <2>4
  <2> QED BY <2>1, <2>5, KeyPathAlike
<1> QED BY <1>3, <1>4 DEF Authorised

\* What the script path accepts was signed by the key of a leaf that the
\* output commits to: the nodes along the control path are levels of its tree.
LEMMA TaprootLeaf ==
  ASSUME NEW spk, spk.kind = "p2tr", NEW sig, MadeFor(sig, spk),
         NEW tx \in Transactions, NEW i \in 1..Len(tx.ins), NEW s, Carries(s, tx, i, sig),
         P2trScript(spk, s)
  PROVE  Authorised(spk, tx, i, sig)
<1>1. Len(s.witness) = 3 /\ s.witness[1] = sig /\ s.witness[3] \in ControlBlocks
  <2>1. Len(s.witness) >= 3
    BY DEF P2trScript
  <2>2. Len(s.witness) = 3 /\ s.witness[3] \in ControlBlocks
    BY <2>1, WitnessShape DEF Carries
  <2> QED BY <2>2, WitnessShape DEF Carries
<1>2. PICK script : script = s.witness[2]
  OBVIOUS
<1>3. PICK control \in ControlBlocks : control = s.witness[3]
  BY <1>1
<1>4. 3 - 1 = 2 /\ 3 - 2 = 1
  OBVIOUS
<1>5. /\ Commits(spk, script, control)
      /\ CheckSchnorr(sig, script.key,
                      ScriptPathDigest(tx, i, sig.type, spk, s.annex, TapLeaf(script)))
  BY <1>1, <1>2, <1>3, <1>4 DEF P2trScript, Carries
<1>6. sig.key = script.key /\ sig.digest = ScriptPathDigest(tx, i, sig.type, spk, s.annex, TapLeaf(script))
  BY <1>5 DEF CheckSchnorr
<1>7. spk.key.root = MerkleRoot(TapLeaf(script), control.path)
  BY <1>5 DEF Commits, Tweak
<1>8. script \in LeavesOf(spk.key.root)
  BY <1>3, <1>7, PathLeads, SpendAssumption
<1>9. sig.key \in Owners(spk)
  BY <1>6, <1>8 DEF Owners
<1>10. ASSUME Whole(sig) PROVE Alike(tx, i, sig.tx, sig.i, sig.type, FALSE)
  <2>1. sig.digest # Zero /\ sig.tx \in Transactions /\ sig.i \in 1..Len(sig.tx.ins)
        /\ sig.type \in SighashTypes
    BY <1>10 DEF Whole, MadeFor
  <2>2. PICK annex : \/ sig.digest = KeyPathDigest(sig.tx, sig.i, sig.type, spk, annex)
                     \/ \E leaf : sig.digest = ScriptPathDigest(sig.tx, sig.i, sig.type, spk, annex, leaf)
    BY TaprootDigest
  <2>3. sig.digest # KeyPathDigest(sig.tx, sig.i, sig.type, spk, annex)
    BY <1>6, <2>1, PathsApart
  <2>4. PICK leaf : sig.digest = ScriptPathDigest(sig.tx, sig.i, sig.type, spk, annex, leaf)
    BY <2>2, <2>3
  <2>5. /\ sig.digest.base = KeyPathDigest(sig.tx, sig.i, sig.type, spk, annex)
        /\ KeyPathDigest(sig.tx, sig.i, sig.type, spk, annex) # Zero
    BY <2>1, <2>4, PathsApart
  <2>6. sig.digest.base = KeyPathDigest(tx, i, sig.type, spk, s.annex)
    BY <1>6, <2>1, PathsApart
  <2>7. /\ KeyPathDigest(tx, i, sig.type, spk, s.annex)
           = KeyPathDigest(sig.tx, sig.i, sig.type, spk, annex)
        /\ KeyPathDigest(sig.tx, sig.i, sig.type, spk, annex) # Zero
    BY <2>5, <2>6
  <2> QED BY <2>1, <2>7, KeyPathAlike
<1> QED BY <1>9, <1>10 DEF Authorised

\* The two scripts that the legacy engine runs.
LEMMA LegacyKey ==
  ASSUME NEW spk, spk.kind \notin {"p2wpkh", "p2tr"}, NEW sig, MadeFor(sig, spk),
         NEW tx \in Transactions, NEW i \in 1..Len(tx.ins), NEW key, NEW code,
         CheckSignature(sig, key, LegacyDigest(tx, i, sig.type, code)), key \in Owners(spk)
  PROVE  Authorised(spk, tx, i, sig)
<1>1. sig.key = key /\ sig.digest = LegacyDigest(tx, i, sig.type, code) /\ sig.type.base # "DEFAULT"
  BY DEF CheckSignature
<1>2. PICK script : sig.digest = LegacyDigest(sig.tx, sig.i, sig.type, script)
  BY DEF MadeFor, Digest
<1>3. Whole(sig) => Alike(tx, i, sig.tx, sig.i, sig.type, TRUE)
  BY <1>1, <1>2, LegacyAlike DEF MadeFor, Whole
<1> QED BY <1>1, <1>3 DEF Authorised

\* Owners by the kind of output.
LEMMA OwnersAre ==
  ASSUME NEW spk
  PROVE  /\ spk.kind = "p2pkh" => spk.hash.hash160 \in Owners(spk)
         /\ spk.kind = "checksig" => spk.key \in Owners(spk)
  BY DEF Owners

\* A spend of each kind of output that verify_input_script accepts.
LEMMA SpendAuthorised ==
  ASSUME output \in SpentOutputs, NEW sig, MadeFor(sig, Program(output)),
         NEW tx \in Transactions, NEW i \in 1..Len(tx.ins), NEW annex, NEW w \in Shapes(sig),
         NEW s, s = [tx |-> tx, i |-> i, annex |-> annex, sig |-> sig,
                     scriptSig |-> w[1], witness |-> w[2]],
         VerifyInputScript(output, s)
  PROVE  Authorised(Program(output), tx, i, sig)
<1>1. s.tx = tx /\ s.i = i /\ s.scriptSig = w[1] /\ s.witness = w[2]
  OBVIOUS
<1>2. \/ output.kind \in {"p2pkh", "p2wpkh", "p2tr"}
      \/ output.kind = "p2sh" /\ output.hash.hash160.kind \in {"p2wpkh", "p2tr", "checksig"}
  BY SpendAssumption
<1>3. output.kind \in {"p2wpkh", "p2tr"} => Carries(s, tx, i, sig) /\ Program(output) = output
  BY <1>1 DEF Shapes, Carries, Program
<1>4. CASE output.kind = "p2wpkh"
  <2>1. P2wpkh(output, s)
    BY <1>4 DEF VerifyInputScript
  <2> QED BY <1>3, <1>4, <2>1, WitnessKey
<1>5. CASE output.kind = "p2tr"
  <2>1. P2trKey(output, s) \/ P2trScript(output, s)
    BY <1>5 DEF VerifyInputScript
  <2> QED BY <1>3, <1>5, <2>1, TaprootKey, TaprootLeaf
<1>6. CASE output.kind = "p2pkh"
  <2>1. P2pkh(output, s) /\ Program(output) = output
    BY <1>6 DEF VerifyInputScript, Program
  <2>2. s.scriptSig \in ScriptSigs(sig)
    BY <1>1, <1>6 DEF Shapes
  <2>3. s.scriptSig[1] = sig
    <3>1. Len(s.scriptSig) = 2
      BY <2>1 DEF P2pkh
    <3>2. \/ s.scriptSig = <<>> \/ (\E k : s.scriptSig = <<k>>)
          \/ \E k : s.scriptSig = <<sig, k>>
      BY <2>2 DEF ScriptSigs
    <3> QED BY <3>1, <3>2, PairShape
  <2>4. PICK key : key = s.scriptSig[2]
    OBVIOUS
  <2>5. Hash160(key) = output.hash
        /\ CheckSignature(sig, key, LegacyDigest(tx, i, sig.type, output.hash))
    BY <1>1, <2>1, <2>3, <2>4 DEF P2pkh
  <2>6. key = output.hash.hash160
    BY <2>5 DEF Hash160
  <2>7. key \in Owners(output)
    BY <1>6, <2>6, OwnersAre
  <2> QED BY <1>6, <2>1, <2>5, <2>7, LegacyKey
<1>7. CASE output.kind = "p2sh"
  <2>1. P2sh(output, s)
    BY <1>7 DEF VerifyInputScript
  <2>2. PICK redeem : redeem = Last(s.scriptSig)
    OBVIOUS
  <2>3. Hash160(redeem) = output.hash /\ Nested(redeem, s)
    BY <2>1, <2>2 DEF P2sh
  <2>4. redeem = Program(output) /\ redeem.kind \in {"p2wpkh", "p2tr", "checksig"}
    <3>1. output.hash.hash160 = redeem
      BY <2>3 DEF Hash160
    <3> QED BY <1>2, <1>7, <3>1 DEF Program
  <2>5. PICK inner : inner = [s EXCEPT !.scriptSig = <<>>]
    OBVIOUS
  <2>6. inner.tx = tx /\ inner.i = i /\ inner.witness = w[2]
    BY <1>1, <2>5
  <2>7. \/ \E r : w[1] = <<sig, r>> /\ w[2] = <<>>
        \/ \E r : w[1] = <<r>> /\ w[2] \in Witnesses(sig)
    BY <1>7 DEF Shapes
  <2>8. <<>> \in Witnesses(sig)
    BY DEF Witnesses
  <2>9. Carries(inner, tx, i, sig)
    BY <2>6, <2>7, <2>8 DEF Carries
  <2>10. CASE redeem.kind = "p2wpkh"
    <3>1. P2wpkh(redeem, inner)
      BY <2>3, <2>5, <2>10 DEF Nested
    <3> QED BY <2>4, <2>9, <2>10, <3>1, WitnessKey
  <2>11. CASE redeem.kind = "p2tr"
    <3>1. P2trKey(redeem, inner) \/ P2trScript(redeem, inner)
      BY <2>3, <2>5, <2>11 DEF Nested
    <3> QED BY <2>4, <2>9, <2>11, <3>1, TaprootKey, TaprootLeaf
  <2>12. CASE redeem.kind = "checksig"
    <3>1. Redeems(redeem, s)
      BY <2>3, <2>12 DEF Nested
    <3>2. s.scriptSig[1] = sig
      <4>1. Len(s.scriptSig) = 2
        BY <3>1 DEF Redeems
      <4> QED BY <1>1, <2>7, <4>1
    <3>3. CheckSignature(sig, redeem.key, LegacyDigest(tx, i, sig.type, NoCode))
      BY <1>1, <3>1, <3>2 DEF Redeems
    <3>4. redeem.key \in Owners(redeem) /\ redeem.kind \notin {"p2wpkh", "p2tr"}
      BY <2>12, OwnersAre
    <3>5. MadeFor(sig, redeem)
      BY <2>4
    <3>6. Authorised(redeem, tx, i, sig)
      BY <3>3, <3>4, <3>5, LegacyKey
    <3> QED BY <2>4, <3>6
  <2> QED BY <2>4, <2>10, <2>11, <2>12
<1> QED BY <1>2, <1>4, <1>5, <1>6, <1>7

\* Every signature was made for the output, and what was accepted last is
\* authorised.
SpendInv ==
    /\ output \in SpentOutputs
    /\ \A sig \in signed : MadeFor(sig, Program(output))
    /\ \A s \in accepted : Authorised(Program(output), s.tx, s.i, s.sig)

\* Signing and spending keep the invariant.
LEMMA SpendInvStep ==
  ASSUME SpendInv, [SpendNext]_spendVars
  PROVE  SpendInv'
<1>1. ASSUME NEW k \in Signers, NEW tx \in Transactions, NEW type \in SighashTypes,
             NEW form \in SigForms, NEW annex \in AnnexChoices, NEW leaf \in LeafChoices,
             NEW i \in 1..Len(tx.ins), SignInput(k, tx, i, type, form, annex, leaf)
      PROVE  SpendInv'
  <2>1. PICK sig : sig = [key |-> k, type |-> type, form |-> form, tx |-> tx, i |-> i,
                          digest |-> Digest(Program(output), tx, i, type, annex, leaf)]
    OBVIOUS
  <2>2. sig.tx = tx /\ sig.i = i /\ sig.type = type
        /\ sig.digest = Digest(Program(output), tx, i, type, annex, leaf)
    BY <2>1
  <2>3. MadeFor(sig, Program(output))
    BY <2>2 DEF MadeFor
  <2>4. signed' = signed \cup {sig} /\ output' = output /\ accepted' = accepted
    BY <1>1, <2>1 DEF SignInput
  <2>5. Program(output)' = Program(output)
    BY <2>4 DEF Program
  <2> QED BY <2>3, <2>4, <2>5 DEF SpendInv
<1>2. ASSUME NEW sig \in signed, NEW tx \in Transactions, NEW annex \in AnnexChoices,
             NEW i \in 1..Len(tx.ins), NEW w \in Shapes(sig), NEW s,
             s = [tx |-> tx, i |-> i, annex |-> annex, sig |-> sig,
                  scriptSig |-> w[1], witness |-> w[2]],
             SpendOutput(s)
      PROVE  SpendInv'
  <2>1. VerifyInputScript(output, s) /\ accepted' = {s} /\ output' = output /\ signed' = signed
    BY <1>2 DEF SpendOutput
  <2>2. MadeFor(sig, Program(output)) /\ output \in SpentOutputs
    BY DEF SpendInv
  <2>3. Authorised(Program(output), tx, i, sig)
    BY <1>2, <2>1, <2>2, SpendAuthorised
  <2>4. s.tx = tx /\ s.i = i /\ s.sig = sig
    BY <1>2
  <2>5. Program(output)' = Program(output)
    BY <2>1 DEF Program
  <2> QED BY <2>1, <2>3, <2>4, <2>5 DEF SpendInv
<1>3. CASE UNCHANGED spendVars
  BY <1>3 DEF SpendInv, spendVars, Program
<1> QED BY <1>1, <1>2, <1>3 DEF SpendNext

\* Whatever is signed and whatever a transaction reveals, verify_input_script
\* lets an output be spent only with the signature of a key that the output
\* commits to, at any depth of its tree, and only the way that key signed.
THEOREM SpendsAlwaysAuthorised == SpendSpec => []SpendsAuthorised
<1>1. SpendInit => SpendInv
  BY DEF SpendInit, SpendInv
<1>2. SpendInv => SpendsAuthorised
  <2> SUFFICES ASSUME SpendInv PROVE SpendsAuthorised
    OBVIOUS
  <2>1. OwnersOnly
    BY DEF SpendInv, Authorised, OwnersOnly
  <2>2. AcceptedAsSigned
    BY DEF SpendInv, Authorised, Whole, Alike, AcceptedAsSigned
  <2> QED BY <2>1, <2>2 DEF SpendsAuthorised
<1> QED BY <1>1, <1>2, SpendInvStep, PTL DEF SpendSpec
=============================================================================
