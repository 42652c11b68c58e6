------------------------------ MODULE Retarget ------------------------------
(* Difficulty and soft-fork signalling along a changing active chain: the    *)
(* compact form of a target, the retarget rule as validator and miners apply *)
(* it, and the versionbits tracker.  A block is the sequence of headers from *)
(* genesis to it, so its ancestors are its prefixes.  Targets are numbers in *)
(* base Base with mantissas of three digits, as the 256-bit ones are in base *)
(* 256.                                                                      *)
EXTENDS Integers, Sequences, SequencesExt, FiniteSetsExt

CONSTANTS Base,            \* 256: digits of a target
          MaxDigits,       \* 32: digits of the largest target
          PowLimit,        \* pow_limit
          GenesisTarget,
          Interval,        \* retarget_interval_blocks()
          TargetSpan,      \* pow_target_timespan
          Gaps,            \* time between a block and its parent
          StartTime, Timeout, MinActivation,   \* of the deployment
          Window, Threshold,                   \* of VersionBitsTracker
          MaxHeight, MaxBlocks                 \* bounds

ASSUME RetargetAssumption == Interval \in Nat \ {0}

VARIABLES index,      \* blocks in the block index
          best,       \* the tip of the active chain
          heightMap,  \* BlockIndex._height_index
          tracker     \* the deployment's state and since_height

retargetVars == <<index, best, heightMap, tracker>>

-----------------------------------------------------------------------------
(* ProofOfWork: compact targets                                              *)

Half == (Base^3) \div 2     \* 0x800000, the sign bit of the mantissa
Bad == 0                    \* what get_target makes of invalid bits

\* decode_compact: 0 when invalid.  The sign bit is bit 23 of the mantissa.
GetTarget(bits) ==
    LET coef   == bits.coef % Half
        target == IF bits.exp <= 3 THEN coef \div Base^(3 - bits.exp)
                                   ELSE coef * Base^(bits.exp - 3)
    IN  IF \/ coef = 0 \/ bits.coef >= Half
           \/ bits.exp > MaxDigits + 2
           \/ coef >= Base /\ bits.exp > MaxDigits + 1
           \/ coef >= Base^2 /\ bits.exp > MaxDigits
           \/ target > PowLimit
        THEN Bad ELSE target

DigitCount(t) == CHOOSE k \in 1..MaxDigits : t < Base^k /\ t >= Base^(k - 1)

\* get_bits.  A target of fewer than three digits is not shifted up, so
\* GetTarget reads it as a smaller number or as zero.
GetBits(t) ==
    LET u    == IF t > PowLimit THEN PowLimit ELSE t
        n    == DigitCount(u)
        coef == IF n <= 3 THEN u ELSE u \div Base^(n - 3)
    IN  IF coef >= Half THEN [exp |-> n + 1, coef |-> coef \div Base]
                        ELSE [exp |-> n, coef |-> coef]

\* ChainWork.calculate_block_work and calculate_chain_work
BlockWork(header) ==
    LET target == GetTarget(header.bits) IN IF target = 0 THEN 0 ELSE PowLimit \div (target + 1)
ChainWork(b) == FoldLeft(LAMBDA n, header : n + BlockWork(header), 0, b)

Clamp(x, low, high) == IF x < low THEN low ELSE IF x > high THEN high ELSE x

\* get_next_work_required after the headers of one interval, the tip at height.
GetNextWorkRequired(headers, height) ==
    IF (height + 1) % Interval # 0 THEN Last(headers).bits
    ELSE LET span   == Clamp(Last(headers).time - Head(headers).time,
                             Max({1, TargetSpan \div 4}), TargetSpan * 4)
             target == (GetTarget(Last(headers).bits) * span) \div TargetSpan
         IN  GetBits(Clamp(target, 1, PowLimit))

-----------------------------------------------------------------------------
(* What validator and miners expect, read through the height map             *)

Height(b) == Len(b) - 1
Parent(b) == Front(b)
Tip == Last(best)
HeaderAt(map, h) == Last(map[h])
HeadersFrom(map, from, to) == [i \in 1..(to - from + 1) |-> HeaderAt(map, from + i - 1)]

\* BlockValidator._expected_bits_for_height
ExpectedBits(map, parent, height) ==
    IF height % Interval # 0 \/ height < Interval THEN Last(parent).bits
    ELSE GetNextWorkRequired(HeadersFrom(map, height - Interval, height - 1), height - 1)

\* Miner._get_next_bits
MinerBits ==
    LET height == Height(best) + 1
    IN  IF height % Interval # 0 \/ height < Interval THEN Tip.bits
        ELSE GetNextWorkRequired(HeadersFrom(heightMap, height - Interval, height - 1), height - 1)

\* BlockAssembler._get_next_bits and getblocktemplate's _next_bits
TemplateBits ==
    LET height == Height(best)
        from   == Max({0, height - (Interval - 1)})
    IN  IF height - from + 1 < Interval THEN Tip.bits
        ELSE GetNextWorkRequired(HeadersFrom(heightMap, from, height), height)

\* validate_header: a decodable target, and the expected one.
ValidHeader(map, b) ==
    /\ GetTarget(Last(b).bits) > 0
    /\ Last(b).bits = ExpectedBits(map, Parent(b), Height(b))

-----------------------------------------------------------------------------
(* VersionBitsTracker                                                        *)

Fresh == [state |-> "DEFINED", since |-> 0]

Signalling(b) ==
    LET from == Max({1, Len(b) - Window + 1})
    IN  Cardinality({i \in from..Len(b) : b[i].signal})

\* _update_deployment_state at the tip b: one transition per call.
UpdateState(d, b) ==
    LET time == Last(b).time  height == Height(b)
    IN  CASE d.state = "DEFINED" /\ time >= StartTime /\ time < Timeout ->
                [state |-> "STARTED", since |-> height]
          [] d.state = "STARTED" /\ time >= Timeout -> [d EXCEPT !.state = "FAILED"]
          [] d.state = "STARTED" /\ time < Timeout /\ Len(b) >= Window
                                 /\ Signalling(b) >= Threshold ->
                [state |-> "LOCKED_IN", since |-> height]
          [] d.state = "LOCKED_IN" /\ height >= Max({d.since + Window, MinActivation}) ->
                [d EXCEPT !.state = "ACTIVE"]
          [] OTHER -> d

-----------------------------------------------------------------------------
(* The chain                                                                 *)

Genesis0 == <<[time |-> 0, signal |-> FALSE, bits |-> GetBits(GenesisTarget)]>>

Prefix(b, h) == SubSeq(b, 1, h + 1)

\* _rebuild_main_chain_height_index
MapOf(b) == [h \in 0..Height(b) |-> Prefix(b, h)]

RetargetInit ==
    /\ index = {Genesis0} /\ best = Genesis0
    /\ heightMap = MapOf(Genesis0)
    /\ tracker = UpdateState(Fresh, Genesis0)

\* set_best_block
SetBest(b) ==
    /\ best' = b
    /\ heightMap' = MapOf(b)
    /\ tracker' = UpdateState(tracker, b)

ForkHeight(b) == Max({h \in 0..Height(b) : h \in DOMAIN heightMap /\ heightMap[h] = Prefix(b, h)})

FaultReorgMap(b, h) ==
    [k \in 0..(h - 1) |-> IF k \in DOMAIN heightMap THEN heightMap[k] ELSE Prefix(b, k)]

\* The height map while block h of a branch is validated in a reorganisation:
\* mark_main_chain has taken the old branch out and put the new one in below h.
ReorgMap(b, h) ==
    [k \in 0..(h - 1) |-> Prefix(b, k)]

BranchValid(b) ==
    \A h \in (ForkHeight(b) + 1)..Height(b) : ValidHeader(ReorgMap(b, h), Prefix(b, h))

\* on_block: a block on the tip is validated with the map, a side block only
\* for a decodable target; a heavier side branch is validated block by block.
ReceiveHeader(b) ==
    /\ Parent(b) \in index /\ b \notin index
    /\ Cardinality(index) < MaxBlocks
    /\ GetTarget(Last(b).bits) > 0
    /\ \/ /\ Parent(b) = best /\ ValidHeader(heightMap, b)
          /\ SetBest(b)
       \/ /\ Parent(b) # best
          /\ IF ChainWork(b) > ChainWork(best) /\ BranchValid(b)
             THEN SetBest(b)
             ELSE UNCHANGED <<best, heightMap, tracker>>
    /\ index' = index \cup {b}

\* A template: get_mining_block_version refreshes the tracker once more.
MineTemplate ==
    /\ tracker' = UpdateState(tracker, best)
    /\ UNCHANGED <<index, best, heightMap>>

\* A restart: the tracker is not stored, initialize refreshes it once.
RestartTracker ==
    /\ tracker' = UpdateState(Fresh, best)
    /\ UNCHANGED <<index, best, heightMap>>

\* The bits a child of b may claim: what its own branch asks for, or its
\* parent's.
OwnBits(b) == ExpectedBits(MapOf(b), b, Height(b) + 1)

RetargetNext ==
    \/ \E p \in index, gap \in Gaps, signal \in BOOLEAN :
         /\ Height(p) < MaxHeight
         /\ \E bits \in {OwnBits(p), Last(p).bits} :
              ReceiveHeader(Append(p, [time |-> Last(p).time + gap, signal |-> signal, bits |-> bits]))
    \/ MineTemplate
    \/ RestartTracker

RetargetSpec == RetargetInit /\ [][RetargetNext]_retargetVars

-----------------------------------------------------------------------------
(* Properties                                                                *)

\* Every block of the active chain carries the target that its own ancestors
\* ask for, also when it was adopted in a reorganisation across a retarget.
BitsOfOwnBranch ==
    \A h \in 1..Height(best) : best[h + 1].bits = OwnBits(Prefix(best, h - 1))

\* The three ways a template finds its bits agree with what the validator will
\* ask of the block.
TemplatesValid ==
    LET expected == ExpectedBits(heightMap, best, Height(best) + 1)
    IN  MinerBits = expected /\ TemplateBits = expected

CompactRoundTrips ==
    \A t \in (Base^2)..PowLimit :
        LET u == GetTarget(GetBits(t))
        IN  u > 0 /\ u <= t /\ GetBits(u) = GetBits(t) /\ t - u < Base^(DigitCount(t) - 2)

\* A target of at least three digits survives its compact form up to the digits
\* the mantissa drops, never grows, and the form is canonical.  (Evaluated in
\* the first state only.)
CompactExact == index = {Genesis0} => CompactRoundTrips

\* Chain, miner, templates and compact form agree on the difficulty of a block.
DifficultyAgrees == BitsOfOwnBranch /\ TemplatesValid /\ CompactExact

\* The tracker's state is the one that following the active chain from genesis
\* gives (refresh_versionbits_state: "Recompute versionbits state from
\* active-chain tip context").
TrackerFollowsChain ==
    tracker = FoldLeft(LAMBDA d, n : UpdateState(d, SubSeq(best, 1, n)), Fresh,
                       [n \in 1..Len(best) |-> n])
=============================================================================
