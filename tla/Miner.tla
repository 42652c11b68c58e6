------------------------------- MODULE Miner -------------------------------
(* The CPU miner (MiningNode), the RPC calls that steer it (setgenerate,     *)
(* setminingaddress, generate, getblocktemplate, submitblock) and the chain  *)
(* and pool they work on.  A coroutine runs until it really suspends: from   *)
(* the sleep(0) at the top of the loop to the nonce search nothing does.     *)
(* Accepting a block and keeping the pool are abstracted to the outcomes of  *)
(* ChainState and TxAdmission; a chain stands for the hash of its last       *)
(* block, every transaction has one output and the weight 1.                 *)
EXTENDS Integers, Sequences, FiniteSets, SequencesExt, FiniteSetsExt

CONSTANTS Coin,          \* outputs confirmed before the behaviour starts
          CoinValue,
          MTx, Inputs,     \* transactions and the outputs they spend
          OutValue,
          RewardAddress,
          InitialSubsidy, HalvingInterval,
          MaxBlockTxs,   \* max_block_weight without the reserve
          Loops,         \* bound: mining tasks that may be created
          MaxChain       \* bound on the height of the chain

VARIABLES chain,         \* the main chain: a sequence of blocks
          pool, arrived, \* the mempool, and all that was ever offered to it
          wallet,        \* the address of the active wallet
          configAddress, \* config "miningaddress"
          miningAddress, \* MiningNode.mining_address
          isMining,
          loops,         \* the _mine_loop tasks
          stopping,      \* tasks a stop_mining call is waiting for
          generating,    \* the candidate a generate call searches, if any
          template       \* the last template handed out, if any
minerVars == <<chain, pool, arrived, wallet, configAddress, miningAddress, isMining, loops,
               stopping, generating, template>>
chainVars == <<chain, pool>>
requestVars == <<arrived, wallet, stopping, generating, template>>
-----------------------------------------------------------------------------
ValueOf(o) == IF o \in Coin THEN CoinValue ELSE OutValue[o]
Confirmed(c) == UNION {c[i].txs : i \in DOMAIN c}
Utxo(c) == (Coin \cup Confirmed(c)) \ UNION {Inputs[t] : t \in Confirmed(c)}

Halved[n \in 0..63] == IF n = 0 THEN InitialSubsidy ELSE Halved[n - 1] \div 2
Subsidy(height) == IF height \div HalvingInterval >= 64 THEN 0
                   ELSE Halved[height \div HalvingInterval]

(* the fee both sides compute: an input that is not confirmed counts nothing *)
Fee(t, c) == MapThenSumSet(ValueOf, Inputs[t] \cap Utxo(c)) - OutValue[t]
_calculate_fees(txs, c) == MapThenSumSet(LAMBDA t : Fee(t, c), Range(txs))
-----------------------------------------------------------------------------
(* Mempool.get_transactions_for_block: again and again the unselected        *)
(* ancestor package with the best fee per weight that still fits; the set of *)
(* the answers that ties leave open                                          *)
Ancestors(t, P) ==
    {p \in P : \A S \in SUBSET P :
        (Inputs[t] \cap P \subseteq S /\ \A u \in S : Inputs[u] \cap P \subseteq S) => p \in S}
EntryFee(t) == MapThenSumSet(ValueOf, Inputs[t]) - OutValue[t]
Best(pkgs) == {x \in pkgs : \A y \in pkgs :
                  MapThenSumSet(EntryFee, x) * Cardinality(y)
                      >= MapThenSumSet(EntryFee, y) * Cardinality(x)}
ParentsFirst(pkg, P) ==
    SetToSortSeq(pkg, LAMBDA x, y : Cardinality(Ancestors(x, P)) < Cardinality(Ancestors(y, P)))
Fitting(P, selected) ==
    {pkg \in {(Ancestors(t, P) \cup {t}) \ Range(selected) : t \in P \ Range(selected)} :
        Len(selected) + Cardinality(pkg) <= MaxBlockTxs}
SelectMore(P, selected) ==
    IF Fitting(P, selected) = {} THEN {selected}
    ELSE {selected \o ParentsFirst(pkg, P) : pkg \in Best(Fitting(P, selected))}
(* a round selects something or nothing fits any more *)
Selections(P) ==
    FoldSet(LAMBDA round, found : UNION {SelectMore(P, selected) : selected \in found},
            {<<>>}, 1..Cardinality(P))
_select_transactions == Selections(pool)

_guard_allows_current_address == miningAddress = wallet
-----------------------------------------------------------------------------
(* BerzCoinNode.on_block, as its callers see it *)
Coherent(S, c) ==    \* the entries of S the pool keeps on top of chain c
    UNION {P \in SUBSET (S \ Confirmed(c)) : \A t \in P : Inputs[t] \subseteq Utxo(c) \cup P}
Reward(b, c) == Subsidy(Len(c)) + MapThenSumSet(LAMBDA t : Fee(t, c), b.txs)
Stateful(b, c) == /\ \A t \in b.txs : Inputs[t] \subseteq Utxo(c)
                  /\ b.value <= Reward(b, c)
Outcome(cand) ==
    CASE cand.order = "raw" -> "orphan"     \* the index is keyed by hash_hex
      [] cand.prev # chain -> "stored_fork" \* a tip never moves to less work
      [] cand.prev = chain /\ ~Stateful(cand.block, chain) -> "stateful_validation_failed"
      [] OTHER -> "connected"
Connect(cand) == \E c \in {Append(chain, cand.block)} :
                     chain' = c /\ pool' \in {Coherent(pool, c)}

(* a coinbase whose value is negative cannot be serialised: struct.error *)
Mined(txs, value, to) == [txs |-> Range(txs), value |-> value, to |-> to]
_create_candidates(order) ==
    {[prev |-> chain, order |-> order, approved |-> _guard_allows_current_address,
      block |-> Mined(txs, Subsidy(Len(chain)) + _calculate_fees(txs, chain), miningAddress)] :
         txs \in _select_transactions}
Serialisable(cand) == cand.block.value >= 0
-----------------------------------------------------------------------------
NoCandidate == [prev |-> <<>>, block |-> Mined(<<>>, 0, ""), order |-> "none", approved |-> TRUE]
MinerInit ==
    /\ chain = <<Mined(<<>>, InitialSubsidy, "")>> /\ pool = {} /\ arrived = {}
    /\ wallet \in RewardAddress /\ configAddress = wallet /\ miningAddress = wallet
    /\ isMining = FALSE /\ loops = <<>> /\ stopping = {}
    /\ generating = NoCandidate /\ template = NoCandidate

(* start_mining: a new task, unless one is said to be running *)
Started == IF miningAddress' # wallet \/ isMining THEN UNCHANGED <<isMining, loops>>
           ELSE /\ isMining' = TRUE
                /\ loops' = Append(loops, [pc |-> "top", cancelled |-> FALSE, cand |-> NoCandidate])
SetGenerateOn ==
    /\ Len(loops) < Loops
    /\ miningAddress' = configAddress
    /\ Started
    /\ UNCHANGED <<chainVars, requestVars, configAddress>>

Fault_SetGenerateOff ==
    /\ isMining
    /\ isMining' = FALSE
    /\ stopping' = stopping \cup {Len(loops)}
    /\ UNCHANGED <<chainVars, arrived, wallet, generating, template, configAddress, miningAddress, loops>>

(* stop_mining: clear the flag, cancel the task kept last, wait for its end *)
SetGenerateOff ==
    /\ isMining
    /\ isMining' = FALSE
    /\ loops' = [loops EXCEPT ![Len(loops)] = [pc |-> @.pc, cancelled |-> TRUE, cand |-> @.cand]]
    /\ stopping' = stopping \cup {Len(loops)}
    /\ UNCHANGED <<chainVars, arrived, wallet, generating, template, configAddress, miningAddress>>
StopReturns(i) ==
    /\ i \in stopping /\ loops[i].pc = "ended"
    /\ stopping' = stopping \ {i}
    /\ UNCHANGED <<chainVars, arrived, wallet, generating, template, configAddress, miningAddress,
                   isMining, loops>>

set_mining_address(a) ==
    /\ a # miningAddress
    /\ miningAddress' = a /\ configAddress' = a
    /\ UNCHANGED <<chainVars, requestVars, isMining, loops>>
-----------------------------------------------------------------------------
(* One resumption of a mining task.  A cancelled task ends where it is.      *)
Resumed(i, pc, cand) ==
    [loops EXCEPT ![i] = [pc |-> pc, cancelled |-> @.cancelled, cand |-> cand]]
Goto(i, pc) == Resumed(i, pc, loops[i].cand)
Ended(i) == Resumed(i, "ended", NoCandidate)
Ends(i) == isMining' = FALSE /\ loops' = Ended(i)
LoopFrame == UNCHANGED <<requestVars, configAddress, miningAddress>>

Cancelled(i) == /\ loops[i].cancelled /\ loops[i].pc # "ended"
                /\ loops' = Ended(i)
                /\ LoopFrame /\ UNCHANGED <<chainVars, isMining>>

(* the search starts, or the coinbase raised and the task sleeps a second *)
Search(i, cand) ==
    loops' = IF Serialisable(cand) THEN Resumed(i, "search", cand)
             ELSE Resumed(i, "sleep", NoCandidate)
LoopTop(i) ==
    /\ loops[i].pc = "top" /\ ~loops[i].cancelled
    /\ IF ~isMining THEN loops' = Ended(i) /\ UNCHANGED isMining
       ELSE IF ~_guard_allows_current_address THEN Ends(i)
       ELSE UNCHANGED isMining /\ \E cand \in _create_candidates("hex") : Search(i, cand)
    /\ LoopFrame /\ UNCHANGED chainVars

(* _mine_block comes back without a nonce: next extra nonce, same candidate  *)
(* transactions and fees, unless the guard or the tip say otherwise          *)
Exhausted(i) ==
    /\ loops[i].pc = "search" /\ ~loops[i].cancelled
    /\ LET old == loops[i].cand
           cand == [prev |-> old.prev, order |-> old.order,
                    approved |-> _guard_allows_current_address,
                    block |-> [old.block EXCEPT !.to = miningAddress]]
       IN  IF ~_guard_allows_current_address THEN Ends(i)
           ELSE /\ UNCHANGED isMining
                /\ IF chain # old.prev
                   THEN loops' = Resumed(i, "top", NoCandidate)
                   ELSE Search(i, cand)
    /\ LoopFrame /\ UNCHANGED chainVars

(* a nonce is found; the block is offered after one more turn of the loop    *)
Found(i) ==
    /\ loops[i].pc = "search" /\ ~loops[i].cancelled /\ Len(chain) < MaxChain
    /\ loops' = Goto(i, "found")
    /\ LoopFrame /\ UNCHANGED <<chainVars, isMining>>

Fault_submit_block(i) ==
    /\ loops[i].pc = "found" /\ ~loops[i].cancelled
    /\ \E res \in {Outcome(loops[i].cand)} :
          /\ IF res = "connected" THEN Connect(loops[i].cand) ELSE UNCHANGED chainVars
          /\ loops' = Goto(i, IF res = "stateful_validation_failed" THEN "sleep" ELSE "broadcast")
    /\ LoopFrame /\ UNCHANGED isMining

(* _submit_block and, after a rejection, _drop_candidate_transactions with   *)
(* their descendants; a block stored on a branch counts as accepted          *)
_submit_block(i) ==
    /\ loops[i].pc = "found" /\ ~loops[i].cancelled
    /\ \E res \in {Outcome(loops[i].cand)} :
          /\ IF res = "connected" THEN Connect(loops[i].cand)
             ELSE /\ UNCHANGED chain
                  /\ pool' \in {IF res = "stateful_validation_failed"
                               THEN Coherent(pool \ loops[i].cand.block.txs, chain) ELSE pool}
          /\ loops' = Goto(i, IF res = "stateful_validation_failed" THEN "sleep" ELSE "broadcast")
    /\ LoopFrame /\ UNCHANGED isMining

(* broadcast_block, the counters and _pace_to_target_spacing; or the end of  *)
(* a sleep: back to the loop condition                                       *)
Paced(i) ==
    /\ loops[i].pc \in {"broadcast", "sleep"} /\ ~loops[i].cancelled
    /\ loops' = Resumed(i, IF loops[i].pc = "broadcast" THEN "sleep" ELSE "top", NoCandidate)
    /\ LoopFrame /\ UNCHANGED <<chainVars, isMining>>
-----------------------------------------------------------------------------
(* generate: mine_single_block changes the address every miner uses, asks no *)
(* guard and searches on; then on_block                                      *)
Generate(a) ==
    /\ generating = NoCandidate
    /\ miningAddress' = a
    /\ \E cand \in _create_candidates("hex") :
          Serialisable(cand) /\ generating' = [cand EXCEPT !.block.to = a]
    /\ UNCHANGED <<chainVars, arrived, wallet, stopping, template, configAddress, isMining, loops>>
GenerateFound ==
    /\ generating # NoCandidate
    /\ generating' = NoCandidate
    /\ IF Outcome(generating) = "connected" /\ Len(chain) < MaxChain THEN Connect(generating)
       ELSE UNCHANGED chainVars
    /\ UNCHANGED <<arrived, wallet, stopping, template, configAddress, miningAddress, isMining, loops>>

(* getblocktemplate writes header.hash(), the raw order, into the header *)
GetTemplate ==
    /\ template = NoCandidate
    /\ \E cand \in _create_candidates("raw") : Serialisable(cand) /\ template' = cand
    /\ UNCHANGED <<chainVars, arrived, wallet, stopping, generating, configAddress, miningAddress,
                   isMining, loops>>
submit_block ==
    /\ template # NoCandidate
    /\ template' = NoCandidate
    /\ IF Outcome(template) = "connected" THEN Connect(template) ELSE UNCHANGED chainVars
    /\ UNCHANGED <<arrived, wallet, stopping, generating, configAddress, miningAddress, isMining, loops>>
-----------------------------------------------------------------------------
(* the rest of the node: transactions, blocks of peers, the wallet *)
Arrive(t) ==
    /\ t \notin arrived /\ Inputs[t] \subseteq Utxo(chain) \cup pool
    /\ arrived' = arrived \cup {t} /\ pool' = pool \cup {t}
    /\ UNCHANGED <<chain, wallet, stopping, generating, template, configAddress, miningAddress,
                   isMining, loops>>
PeerBlock(txs) ==
    /\ Len(chain) < MaxChain
    /\ txs \subseteq arrived \cap pool /\ Stateful(Mined(SetToSeq(txs), 0, "peer"), chain)
    /\ Connect([block |-> Mined(SetToSeq(txs), 0, "peer")])
    /\ UNCHANGED <<requestVars, configAddress, miningAddress, isMining, loops>>
PeerReorg ==
    /\ Len(chain) > 1 /\ Len(chain) < MaxChain
    /\ chain' = Front(chain) \o <<Mined(<<>>, 1, "peer"), Mined(<<>>, 1, "peer")>>
    /\ pool' = Coherent(pool \cup Last(chain).txs, chain')
    /\ UNCHANGED <<requestVars, configAddress, miningAddress, isMining, loops>>
ActivateWallet(a) ==
    /\ a # wallet /\ wallet' = a
    /\ UNCHANGED <<chainVars, arrived, stopping, generating, template, configAddress, miningAddress,
                   isMining, loops>>

LoopStep(i) == \/ Cancelled(i) \/ LoopTop(i) \/ Exhausted(i) \/ Found(i) \/ _submit_block(i)
               \/ Paced(i)
LoopNext == \E i \in DOMAIN loops : LoopStep(i)
ControlNext ==
    \/ SetGenerateOff \/ GenerateFound
    \/ \E i \in DOMAIN loops : StopReturns(i)
    \/ \E a \in RewardAddress : set_mining_address(a) \/ Generate(a) \/ ActivateWallet(a)
WorkNext ==
    \/ GetTemplate \/ submit_block \/ PeerReorg
    \/ \E t \in MTx : Arrive(t)
    \/ \E txs \in {{}} \cup {{t} : t \in MTx} : PeerBlock(txs)
MinerNext == SetGenerateOn \/ LoopNext \/ ControlNext \/ WorkNext
MinerSpec == MinerInit /\ [][MinerNext]_minerVars
(* asyncio resumes every task that can run, and a search that goes on for    *)
(* ever ends with a nonce                                                    *)
MinerFairness ==
    \A i \in 1..Loops : /\ WF_minerVars(i \in DOMAIN loops /\ LoopStep(i))
                        /\ SF_minerVars(i \in DOMAIN loops /\ Found(i))
-----------------------------------------------------------------------------
(* The miner says it is mining exactly when one task that nobody cancelled   *)
(* is alive, whatever start, stop and guard do to each other: a stop that    *)
(* waits for its task while another call starts a new one leaves no second   *)
(* loop behind, and no dead miner answers "already_mining".                  *)
OneLoop == IF isMining
           THEN \E i \in DOMAIN loops :
                   {j \in DOMAIN loops : loops[j].pc # "ended" /\ ~loops[j].cancelled} = {i}
           ELSE \A j \in DOMAIN loops : loops[j].pc = "ended" \/ loops[j].cancelled

(* A block the background miner offers pays an address the guard approved    *)
(* when its coinbase was made, although setminingaddress and generate change *)
(* the address and activate_wallet the wallet while it searches.             *)
RewardApproved == \A i \in DOMAIN loops : loops[i].pc = "found" => loops[i].cand.approved

(* What miners are said to do, "they mine continuously" (docs/mining.md): a  *)
(* running miner gets one block further or is stopped; a candidate the node  *)
(* refuses is not offered again and again.                                   *)
MinesOn == \A n \in 1..MaxChain - 1 : (isMining /\ Len(chain) = n) ~> (~isMining \/ Len(chain) > n)

(* The miner does what the last call told it: one loop or none, and it pays  *)
(* whom the guard approved.                                                  *)
MinerSteered == OneLoop /\ RewardApproved
=============================================================================
