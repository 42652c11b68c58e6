----------------------------- MODULE NodeProofs -----------------------------
(***************************************************************************)
(* Proofs about what a node does besides following the chain: its wallet   *)
(* (Wallet), the RPC server (RpcServer), the data directory (NodeStore),   *)
(* the miner (Miner) and the indexes (Indexes), for every set of keys,     *)
(* callers, batches and blocks.                                            *)
(***************************************************************************)
EXTENDS Indexes, Miner, NodeStore, RpcServer, Wallet, BlockTreeProofs, FoldProofs, SequenceTheorems

(* The wallet                                                              *)

SeedKey == Seed \X (0..MaxIndex)
XKey == XPub \X (0..MaxIndex)

WalletRec == [kind : {"deterministic", "imported", "watch_only_xpub"}, key : Id, id : Id,
              tracked : SUBSET Id]

\* A wallet that can be shown or spent from: only an xpub is watched, and a
\* mnemonic has the keys of its own seed.
Proper(w) ==
    /\ w \in WalletRec
    /\ w.kind = "watch_only_xpub" => w.key \in XKey
    /\ w.kind = "deterministic" => w.key \in SeedKey

\* A file that a passphrase opens holds the wallet it is named after.
FilesProper ==
    /\ files = [i \in Id |-> files[i]]
    /\ \A i \in Id : files[i].pass \in Pass => Proper(files[i].wallet) /\ files[i].wallet.id = i

WalletInv ==
    /\ pass \in Pass
    /\ active = NoWallet \/ Proper(active)
    /\ FilesProper
    /\ ActiveOnDisk /\ KeyFitsWallet

\* The keys and ids there are.
LEMMA Keys ==
  /\ Key \subseteq Id /\ XKey \subseteq Id /\ SeedKey \subseteq Key
  /\ Key \cap XKey = {}
  /\ \A s \in Seed : <<s, 0>> \in SeedKey
  /\ \A x \in XPub : <<x, 0>> \in XKey
<1>1. Key \subseteq Id /\ XKey \subseteq Id /\ SeedKey \subseteq Key
  BY DEF Id, Key, XKey, SeedKey
<1>2. Key \cap XKey = {}
  BY WalletAssumption DEF Key, XKey
<1>3. 0 \in 0..MaxIndex
  BY WalletAssumption
<1> QED BY <1>1, <1>2, <1>3 DEF SeedKey, XKey

\* A wallet is written to its file, and becomes the active one.
LEMMA Saved ==
  ASSUME WalletInv, NEW w, Proper(w), _save_wallet(w), active' = w, UNCHANGED pass,
         \/ unlocked' = NoKey
         \/ unlocked' = w.key /\ w.kind # "watch_only_xpub"
  PROVE  WalletInv'
<1>1. w.id \in Id
  BY DEF Proper, WalletRec
<1>2. files = [i \in Id |-> files[i]] /\ files' = [files EXCEPT ![w.id] = Encrypted(w)]
  BY DEF WalletInv, FilesProper, _save_wallet
<1>3. Encrypted(w).wallet = w
  BY DEF Encrypted
<1>4. files'[w.id] = Encrypted(w) /\ (\A i \in Id : i # w.id => files'[i] = files[i])
      /\ files' = [i \in Id |-> files'[i]]
  BY <1>1, <1>2
<1>5. FilesProper'
  <2>1. ASSUME NEW i \in Id, files'[i].pass \in Pass
        PROVE  Proper(files'[i].wallet) /\ files'[i].wallet.id = i
    <3>1. CASE i = w.id
      BY <3>1, <1>3, <1>4
    <3>2. CASE i # w.id
      BY <3>2, <2>1, <1>4 DEF WalletInv, FilesProper
    <3> QED BY <3>1, <3>2
  <2> QED BY <2>1, <1>4 DEF FilesProper, Proper
<1>6. ActiveOnDisk'
  BY <1>3, <1>4 DEF ActiveOnDisk
<1>7. KeyFitsWallet'
  BY DEF KeyFitsWallet
<1> QED BY <1>5, <1>6, <1>7 DEF WalletInv, Proper

\* The files stay; a wallet that its file holds is or becomes the active one.
LEMMA Opened ==
  ASSUME WalletInv, UNCHANGED files, pass' \in Pass, Proper(active'),
         files[active'.id].wallet = active',
         \/ unlocked' = NoKey
         \/ unlocked' = active'.key /\ active'.kind # "watch_only_xpub"
  PROVE  WalletInv'
<1>1. FilesProper'
  BY DEF WalletInv, FilesProper, Proper
<1>2. ActiveOnDisk' /\ KeyFitsWallet'
  BY DEF ActiveOnDisk, KeyFitsWallet
<1> QED BY <1>1, <1>2 DEF WalletInv, Proper

\* What wallets are made of.
LEMMA MadeProper ==
  /\ \A s \in Seed : Proper(from_mnemonic(s, 0))
  /\ \A k \in Key : Proper(from_private_key(k))
  /\ \A x \in XPub : Proper(from_xpub(x, 0))
<1>1. ASSUME NEW s \in Seed PROVE Proper(from_mnemonic(s, 0))
  <2>1. <<s, 0>> \in SeedKey /\ <<s, 0>> \in Id
    BY Keys
  <2> QED BY <2>1 DEF Proper, from_mnemonic, WalletRec
<1>2. ASSUME NEW k \in Key PROVE Proper(from_private_key(k))
  <2>1. k \in Id
    BY Keys
  <2> QED BY <2>1 DEF Proper, from_private_key, WalletRec
<1>3. ASSUME NEW x \in XPub PROVE Proper(from_xpub(x, 0))
  <2>1. <<x, 0>> \in XKey /\ <<x, 0>> \in Id
    BY Keys
  <2> QED BY <2>1 DEF Proper, from_xpub, WalletRec
<1> QED BY <1>1, <1>2, <1>3

\* The next child keeps the identity and the kind of its wallet.
LEMMA ChildProper ==
  ASSUME WalletInv, Derivable
  PROVE  Proper(Child(active)) /\ Child(active).kind = active.kind
<1>1. active \in WalletRec /\ Proper(active)
  BY DEF WalletInv, Derivable, NoWallet, Proper
<1> DEFINE k == active.key
           n == <<k[1], k[2] + 1>>
<1>2. (active.kind = "deterministic" /\ k \in SeedKey) \/ (active.kind = "watch_only_xpub" /\ k \in XKey)
  BY <1>1 DEF Derivable, Proper
<1>3. k[2] < MaxIndex
  BY DEF Derivable
<1>4. (active.kind = "deterministic" => n \in SeedKey) /\ (active.kind = "watch_only_xpub" => n \in XKey)
  BY <1>2, <1>3, WalletAssumption DEF SeedKey, XKey
<1>5. k \in Id /\ n \in Id
  BY <1>1, <1>2, <1>4, Keys DEF WalletRec
<1>6. PICK c : c = [active EXCEPT !.key = n, !.tracked = @ \cup {k, n}]
  OBVIOUS
<1>7. Child(active) = c
  BY <1>6 DEF Child
<1> HIDE DEF n, k
<1>8. c.kind = active.kind /\ c.key = n
  BY <1>1, <1>6 DEF WalletRec
<1>9. c \in WalletRec
  BY <1>1, <1>5, <1>6 DEF WalletRec
<1>10. Proper(c)
  BY <1>4, <1>8, <1>9 DEF Proper
<1> QED BY <1>7, <1>8, <1>10

\* Each operation on keys and files.
LEMMA KeyStep ==
  ASSUME WalletInv, KeyNext \/ CrashInSave
  PROVE  WalletInv'
<1>1. pass \in Pass /\ (active = NoWallet \/ Proper(active)) /\ FilesProper /\ ActiveOnDisk
      /\ KeyFitsWallet
  BY DEF WalletInv
<1>2. ASSUME NEW s \in Seed, create_wallet(s) PROVE WalletInv'
  <2> DEFINE w == from_mnemonic(s, 0)
  <2>1. _save_wallet(w) /\ active' = w /\ unlocked' = w.key /\ UNCHANGED pass
    BY <1>2 DEF create_wallet, _unlock_for
  <2>2. Proper(w) /\ w.kind # "watch_only_xpub"
    BY MadeProper DEF from_mnemonic
  <2> HIDE DEF w
  <2> QED BY <2>1, <2>2, Saved
<1>3. ASSUME NEW k \in Key, activate_wallet(k) PROVE WalletInv'
  <2>1. unlocked' = k /\ UNCHANGED pass
    BY <1>3 DEF activate_wallet, _unlock_for
  <2>2. CASE active' \in _load_wallet_by_private_key(k) /\ UNCHANGED files
    <3>1. PICK i \in Id : files[i].pass = pass /\ files[i].wallet.key = k /\ active' = files[i].wallet
      BY <2>2 DEF _load_wallet_by_private_key
    <3>2. Proper(active') /\ active'.id = i
      BY <3>1, <1>1 DEF FilesProper, Proper
    <3>3. active'.kind # "watch_only_xpub"
      BY <3>1, <3>2, Keys DEF Proper
    <3> QED BY <3>1, <3>2, <3>3, <2>1, <2>2, <1>1, Opened
  <2>3. CASE active' = from_private_key(k) /\ _save_wallet(active')
    <3> DEFINE w == from_private_key(k)
    <3>1. Proper(w) /\ w.kind # "watch_only_xpub" /\ w.key = k
      BY MadeProper DEF from_private_key
    <3>2. _save_wallet(w) /\ active' = w
      BY <2>3
    <3> HIDE DEF w
    <3> QED BY <3>1, <3>2, <2>1, Saved
  <2> QED BY <1>3, <2>2, <2>3 DEF activate_wallet
<1>4. ASSUME NEW x \in XPub, import_xpub_watch_only(x) PROVE WalletInv'
  <2> DEFINE w == from_xpub(x, 0)
  <2>1. _save_wallet(w) /\ active' = w /\ unlocked' = NoKey /\ UNCHANGED pass
    BY <1>4 DEF import_xpub_watch_only, lock_wallet
  <2>2. Proper(w)
    BY MadeProper
  <2> HIDE DEF w
  <2> QED BY <2>1, <2>2, Saved
<1>5. ASSUME NEW p \in Pass, wallet_passphrase(p, 1) PROVE WalletInv'
  <2>1. active # NoWallet /\ active' = files[active.id].wallet /\ pass' = p /\ UNCHANGED files
    BY <1>5 DEF wallet_passphrase
  <2>2. active' = active /\ Proper(active)
    BY <2>1, <1>1 DEF ActiveOnDisk
  <2>3. unlocked' = NoKey \/ (unlocked' = active'.key /\ active.kind # "watch_only_xpub")
    BY <1>5 DEF wallet_passphrase, lock_wallet, _unlock_for
  <2> QED BY <2>1, <2>2, <2>3, Opened
<1>6. ASSUME active' = NoWallet, unlocked' = NoKey, pass' \in Pass, FilesProper' PROVE WalletInv'
  BY <1>6 DEF WalletInv, ActiveOnDisk, KeyFitsWallet
<1>7. ASSUME NEW p \in Pass, WalletRestart(p) PROVE WalletInv'
  <2>1. FilesProper'
    BY <1>1, <1>7 DEF WalletRestart, FilesProper, Proper
  <2> QED BY <2>1, <1>6, <1>7 DEF WalletRestart, lock_wallet
<1>8. ASSUME CrashInSave PROVE WalletInv'
  <2>1. files' = [files EXCEPT ![active.id] = TornWallet] /\ active' = NoWallet
        /\ unlocked' = NoKey /\ UNCHANGED pass
    BY <1>8 DEF CrashInSave, lock_wallet
  <2>2. TornWallet.pass \notin Pass
    BY WalletAssumption DEF TornWallet
  <2>3. FilesProper'
    <3>1. files' = [i \in Id |-> files'[i]]
          /\ \A i \in Id : files'[i] = files[i] \/ files'[i] = TornWallet
      BY <2>1, <1>1 DEF FilesProper
    <3> QED BY <3>1, <2>2, <1>1 DEF FilesProper, Proper
  <2> QED BY <2>1, <2>3, <1>1, <1>6
<1>9. ASSUME derive_new_address PROVE WalletInv'
  <2> DEFINE w == Child(active)
  <2>1. Derivable /\ active' = w /\ _save_wallet(w) /\ UNCHANGED pass
    BY <1>9 DEF derive_new_address
  <2>2. Proper(w) /\ w.kind = active.kind
    BY <2>1, ChildProper
  <2>3. unlocked' = NoKey \/ (unlocked' = active'.key /\ active.kind = "deterministic")
    BY <1>9 DEF derive_new_address, lock_wallet, _unlock_for
  <2> HIDE DEF w
  <2> QED BY <2>1, <2>2, <2>3, Saved
<1>10. ASSUME UNCHANGED <<files, pass, active>>, unlocked' \in {NoKey, unlocked} PROVE WalletInv'
  <2>1. FilesProper'
    BY <1>1, <1>10 DEF FilesProper, Proper
  <2> QED BY <2>1, <1>1, <1>10 DEF WalletInv, ActiveOnDisk, KeyFitsWallet, Proper
<1>11. ASSUME wallet_lock \/ Tick PROVE WalletInv'
  BY <1>10, <1>11 DEF wallet_lock, lock_wallet, Tick, keyVars
<1> QED BY <1>2, <1>3, <1>4, <1>5, <1>7, <1>8, <1>9, <1>11 DEF KeyNext

\* Payments touch neither keys nor files.
LEMMA PayStep ==
  ASSUME WalletInv, UNCHANGED keyVars
  PROVE  WalletInv'
<1>1. UNCHANGED <<files, pass, active, unlocked>>
  BY DEF keyVars
<1>2. FilesProper'
  BY <1>1 DEF WalletInv, FilesProper, Proper
<1> QED BY <1>1, <1>2 DEF WalletInv, ActiveOnDisk, KeyFitsWallet, Proper

\* In every reachable state the unlocked key is the one of the active wallet,
\* which is no watch-only one, and the file of the active wallet holds it as it
\* is in memory (SimpleWalletManager), through creating, loading, deriving,
\* importing, locking, restarting and a crash while a file is rewritten.
THEOREM WalletKept == WalletSpec => []ActiveWalletSound
<1>1. WalletInit => WalletInv
  <2> SUFFICES ASSUME WalletInit PROVE WalletInv
    OBVIOUS
  <2>1. files = [i \in Id |-> Missing] /\ Missing.pass \notin Pass
    BY WalletAssumption DEF WalletInit, Missing
  <2>2. FilesProper
    BY <2>1 DEF FilesProper
  <2> QED BY <2>2 DEF WalletInit, WalletInv, ActiveOnDisk, KeyFitsWallet
<1>2. WalletInv /\ [KeyNext \/ CrashInSave \/ PayNext]_walletVars => WalletInv'
  <2> SUFFICES ASSUME WalletInv, [KeyNext \/ CrashInSave \/ PayNext]_walletVars PROVE WalletInv'
    OBVIOUS
  <2>1. PayNext \/ UNCHANGED walletVars => UNCHANGED keyVars
    BY DEF PayNext, send_to_address, wallet_create_funded_psbt, wallet_process_psbt,
       SendRawPsbt, NewTip, walletVars
  <2> QED BY <2>1, KeyStep, PayStep
<1>3. WalletInv => ActiveWalletSound
  BY DEF WalletInv, ActiveWalletSound
<1> QED BY <1>1, <1>2, <1>3, PTL DEF WalletSpec

-----------------------------------------------------------------------------
(* Payments                                                                *)

\* There are finitely many outputs, of whole values.
Amounts(C) == IsFiniteSet(C) /\ \A c \in C : c.value \in Nat

PayInv ==
    /\ Amounts(coins)
    /\ "change" \in DOMAIN psbt /\ psbt.change \in Nat
    /\ BuiltPaysFee

\* The value of some outputs is a number: ValueOfCoins is the total of the
\* weights their value fields give.
LEMMA CoinsValue ==
  ASSUME NEW C, Amounts(C), NEW S \in SUBSET C
  PROVE  ValueOfCoins(S) \in Nat
<1> DEFINE w == [c \in C |-> c.value]
           Adds(f) == f = [s \in SUBSET S |->
                             IF s = {} THEN 0 ELSE Pick(s).value + f[s \ {Pick(s)}]]
<1>1. w \in [C -> Nat] /\ IsFiniteSet(C)
  BY DEF Amounts
<1>2. ASSUME NEW f PROVE Adds(f) <=> Sums(w, f, S)
  <2>1. \A s \in SUBSET S : s # {} => Pick(s).value = w[Pick(s)]
    BY DEF Pick
  <2> HIDE DEF w
  <2>2. [s \in SUBSET S |-> IF s = {} THEN 0 ELSE Pick(s).value + f[s \ {Pick(s)}]]
        = [s \in SUBSET S |-> IF s = {} THEN 0 ELSE w[Pick(s)] + f[s \ {Pick(s)}]]
    BY <2>1
  <2> QED BY <2>2 DEF Sums
<1>3. ValueOfCoins(S) = (CHOOSE f : Adds(f))[S]
  BY DEF ValueOfCoins, MapThenSumSet, MapThenFoldSet, Pick
<1> HIDE DEF w
<1>4. PICK e : Sums(w, e, S) /\ \A s \in SUBSET S : e[s] \in Nat
  BY <1>1, SumsExist
<1> HIDE DEF Adds
<1>5. Adds(CHOOSE f : Adds(f))
  BY <1>2, <1>4
<1>6. PICK f : Sums(w, f, S) /\ ValueOfCoins(S) = f[S]
  BY <1>2, <1>3, <1>5
<1>7. f[S] = e[S]
  BY <1>1, <1>4, <1>6, SumsAgree
<1> QED BY <1>4, <1>6, <1>7

\* What is selected is some of what is there.
LEMMA Selected ==
  ASSUME NEW S, NEW target, NEW ins \in _select_spendable_inputs(S, target)
  PROVE  ins \in SUBSET S
  BY DEF _select_spendable_inputs

\* The fee aimed at is a whole amount, with a change that would be dust added.
LEMMA AimedFee ==
  ASSUME NEW ins, ValueOfCoins(ins) \in Nat, NEW amount \in Nat
  PROVE  TargetFee \in Nat /\ Folded(ins, amount) \in Nat
<1>1. TargetFee \in Nat
  BY WalletAssumption DEF TargetFee, _estimate_fee_sats, SizeOf
<1> QED BY <1>1, WalletAssumption DEF Folded

\* The change of what create_transaction makes.
LEMMA Change ==
  ASSUME NEW ins, NEW amount \in Nat, NEW fee \in Int, NEW signer, ValueOfCoins(ins) \in Nat
  PROVE  LET tx == create_transaction(ins, amount, fee, signer)
         IN  /\ tx.ins = ins /\ tx.pay = amount /\ tx.change \in Nat /\ "change" \in DOMAIN tx
             /\ tx.change > 0 => tx.change = ValueOfCoins(ins) - amount - fee
             /\ tx.change = 0 => ValueOfCoins(ins) - amount - fee <= 0
  BY DEF create_transaction

\* A payment pays for its size.  Built again, it has a change only if it had
\* one the first time, when its fee was computed; without a change the guard of
\* send_to_address is what makes it pay enough.
LEMMA PaymentPays ==
  ASSUME NEW ins, IsFiniteSet(ins), ValueOfCoins(ins) \in Nat, NEW amount \in Nat,
         ValueOfCoins(ins) >= amount + RequiredFee(Payment(ins, amount))
  PROVE  /\ Payment(ins, amount).change \in Nat
         /\ FeeOf(Payment(ins, amount)) >= RequiredFee(Payment(ins, amount))
<1> DEFINE first == create_transaction(ins, amount, Folded(ins, amount), get_active_private_key)
           again == create_transaction(ins, amount, RequiredFee(first), get_active_private_key)
           V == ValueOfCoins(ins)
<1>1. Payment(ins, amount) = IF RequiredFee(first) > FeeOf(first) THEN again ELSE first
  BY DEF Payment
<1>2. Folded(ins, amount) \in Nat
  BY AimedFee
<1>3. /\ first.ins = ins /\ first.pay = amount /\ first.change \in Nat
      /\ first.change > 0 => first.change = V - amount - Folded(ins, amount)
      /\ first.change = 0 => V - amount - Folded(ins, amount) <= 0
  BY <1>2, Change
<1> HIDE DEF first
<1>4. ASSUME NEW tx, tx.ins = ins, tx.pay = amount, tx.change \in Nat
      PROVE  RequiredFee(tx) \in Int /\ FeeOf(tx) = V - amount - tx.change
  <2>1. Cardinality(ins) \in Nat /\ Outputs(tx) \in Nat
    BY FS_CardinalityType DEF Outputs
  <2>2. SizeOf(Cardinality(tx.ins), Outputs(tx)) \in Nat
    BY <1>4, <2>1 DEF SizeOf
  <2>3. RequiredFee(tx) \in Int
    BY <2>2, WalletAssumption DEF RequiredFee
  <2> QED BY <1>4, <2>3 DEF FeeOf
<1>5. RequiredFee(first) \in Int /\ FeeOf(first) = V - amount - first.change
  BY <1>3, <1>4
<1>6. /\ again.ins = ins /\ again.pay = amount /\ again.change \in Nat
      /\ again.change > 0 => again.change = V - amount - RequiredFee(first)
  BY <1>5, Change
<1> HIDE DEF again
<1>7. RequiredFee(again) \in Int /\ FeeOf(again) = V - amount - again.change
  BY <1>4, <1>6
<1>8. CASE RequiredFee(first) > FeeOf(first)
  <2>1. Payment(ins, amount) = again
    BY <1>1, <1>8
  <2>2. CASE again.change = 0
    BY <1>6, <1>7, <2>1, <2>2
  <2>3. CASE again.change > 0
    <3>1. first.change > 0
      BY <1>3, <1>5, <1>6, <1>8, <2>3
    <3>2. RequiredFee(again) = RequiredFee(first)
      BY <1>3, <1>6, <2>3, <3>1 DEF RequiredFee, Outputs
    <3> QED BY <1>5, <1>6, <1>7, <2>1, <2>3, <3>2
  <2> QED BY <1>6, <2>2, <2>3
<1>9. CASE ~(RequiredFee(first) > FeeOf(first))
  BY <1>1, <1>3, <1>5, <1>9
<1> QED BY <1>8, <1>9

\* What a payment leaves: some of the outputs there were, and its change.
LEMMA LeftAmounts ==
  ASSUME Amounts(coins), NEW tx, tx.change \in Nat
  PROVE  Amounts(CoinsLeft(tx))
<1> DEFINE extra == IF tx.change = 0 THEN {}
                    ELSE {[to |-> tx.to, value |-> tx.change, height |-> tip, coinbase |-> FALSE]}
<1>1. IsFiniteSet(coins \ tx.ins) /\ IsFiniteSet(extra)
  BY FS_Difference, FS_Singleton, FS_EmptySet DEF Amounts
<1>2. \A c \in extra : c.value \in Nat
  OBVIOUS
<1>3. CoinsLeft(tx) = (coins \ tx.ins) \cup extra
  BY DEF CoinsLeft
<1> HIDE DEF extra
<1>4. IsFiniteSet(CoinsLeft(tx))
  BY <1>1, <1>3, FS_Union
<1> QED BY <1>2, <1>3, <1>4 DEF Amounts

\* Each operation on payments.
LEMMA PaidStep ==
  ASSUME PayInv, PayNext
  PROVE  PayInv'
<1>1. Amounts(coins) /\ "change" \in DOMAIN psbt /\ psbt.change \in Nat /\ BuiltPaysFee
  BY DEF PayInv
<1>2. UNCHANGED coins => Amounts(coins)'
  BY <1>1 DEF Amounts
<1>3. UNCHANGED built => BuiltPaysFee'
  BY <1>1 DEF BuiltPaysFee, FeeOf, RequiredFee, Outputs
<1>4. ASSUME NEW a \in PayAmount, send_to_address(a) PROVE PayInv'
  <2>1. PICK ins \in _select_spendable_inputs({c \in Owned(coins) : Mature(c)}, a + TargetFee) :
           /\ ValueOfCoins(ins) >= a + RequiredFee(Payment(ins, a))
           /\ built' = Payment(ins, a)
           /\ coins' = IF Accepted(Payment(ins, a)) THEN CoinsLeft(Payment(ins, a)) ELSE coins
    BY <1>4 DEF send_to_address
  <2>2. ins \in SUBSET coins
    BY <2>1, Selected DEF Owned
  <2>3. IsFiniteSet(ins) /\ ValueOfCoins(ins) \in Nat /\ a \in Nat
    BY <1>1, <2>2, CoinsValue, FS_Subset, WalletAssumption DEF Amounts
  <2> DEFINE tx == Payment(ins, a)
  <2>4. tx.change \in Nat /\ FeeOf(tx) >= RequiredFee(tx)
    BY <2>1, <2>3, PaymentPays
  <2> HIDE DEF tx
  <2>5. built' = tx /\ coins' \in {coins, CoinsLeft(tx)} /\ psbt' = psbt
    BY <1>4, <2>1 DEF tx, send_to_address
  <2>6. Amounts(coins)'
    BY <1>1, <2>4, <2>5, LeftAmounts DEF Amounts
  <2>7. BuiltPaysFee'
    BY <2>4, <2>5 DEF BuiltPaysFee, FeeOf, RequiredFee, Outputs
  <2> QED BY <1>1, <2>5, <2>6, <2>7 DEF PayInv
<1>5. ASSUME NEW a \in PayAmount, wallet_create_funded_psbt(a) PROVE PayInv'
  <2>1. PICK ins \in _select_spendable_inputs(Owned(coins), a + TargetFee) :
           psbt' = create_transaction(ins, a, TargetFee, NoKey)
    BY <1>5 DEF wallet_create_funded_psbt
  <2>2. ins \in SUBSET coins
    BY <2>1, Selected DEF Owned
  <2>3. ValueOfCoins(ins) \in Nat /\ a \in Nat
    BY <1>1, <2>2, CoinsValue, WalletAssumption
  <2>4. TargetFee \in Int
    BY <2>3, AimedFee
  <2>5. "change" \in DOMAIN psbt' /\ psbt'.change \in Nat
    BY <2>1, <2>3, <2>4, Change
  <2> QED BY <1>2, <1>3, <1>5, <2>5 DEF PayInv, wallet_create_funded_psbt
<1>6. ASSUME wallet_process_psbt PROVE PayInv'
  <2>1. psbt' = [psbt EXCEPT !.signer = get_active_private_key, !.complete = TRUE]
        /\ UNCHANGED <<coins, built>>
    BY <1>6 DEF wallet_process_psbt
  <2>2. "change" \in DOMAIN psbt' /\ psbt'.change = psbt.change
    BY <1>1, <2>1
  <2> QED BY <1>1, <1>2, <1>3, <2>1, <2>2 DEF PayInv
<1>7. ASSUME SendRawPsbt PROVE PayInv'
  <2>1. coins' \in {coins, CoinsLeft(psbt)} /\ psbt' = NoTx /\ UNCHANGED built
    BY <1>7 DEF SendRawPsbt
  <2>2. Amounts(coins)'
    BY <1>1, <2>1, LeftAmounts DEF Amounts
  <2>3. "change" \in DOMAIN NoTx /\ NoTx.change \in Nat
    BY DEF NoTx
  <2> QED BY <1>3, <2>1, <2>2, <2>3 DEF PayInv
<1>8. ASSUME NewTip PROVE PayInv'
  BY <1>1, <1>2, <1>3, <1>8 DEF NewTip, payVars, PayInv
<1> QED BY <1>4, <1>5, <1>6, <1>7, <1>8 DEF PayNext

\* Every payment that send_to_address signs pays the relay fee of the size it
\* really has and has no negative change, whatever the fee it was first built
\* with, the dust folded into it and the outputs selected
\* (node/rpc/handlers/wallet.py).
THEOREM PaymentsPay == WalletSpec => []BuiltPaysFee
<1>1. WalletInit => PayInv
  <2>1. "change" \in DOMAIN NoTx /\ NoTx.change \in Nat
    BY DEF NoTx
  <2> QED BY <2>1, WalletAssumption DEF WalletInit, PayInv, BuiltPaysFee, Amounts
<1>2. PayInv /\ [KeyNext \/ CrashInSave \/ PayNext]_walletVars => PayInv'
  <2> SUFFICES ASSUME PayInv, [KeyNext \/ CrashInSave \/ PayNext]_walletVars PROVE PayInv'
    OBVIOUS
  <2>1. ASSUME UNCHANGED <<coins, psbt>>, built' \in {NoTx, built} PROVE PayInv'
    BY <2>1 DEF PayInv, Amounts, BuiltPaysFee, FeeOf, RequiredFee, Outputs
  <2>2. KeyNext \/ CrashInSave \/ UNCHANGED walletVars
          => UNCHANGED <<coins, psbt>> /\ built' \in {NoTx, built}
    BY DEF KeyNext, CrashInSave, create_wallet, activate_wallet, import_xpub_watch_only,
       wallet_passphrase, WalletRestart, derive_new_address, wallet_lock, Tick, walletVars, payVars
  <2> QED BY <2>1, <2>2, PaidStep
<1>3. PayInv => BuiltPaysFee
  BY DEF PayInv
<1> QED BY <1>1, <1>2, <1>3, PTL DEF WalletSpec

-----------------------------------------------------------------------------
(* The RPC server                                                          *)

Request == UNION {ToSet(body) : body \in RpcBodies \ {Garbage}}
Reply == {[id |-> r.id, code |-> Answer(r)] : r \in Request}

\* The first k requests of the exchange have been answered, in their order, and
\* those of them that name a method have run.
AnsweredTo(c, k) ==
    /\ k <= Len(calls[c].body) /\ Len(calls[c].answers) = k
    /\ \A i \in 1..k : calls[c].answers[i].id = calls[c].body[i].id
    /\ \A i \in 1..Len(calls[c].body) :
          <<c, i>> \in runs <=> i <= k /\ Reaches(calls[c].body[i])

Unrun(c) == \A r \in runs : r[1] # c

Call == [at : {"idle", "reading", "running", "finishing", "answered"},
         body : RpcBodies \cup {Garbage}, answers : Seq(Reply), status : Int]

CallTyped(c) == calls[c] \in Call

\* Where an exchange is, and what has been answered and run by then.
CallInv(c) ==
    /\ CallTyped(c)
    /\ calls[c].at \in {"idle", "reading", "running", "finishing"} => calls[c].status = 0
    /\ calls[c].at \in {"idle", "reading"} => calls[c].answers = <<>> /\ Unrun(c)
    /\ calls[c].at \in {"running", "finishing"} => calls[c].body # Garbage
    /\ calls[c].at = "running" => AnsweredTo(c, Len(calls[c].answers))
    /\ calls[c].at = "finishing" => AnsweredTo(c, Len(calls[c].body))
    /\ calls[c].at = "answered" /\ calls[c].body # Garbage /\ calls[c].status = 200
          => AnsweredTo(c, Len(calls[c].body))

RpcInv ==
    /\ calls = [c \in Caller |-> calls[c]] /\ \A c \in Caller : CallInv(c)
    /\ CookieUsable

\* A body that parses is a list of requests.
LEMMA BodyList ==
  ASSUME NEW body \in RpcBodies \cup {Garbage}, body # Garbage
  PROVE  body \in Seq(Request)
<1>1. body \in Seq(ToSet(body)) /\ ToSet(body) \subseteq Request
  BY BodiesAssumption DEF Request
<1> QED BY <1>1

\* An exchange that a step leaves alone.
LEMMA CallKept ==
  ASSUME NEW c, CallInv(c), calls'[c] = calls[c],
         \A r : r[1] = c => (r \in runs' <=> r \in runs)
  PROVE  CallInv(c)'
<1>1. CallTyped(c)'
  BY DEF CallInv, CallTyped
<1>2. Unrun(c) => Unrun(c)'
  BY DEF Unrun
<1>3. ASSUME NEW k, AnsweredTo(c, k) PROVE AnsweredTo(c, k)'
  <2>1. \A i : <<c, i>> \in runs' <=> <<c, i>> \in runs
    OBVIOUS
  <2> QED BY <1>3, <2>1 DEF AnsweredTo
<1> QED BY <1>1, <1>2, <1>3 DEF CallInv

\* A step of one caller that runs nothing and leaves its exchange in order.
LEMMA CallerStep ==
  ASSUME RpcInv, NEW c \in Caller, NEW call, calls' = [calls EXCEPT ![c] = call],
         \A r : r[1] # c => (r \in runs' <=> r \in runs),
         UNCHANGED <<up, cookieFile, cookie>>, CallInv(c)'
  PROVE  RpcInv'
<1>1. calls' = [d \in Caller |-> calls'[d]]
  BY DEF RpcInv
<1>2. ASSUME NEW d \in Caller PROVE CallInv(d)'
  <2>1. CASE d = c
    BY <2>1
  <2>2. CASE d # c
    <3>1. calls'[d] = calls[d]
      BY <2>2 DEF RpcInv
    <3>2. \A r : r[1] = d => (r \in runs' <=> r \in runs)
      BY <2>2
    <3> QED BY <3>1, <3>2, CallKept DEF RpcInv
  <2> QED BY <2>1, <2>2
<1> QED BY <1>1, <1>2 DEF RpcInv, CookieUsable

\* A request is refused, or only its address was asked for.
LEMMA RefusedStep ==
  ASSUME RpcInv, NEW c \in Caller, NEW s \in Int, Refused(c, s),
         UNCHANGED <<up, cookieFile, cookie, runs>>
  PROVE  RpcInv'
<1> DEFINE call == [Idle EXCEPT !.at = "answered", !.status = s]
<1>1. calls' = [calls EXCEPT ![c] = call]
  BY DEF Refused
<1>2. call.at = "answered" /\ call.body = Garbage
  BY DEF Idle
<1>3. calls'[c] = call
  BY <1>1 DEF RpcInv
<1>4. <<>> \in Seq(Reply)
  BY EmptySeq
<1>5. CallTyped(c)'
  BY <1>3, <1>4 DEF CallTyped, Call, Idle
<1> HIDE DEF call
<1>6. CallInv(c)'
  BY <1>2, <1>3, <1>5 DEF CallInv
<1> QED BY <1>1, <1>6, CallerStep

\* A request is let in, and its body read.
LEMMA AdmitStep ==
  ASSUME RpcInv, NEW c \in Caller, NEW cred, NEW body \in RpcBodies, Admit(c, cred, body)
  PROVE  RpcInv'
<1>1. calls[c].at = "idle" /\ UNCHANGED <<up, cookieFile, cookie, runs>>
  BY DEF Admit
<1>2. CASE Refused(c, 403) \/ Refused(c, 401)
  BY <1>1, <1>2, RefusedStep
<1>3. CASE calls' = [calls EXCEPT ![c] = [Idle EXCEPT !.at = "reading", !.body = body]]
  <2> DEFINE call == [Idle EXCEPT !.at = "reading", !.body = body]
  <2>1. call.at = "reading" /\ call.answers = <<>> /\ call.status = 0
    BY DEF Idle
  <2>2. calls'[c] = call
    BY <1>3 DEF RpcInv
  <2>3. calls' = [calls EXCEPT ![c] = call]
    BY <1>3
  <2>4. <<>> \in Seq(Reply)
    BY EmptySeq
  <2>5. CallTyped(c)'
    <3>1. Idle \in Call
      BY <2>4 DEF Idle, Call
    <3> QED BY <2>2, <3>1 DEF CallTyped, Call
  <2> HIDE DEF call
  <2>6. Unrun(c)'
    BY <1>1 DEF RpcInv, CallInv, Unrun
  <2>7. CallInv(c)'
    BY <2>1, <2>2, <2>5, <2>6 DEF CallInv
  <2> QED BY <1>1, <2>3, <2>7, CallerStep
<1> QED BY <1>2, <1>3 DEF Admit

\* Reading a body: refused, or as many answers owed as it has requests.
LEMMA ReadStep ==
  ASSUME RpcInv, NEW c \in Caller, ReadBody(c)
  PROVE  RpcInv'
<1>1. calls[c].at = "reading" /\ UNCHANGED <<up, cookieFile, cookie, runs>>
  BY DEF ReadBody
<1>2. CASE Refused(c, 400)
  BY <1>1, <1>2, RefusedStep
<1>3. CASE calls[c].body # Garbage /\ calls' = [calls EXCEPT ![c].at = "running"]
  <2> DEFINE call == [calls[c] EXCEPT !.at = "running"]
  <2>1. calls' = [calls EXCEPT ![c] = call] /\ calls'[c] = call
    BY <1>3 DEF RpcInv
  <2>2. CallTyped(c) /\ calls[c].status = 0 /\ calls[c].answers = <<>> /\ Unrun(c)
    BY <1>1 DEF RpcInv, CallInv
  <2>3. CallTyped(c)' /\ call.at = "running" /\ call.body = calls[c].body
        /\ call.answers = <<>> /\ call.status = 0
    BY <2>1, <2>2 DEF CallTyped, Call
  <2> HIDE DEF call
  <2>4. call.body \in Seq(Request)
    BY <1>3, <2>2, <2>3, BodyList DEF CallTyped, Call
  <2>5. \A i : <<c, i>> \notin runs
    BY <2>2 DEF Unrun
  <2>6. AnsweredTo(c, 0)'
    BY <1>1, <2>1, <2>3, <2>4, <2>5 DEF AnsweredTo
  <2>7. CallInv(c)'
    BY <1>3, <2>1, <2>3, <2>6 DEF CallInv
  <2> QED BY <1>1, <2>1, <2>7, CallerStep
<1> QED BY <1>2, <1>3 DEF ReadBody

\* One request of a batch is run and answered.
LEMMA ProcessStep ==
  ASSUME RpcInv, NEW c \in Caller, ProcessNext(c)
  PROVE  RpcInv'
<1>0. PICK old : old = calls[c]
  OBVIOUS
<1> PICK k : k = Len(old.answers)
  OBVIOUS
<1> DEFINE body == old.body
           n == k + 1
           reply == [id |-> body[n].id, code |-> Answer(body[n])]
           at == IF n = Len(body) THEN "finishing" ELSE "running"
           call == [old EXCEPT !.answers = Append(@, reply), !.at = at]
<1>1. old.at = "running" /\ n <= Len(body) /\ UNCHANGED <<up, cookieFile, cookie>>
      /\ runs' = IF Reaches(body[n]) THEN runs \cup {<<c, n>>} ELSE runs
  BY <1>0 DEF ProcessNext
<1>2. old \in Call /\ old.status = 0 /\ body # Garbage /\ AnsweredTo(c, k)
  BY <1>0, <1>1 DEF RpcInv, CallInv, CallTyped
<1>3. calls' = [calls EXCEPT ![c] = call] /\ calls'[c] = call
  BY <1>0 DEF ProcessNext, RpcInv
<1>4. body \in Seq(Request) /\ old.answers \in Seq(Reply) /\ Len(body) \in Nat /\ k \in Nat
  BY <1>2, BodyList DEF Call
<1>5. body[n] \in Request
  BY <1>1, <1>4
<1>6. reply \in Reply
  BY <1>5 DEF Reply
<1>7. reply.id = body[n].id /\ at \in {"running", "finishing"}
      /\ (at = "finishing" <=> n = Len(body))
  OBVIOUS
<1> HIDE DEF reply, at
<1>8. call.at = at /\ call.body = body /\ call.status = 0 /\ call.answers = Append(old.answers, reply)
  BY <1>2 DEF Call
<1>9. Append(old.answers, reply) \in Seq(Reply)
  BY <1>4, <1>6
<1>10. CallTyped(c)'
  <2>1. call \in Call
    BY <1>2, <1>7, <1>9 DEF Call
  <2> QED BY <1>3, <2>1 DEF CallTyped
<1> HIDE DEF call
<1>11. Len(call.answers) = n /\ call.answers[n] = reply
       /\ \A i \in 1..k : call.answers[i] = old.answers[i]
  BY <1>4, <1>6, <1>8
<1>12. \A i \in 1..n : call.answers[i].id = body[i].id
  <2>1. SUFFICES ASSUME NEW i \in 1..n PROVE call.answers[i].id = body[i].id
    OBVIOUS
  <2>2. CASE i = n
    BY <2>2, <1>7, <1>11
  <2>3. CASE i \in 1..k
    BY <2>3, <1>0, <1>2, <1>11 DEF AnsweredTo
  <2> QED BY <2>2, <2>3, <1>4
<1>13. \A i \in 1..Len(body) : <<c, i>> \in runs' <=> i <= n /\ Reaches(body[i])
  <2> HIDE DEF body
  <2>1. SUFFICES ASSUME NEW i \in 1..Len(body)
                 PROVE  <<c, i>> \in runs' <=> i <= n /\ Reaches(body[i])
    OBVIOUS
  <2>2. <<c, i>> \in runs <=> i <= k /\ Reaches(body[i])
    BY <1>0, <1>2 DEF AnsweredTo, body
  <2>3. <<c, i>> \in runs' <=> (<<c, i>> \in runs \/ (i = n /\ Reaches(body[n])))
    BY <1>1
  <2>4. i <= n <=> (i <= k \/ i = n)
    BY <1>4
  <2>5. ~(n <= k)
    BY <1>4
  <2>6. CASE i = n
    BY <2>2, <2>3, <2>4, <2>5, <2>6
  <2>7. CASE i # n
    BY <2>2, <2>3, <2>4, <2>7
  <2> QED BY <2>6, <2>7
<1>14. AnsweredTo(c, n)'
  BY <1>1, <1>3, <1>8, <1>11, <1>12, <1>13 DEF AnsweredTo
<1>15. CallInv(c)'
  BY <1>2, <1>3, <1>7, <1>8, <1>10, <1>11, <1>14 DEF CallInv
<1>16. \A r : r[1] # c => (r \in runs' <=> r \in runs)
  BY <1>1
<1> QED BY <1>1, <1>3, <1>15, <1>16, CallerStep

\* A batch has been answered, or a part of its answer is no JSON.
LEMMA FinishStep ==
  ASSUME RpcInv, NEW c \in Caller, Finish(c)
  PROVE  RpcInv'
<1>1. UNCHANGED <<up, cookieFile, cookie, runs>>
  BY DEF Finish
<1>2. CallTyped(c) /\ calls[c].body # Garbage /\ AnsweredTo(c, Len(calls[c].body))
  <2>1. CASE calls[c].at = "finishing"
    BY <2>1 DEF RpcInv, CallInv
  <2>2. CASE calls[c].at = "running" /\ calls[c].body = <<>>
    <3>1. CallTyped(c) /\ calls[c].body # Garbage /\ AnsweredTo(c, Len(calls[c].answers))
      BY <2>2 DEF RpcInv, CallInv
    <3>2. calls[c].answers \in Seq(Reply) /\ Len(calls[c].answers) \in Nat
      BY <3>1 DEF CallTyped, Call
    <3>3. Len(calls[c].answers) = Len(calls[c].body)
      BY <2>2, <3>1, <3>2 DEF AnsweredTo
    <3> QED BY <3>1, <3>3
  <2> QED BY <2>1, <2>2 DEF Finish
<1>3. PICK old : old = calls[c] /\ old \in Call
  BY <1>2 DEF CallTyped
<1>4. CASE calls' = [calls EXCEPT ![c] = [@ EXCEPT !.at = "answered", !.status = 500, !.answers = <<>>]]
  <2> DEFINE call == [old EXCEPT !.at = "answered", !.status = 500, !.answers = <<>>]
  <2>1. calls' = [calls EXCEPT ![c] = call] /\ calls'[c] = call
    BY <1>3, <1>4 DEF RpcInv
  <2>2. <<>> \in Seq(Reply)
    BY EmptySeq
  <2>3. call \in Call /\ call.at = "answered" /\ call.status = 500
    <3>1. PICK code \in Int : code = 500
      OBVIOUS
    <3>2. call = [old EXCEPT !.at = "answered", !.status = code, !.answers = <<>>]
      BY <3>1
    <3> HIDE DEF call
    <3>3. call \in Call /\ call.at = "answered" /\ call.status = code
      BY <1>3, <2>2, <3>2 DEF Call
    <3> QED BY <3>1, <3>3
  <2> HIDE DEF call
  <2>4. CallInv(c)'
    BY <2>1, <2>3 DEF CallInv, CallTyped
  <2> QED BY <1>1, <2>1, <2>4, CallerStep
<1>5. CASE calls' = [calls EXCEPT ![c] = [@ EXCEPT !.at = "answered", !.status = 200]]
  <2> DEFINE call == [old EXCEPT !.at = "answered", !.status = 200]
  <2>1. calls' = [calls EXCEPT ![c] = call] /\ calls'[c] = call
    BY <1>3, <1>5 DEF RpcInv
  <2>2. call \in Call /\ call.at = "answered" /\ call.body = old.body /\ call.answers = old.answers
    <3>1. PICK code \in Int : code = 200
      OBVIOUS
    <3>2. call = [old EXCEPT !.at = "answered", !.status = code]
      BY <3>1
    <3> HIDE DEF call
    <3> QED BY <1>3, <3>2 DEF Call
  <2> HIDE DEF call
  <2>3. AnsweredTo(c, Len(calls[c].body))'
    BY <1>1, <1>2, <1>3, <2>1, <2>2 DEF AnsweredTo
  <2>4. CallInv(c)'
    BY <2>1, <2>2, <2>3 DEF CallInv, CallTyped
  <2> QED BY <1>1, <2>1, <2>4, CallerStep
<1> QED BY <1>4, <1>5 DEF Finish

\* Exchanges begin and end idle, with nothing run.
LEMMA IdleAll ==
  ASSUME calls' = [c \in Caller |-> Idle], runs' = {}, CookieUsable'
  PROVE  RpcInv'
<1>1. <<>> \in Seq(Reply)
  BY EmptySeq
<1>2. Idle \in Call /\ Idle.at = "idle" /\ Idle.answers = <<>> /\ Idle.status = 0
  BY <1>1 DEF Idle, Call
<1>3. ASSUME NEW c \in Caller PROVE CallInv(c)'
  <2>1. calls'[c] = Idle
    OBVIOUS
  <2> QED BY <1>2, <2>1 DEF CallInv, CallTyped, Unrun
<1> QED BY <1>3 DEF RpcInv

\* A client that hangs up leaves no answer and no request that runs.
LEMMA HangUpStep ==
  ASSUME RpcInv, NEW c \in Caller, HangUp(c)
  PROVE  RpcInv'
<1>1. calls' = [calls EXCEPT ![c] = Idle] /\ runs' = {r \in runs : r[1] # c}
      /\ UNCHANGED <<up, cookieFile, cookie>>
  BY DEF HangUp
<1>2. calls'[c] = Idle
  BY <1>1 DEF RpcInv
<1>3. <<>> \in Seq(Reply)
  BY EmptySeq
<1>4. Idle \in Call /\ Idle.at = "idle" /\ Idle.answers = <<>> /\ Idle.status = 0
  BY <1>3 DEF Idle, Call
<1>5. CallInv(c)'
  BY <1>1, <1>2, <1>4 DEF CallInv, CallTyped, Unrun
<1>6. \A r : r[1] # c => (r \in runs' <=> r \in runs)
  BY <1>1
<1> QED BY <1>1, <1>5, <1>6, CallerStep

\* Calls and runs stay, and the cookie in the file is the server's.
LEMMA CookieStep ==
  ASSUME RpcInv, UNCHANGED <<calls, runs>>, CookieUsable'
  PROVE  RpcInv'
<1>1. \A c \in Caller : CallInv(c)'
  BY CallKept DEF RpcInv
<1> QED BY <1>1 DEF RpcInv

\* In every reachable state a batch answered with 200 has one answer for each
\* of its requests, in their order and under their ids, and exactly those that
\* name a method have run; and the cookie file holds the secret that the
\* running server takes (RPCServer._handle_request, AuthManager), through
\* rotations, crashes in the creation of the file and restarts.
THEOREM ClientsAnswered == RpcSpec => []ClientsServed
<1>1. RpcInit => RpcInv
  <2> SUFFICES ASSUME RpcInit PROVE RpcInv
    OBVIOUS
  <2>1. <<>> \in Seq(Reply)
    BY EmptySeq
  <2>2. Idle \in Call /\ Idle.at = "idle" /\ Idle.answers = <<>> /\ Idle.status = 0
    BY <2>1 DEF Idle, Call
  <2>3. ASSUME NEW c \in Caller PROVE CallInv(c)
    <3>1. calls[c] = Idle /\ runs = {}
      BY DEF RpcInit
    <3> QED BY <2>2, <3>1 DEF CallInv, CallTyped, Unrun
  <2> QED BY <2>3 DEF RpcInv, RpcInit, CookieUsable
<1>2. RpcInv /\ [RpcNext]_rpcVars => RpcInv'
  <2> SUFFICES ASSUME RpcInv, [RpcNext]_rpcVars PROVE RpcInv'
    OBVIOUS
  <2>1. CASE StartServer
    BY <2>1, CookieStep DEF StartServer, LoadOrCreate, CookieUsable
  <2>2. CASE StopServer
    BY <2>2, IdleAll DEF StopServer, CookieUsable
  <2>3. CASE DieInCreate
    BY <2>3, IdleAll DEF DieInCreate, CookieUsable
  <2>4. CASE RotateCookie
    BY <2>4, CookieStep DEF RotateCookie, CookieUsable
  <2>5. CASE \E u \in UserName : RemoveUser(u) \/ \E p \in Password : AddUser(u, p)
    BY <2>5, CookieStep DEF RemoveUser, AddUser, RpcInv, CookieUsable
  <2>6. ASSUME NEW c \in Caller, NEW cred \in Credentials, NEW body \in RpcBodies, Admit(c, cred, body)
        PROVE  RpcInv'
    BY <2>6, AdmitStep
  <2>7. ASSUME NEW c \in Caller, ReadBody(c) \/ ProcessNext(c) \/ Finish(c) \/ HangUp(c)
        PROVE  RpcInv'
    BY <2>7, ReadStep, ProcessStep, FinishStep, HangUpStep
  <2>8. ASSUME NEW c \in Caller, NEW ok \in BOOLEAN, Probe(c, ok) PROVE RpcInv'
    <3>1. Refused(c, 403) \/ Refused(c, 200) \/ Refused(c, 503)
      BY <2>8 DEF Probe
    <3> QED BY <2>8, <3>1, RefusedStep DEF Probe
  <2>9. CASE UNCHANGED rpcVars
    BY <2>9, CookieStep DEF rpcVars, RpcInv, CookieUsable
  <2> QED BY <2>1, <2>2, <2>3, <2>4, <2>5, <2>6, <2>7, <2>8, <2>9 DEF RpcNext
<1>3. RpcInv => ClientsServed
  <2> SUFFICES ASSUME RpcInv PROVE ClientsServed
    OBVIOUS
  <2>1. SUFFICES ASSUME NEW c \in Caller, calls[c].status = 200, calls[c].body # Garbage
                 PROVE  /\ Len(calls[c].answers) = Len(calls[c].body)
                        /\ \A i \in 1..Len(calls[c].body) :
                              /\ calls[c].answers[i].id = calls[c].body[i].id
                              /\ Reaches(calls[c].body[i]) <=> <<c, i>> \in runs
    BY DEF ClientsServed, BatchAnswered, RpcInv
  <2>2. calls[c].at = "answered" /\ CallTyped(c)
    BY <2>1 DEF RpcInv, CallInv, CallTyped, Call
  <2>3. AnsweredTo(c, Len(calls[c].body))
    BY <2>1, <2>2 DEF RpcInv, CallInv
  <2>4. \A i \in 1..Len(calls[c].body) : i <= Len(calls[c].body)
    OBVIOUS
  <2> QED BY <2>3, <2>4 DEF AnsweredTo
<1> QED BY <1>1, <1>2, <1>3, PTL DEF RpcSpec

-----------------------------------------------------------------------------
(* The data directory                                                      *)

Schema == [migrated : BOOLEAN, headers : SUBSET Block, bodies : SUBSET Block, utxo : SUBSET Outpoint]

\* The parent of every row is a row.
Rooted == \A b \in view.headers \ {Genesis} : Parent[b] \in view.headers

\* The blocks there can be a file of.
Given == Arriving \cup {Genesis}

StoreTyped ==
    /\ view \in Schema
    /\ raw \in [Block -> Block \cup {NoFile, Torn}]
    /\ repairs \subseteq Given /\ view.bodies \subseteq Given /\ writing \in Given \cup {NoFile}
    /\ \A b \in Block : Readable(b) => b \in Given

\* Nothing is ever committed: the first statement of a session, the record of
\* the migration, opens a transaction that no other one ends.
NothingCommitted == disk = Empty /\ (proc \in {"index", "genesis"} => inTx)

\* Rows come after whole files, and no file with a row is rewritten.
FilesFirst ==
    /\ view.bodies \subseteq view.headers
    /\ \A b \in view.bodies : Readable(b)
    /\ writing # NoFile => writing \in Block \ view.headers
                           /\ proc \in {"genesis", "checks", "up"}
    /\ repairs \cap view.headers = {} /\ writing \notin repairs
    /\ repairs # {} => proc = "checks"

\* What each part of a session may rely on.
Session ==
    /\ proc = "down" => view = Empty
    /\ proc \in {"index", "genesis"} => view.utxo = {} /\ view.headers \in {{}, {Genesis}}
    /\ proc = "genesis" => view.headers = {}
    /\ proc = "checks" => /\ best = Genesis /\ Genesis \in view.headers /\ view.utxo = {}
                          /\ Rooted
                          /\ writing # NoFile => Parent[writing] \in view.headers
    /\ proc = "up" => /\ best \in view.headers /\ Rooted
                      /\ Genesis \in view.headers /\ Anc[best] \ {Genesis} \subseteq view.bodies
                      /\ ValidBranch(best) /\ view.utxo = UtxoOf(best)
                      /\ writing # NoFile => /\ Parent[writing] = best
                                             /\ StatefulOK(writing, view.utxo)

StoreInv == StoreTyped /\ NothingCommitted /\ FilesFirst /\ Session

\* A database that was just made holds nothing.
LEMMA EmptyTables ==
  /\ Empty \in Schema /\ Empty.migrated = FALSE
  /\ Empty.headers = {} /\ Empty.bodies = {} /\ Empty.utxo = {}
  BY DEF Empty, Schema

\* Opening the file of a block spoils that file alone.
LEMMA FileOpened ==
  ASSUME StoreTyped, NEW b \in Given, OpenFile(b)
  PROVE  /\ raw' \in [Block -> Block \cup {NoFile, Torn}]
         /\ \A a \in Block : Readable(a)' => a \in Given
         /\ \A a \in Block \ {b} : Readable(a) => Readable(a)'
<1>1. raw \in [Block -> Block \cup {NoFile, Torn}] /\ raw' = [raw EXCEPT ![b] = Torn]
  BY DEF StoreTyped, OpenFile
<1>2. raw' \in [Block -> Block \cup {NoFile, Torn}] /\ \A a \in Block \ {b} : raw'[a] = raw[a]
  BY <1>1
<1> QED BY <1>2 DEF Readable, StoreTyped

\* Completing it makes that file readable and leaves the others.
LEMMA FileCompleted ==
  ASSUME StoreTyped, NEW b \in Given, FileDone(b)
  PROVE  /\ raw' \in [Block -> Block \cup {NoFile, Torn}]
         /\ \A a \in Block : Readable(a)' => a \in Given
         /\ \A a \in Block : Readable(a) => Readable(a)'
         /\ Readable(b)'
<1>1. raw \in [Block -> Block \cup {NoFile, Torn}] /\ raw' = [raw EXCEPT ![b] = b] /\ b \in Block
  BY StoreAssumption, TreeAssumption DEF StoreTyped, FileDone, Given
<1>2. raw' \in [Block -> Block \cup {NoFile, Torn}] /\ raw'[b] = b
      /\ \A a \in Block \ {b} : raw'[a] = raw[a]
  BY <1>1
<1> QED BY <1>2 DEF Readable, StoreTyped

\* Whenever the process ends, what is left are the files.
LEMMA SessionEnded ==
  ASSUME StoreInv, Close, proc' = "down", writing' = NoFile, repairs' = {}, UNCHANGED raw
  PROVE  StoreInv'
<1>1. view' = Empty /\ disk' = Empty
  BY DEF StoreInv, NothingCommitted, Close
<1>2. StoreTyped'
  BY <1>1, EmptyTables DEF StoreInv, StoreTyped, Readable
<1>3. FilesFirst'
  BY <1>1, EmptyTables DEF FilesFirst
<1>4. Session' /\ NothingCommitted'
  BY <1>1 DEF Session, NothingCommitted
<1> QED BY <1>2, <1>3, <1>4 DEF StoreInv

\* The database is opened and migrated.
LEMMA OpenStep ==
  ASSUME StoreInv, OpenDatabase
  PROVE  StoreInv'
<1>1. proc = "down" /\ proc' = "index" /\ UNCHANGED <<raw, writing, repairs>>
  BY DEF OpenDatabase
<1>2. view = Empty /\ disk = Empty /\ writing = NoFile /\ repairs = {}
  BY <1>1 DEF StoreInv, NothingCommitted, Session, FilesFirst
<1>3. view' = [view EXCEPT !.migrated = TRUE] /\ inTx' = TRUE /\ disk' = Empty
  BY <1>2, EmptyTables DEF OpenDatabase, Migrate, Execute
<1>4. view' \in Schema /\ view'.headers = {} /\ view'.bodies = {} /\ view'.utxo = {}
  BY <1>2, <1>3, EmptyTables DEF Schema
<1>5. StoreTyped'
  BY <1>1, <1>4 DEF StoreInv, StoreTyped, Readable
<1>6. FilesFirst'
  BY <1>1, <1>2, <1>4 DEF FilesFirst
<1>7. Session' /\ NothingCommitted'
  BY <1>1, <1>3, <1>4 DEF Session, NothingCommitted
<1> QED BY <1>5, <1>6, <1>7 DEF StoreInv

\* The index is rebuilt from the one row there can be.
LEMMA LoadStep ==
  ASSUME StoreInv, LoadIndex
  PROVE  StoreInv'
<1>1. proc = "index" /\ proc' = "checks" /\ UNCHANGED <<raw, writing, view, disk>>
      /\ repairs' = RawOnly /\ best' \in Heaviest(view.headers)
  BY DEF LoadIndex, Execute
<1>2. view.headers = {Genesis} /\ writing = NoFile /\ view.utxo = {}
  BY <1>1 DEF LoadIndex, StoreInv, Session, FilesFirst
<1>3. best' = Genesis
  BY <1>1, <1>2 DEF Heaviest
<1>4. StoreTyped'
  BY <1>1, <1>2 DEF StoreInv, StoreTyped, RawOnly, Readable
<1>5. FilesFirst'
  BY <1>1, <1>2, StoreAssumption DEF StoreInv, FilesFirst, RawOnly, Readable, StoreTyped
<1>6. Session' /\ NothingCommitted'
  BY <1>1, <1>2, <1>3 DEF StoreInv, Session, NothingCommitted, Rooted
<1> QED BY <1>4, <1>5, <1>6 DEF StoreInv

\* The genesis block is imported, as a row or with its body.
LEMMA GenesisStep ==
  ASSUME StoreInv, ImportAnchor \/ ImportGenesis \/ GenesisWritten
  PROVE  StoreInv'
<1>1. Genesis \in Given /\ Genesis \in Block /\ Genesis # NoFile
  BY TreeAssumption, StoreAssumption DEF Given
<1>2. CASE ImportAnchor
  <2>1. proc = "index" /\ UNCHANGED <<proc, raw, writing, repairs, disk>> /\ inTx' = TRUE
        /\ view' = [view EXCEPT !.headers = {Genesis}]
    BY <1>2 DEF ImportAnchor, Execute
  <2>2. view \in Schema /\ view.bodies = {} /\ view.utxo = {} /\ writing = NoFile /\ repairs = {}
    BY <1>2, <2>1 DEF ImportAnchor, StoreInv, StoreTyped, Session, FilesFirst
  <2>3. view' \in Schema /\ view'.headers = {Genesis} /\ view'.bodies = {} /\ view'.utxo = {}
    BY <1>1, <2>1, <2>2 DEF Schema
  <2>4. StoreTyped'
    BY <2>1, <2>2, <2>3 DEF StoreInv, StoreTyped, Readable
  <2>5. FilesFirst'
    BY <2>1, <2>2, <2>3 DEF FilesFirst
  <2>6. Session' /\ NothingCommitted'
    BY <2>1, <2>3 DEF StoreInv, Session, NothingCommitted
  <2> QED BY <2>4, <2>5, <2>6 DEF StoreInv
<1>3. CASE ImportGenesis
  <2>1. proc = "index" /\ proc' = "genesis" /\ UNCHANGED <<repairs, disk, view, inTx>>
        /\ view.headers = {} /\ OpenFile(Genesis) /\ writing' = Genesis
    BY <1>3 DEF ImportGenesis, OpenFile, tables
  <2>2. view \in Schema /\ view.bodies = {} /\ view.utxo = {} /\ repairs = {} /\ inTx
    BY <2>1 DEF StoreInv, StoreTyped, Session, FilesFirst, NothingCommitted
  <2>3. StoreTyped'
    BY <1>1, <2>1, <2>2, FileOpened DEF StoreInv, StoreTyped
  <2>4. FilesFirst'
    BY <1>1, <2>1, <2>2 DEF FilesFirst
  <2>5. Session' /\ NothingCommitted'
    BY <2>1, <2>2 DEF StoreInv, Session, NothingCommitted
  <2> QED BY <2>3, <2>4, <2>5 DEF StoreInv
<1>4. CASE GenesisWritten
  <2>1. proc = "genesis" /\ proc' = "index" /\ UNCHANGED repairs /\ FileDone(Genesis)
        /\ writing' = NoFile /\ view' = WithBody(view, Genesis)
    BY <1>4 DEF GenesisWritten, FileDone, InTransaction
  <2>2. view \in Schema /\ view.headers = {} /\ view.bodies = {} /\ view.utxo = {} /\ repairs = {} /\ inTx
    BY <2>1 DEF StoreInv, StoreTyped, Session, FilesFirst, NothingCommitted
  <2>3. UNCHANGED <<disk, inTx>>
    BY <1>4, <2>2 DEF GenesisWritten, InTransaction
  <2>4. view' \in Schema /\ view'.headers = {Genesis} /\ view'.bodies = {Genesis} /\ view'.utxo = {}
    BY <1>1, <2>1, <2>2 DEF Schema, WithBody
  <2>5. StoreTyped'
    BY <1>1, <2>1, <2>2, <2>4, FileCompleted DEF StoreInv, StoreTyped
  <2>6. FilesFirst'
    BY <1>1, <2>1, <2>2, <2>4, FileCompleted DEF FilesFirst, StoreInv
  <2>7. Session' /\ NothingCommitted'
    BY <2>1, <2>2, <2>3, <2>4 DEF StoreInv, Session, NothingCommitted
  <2> QED BY <2>5, <2>6, <2>7 DEF StoreInv
<1> QED BY <1>2, <1>3, <1>4

\* The recovery pass leaves a file, rewrites it, and adds its rows.
LEMMA RepairStep ==
  ASSUME StoreInv, NEW b \in Block, LeaveRaw(b) \/ Rewrite(b) \/ Repaired(b)
  PROVE  StoreInv'
<1>1. proc = "checks" /\ proc' = "checks" /\ best' = best /\ disk' = disk
  BY DEF LeaveRaw, Rewrite, Repaired, Execute, OpenFile, tables
<1>2. /\ best = Genesis /\ Genesis \in view.headers /\ view.utxo = {} /\ Rooted
      /\ view \in Schema /\ repairs \subseteq Given
  BY <1>1 DEF StoreInv, Session, StoreTyped
<1>3. CASE LeaveRaw(b)
  <2>1. UNCHANGED <<view, inTx, raw, writing>> /\ repairs' \subseteq repairs
    BY <1>3 DEF LeaveRaw, tables
  <2>2. StoreTyped' /\ FilesFirst'
    BY <1>1, <2>1 DEF StoreInv, StoreTyped, FilesFirst, Readable
  <2>3. Session' /\ NothingCommitted'
    BY <1>1, <2>1 DEF StoreInv, Session, NothingCommitted, Rooted
  <2> QED BY <2>2, <2>3 DEF StoreInv
<1>4. CASE Rewrite(b)
  <2>1. UNCHANGED <<view, inTx>> /\ b \in repairs /\ repairs' = repairs \ {b} /\ OpenFile(b) /\ writing' = b
    BY <1>4 DEF Rewrite, OpenFile, tables
  <2>2. b \in Given /\ b \notin view.headers
    BY <1>2, <2>1 DEF StoreInv, FilesFirst
  <2>3. Parent[b] \in view.headers
    BY <1>2, <1>4, <2>2 DEF Rewrite
  <2>4. StoreTyped'
    BY <1>2, <2>1, <2>2, FileOpened DEF StoreInv, StoreTyped
  <2>5. \A a \in view.bodies : Readable(a)'
    BY <1>2, <2>1, <2>2, FileOpened DEF StoreInv, FilesFirst, Schema
  <2>6. FilesFirst'
    BY <1>1, <2>1, <2>2, <2>5 DEF StoreInv, FilesFirst
  <2>7. Session' /\ NothingCommitted'
    BY <1>1, <1>2, <2>1, <2>3 DEF StoreInv, Session, NothingCommitted, Rooted
  <2> QED BY <2>4, <2>6, <2>7 DEF StoreInv
<1>5. CASE Repaired(b)
  <2>1. UNCHANGED repairs /\ writing = b /\ FileDone(b) /\ writing' = NoFile /\ view' = WithBody(view, b)
    BY <1>5 DEF Repaired, FileDone, Execute
  <2>2. b # NoFile
    BY StoreAssumption
  <2>3. b \in Given /\ b \notin view.headers /\ b \notin repairs /\ Parent[b] \in view.headers
    BY <1>1, <2>1, <2>2 DEF StoreInv, StoreTyped, Session, FilesFirst
  <2>4. /\ view' \in Schema /\ view'.headers = view.headers \cup {b}
        /\ view'.bodies = view.bodies \cup {b} /\ view'.utxo = {}
    BY <1>2, <2>1 DEF Schema, WithBody
  <2>5. StoreTyped'
    BY <2>1, <2>3, <2>4, FileCompleted DEF StoreInv, StoreTyped
  <2>6. \A a \in view'.bodies : Readable(a)'
    BY <1>2, <2>1, <2>3, <2>4, FileCompleted DEF StoreInv, FilesFirst, Schema
  <2>7. FilesFirst'
    <3>1. NoFile \notin repairs
      BY <1>2, StoreAssumption, TreeAssumption DEF Given
    <3> QED BY <1>1, <2>1, <2>3, <2>4, <2>6, <3>1 DEF StoreInv, FilesFirst
  <2>8. Rooted'
    BY <1>2, <2>3, <2>4 DEF Rooted
  <2>9. Session' /\ NothingCommitted'
    BY <1>1, <1>2, <2>1, <2>4, <2>8 DEF StoreInv, Session, NothingCommitted
  <2> QED BY <2>5, <2>7, <2>9 DEF StoreInv
<1> QED BY <1>3, <1>4, <1>5

\* The checks have passed: the chain is genesis alone.
LEMMA RestoreStep ==
  ASSUME StoreInv, RestoreMempool
  PROVE  StoreInv'
<1>1. proc = "checks" /\ proc' = "up" /\ writing = NoFile /\ repairs' = {}
      /\ UNCHANGED <<view, disk, inTx, raw, writing, best>>
  BY DEF RestoreMempool, tables
<1>2. best = Genesis /\ Genesis \in view.headers /\ view.utxo = {} /\ Rooted
  BY <1>1 DEF StoreInv, Session
<1>3. Anc[Genesis] \ {Genesis} = {}
  BY TreeAssumption
<1>4. ValidBranch(Genesis) /\ UtxoOf(Genesis) = {}
  BY <1>3 DEF ValidBranch, UtxoOf, Created
<1>5. StoreTyped' /\ FilesFirst'
  BY <1>1 DEF StoreInv, StoreTyped, FilesFirst, Readable
<1>6. Session' /\ NothingCommitted'
  BY <1>1, <1>2, <1>3, <1>4 DEF StoreInv, Session, NothingCommitted, Rooted
<1> QED BY <1>5, <1>6 DEF StoreInv

\* A block on the tip: its file is opened.
LEMMA ReceiveStep ==
  ASSUME StoreInv, NEW b \in Arriving, ReceiveBlock(b)
  PROVE  StoreInv'
<1>1. /\ proc = "up" /\ proc' = "up" /\ UNCHANGED <<view, disk, inTx, repairs, best>>
      /\ OpenFile(b) /\ writing' = b /\ b \notin view.headers
      /\ Parent[b] = best /\ StatefulOK(b, view.utxo)
  BY DEF ReceiveBlock, OpenFile, tables
<1>2. b \in Given /\ b \in Block /\ repairs = {} /\ view \in Schema
  BY <1>1, StoreAssumption DEF Given, StoreInv, FilesFirst, StoreTyped
<1>3. StoreTyped'
  BY <1>1, <1>2, FileOpened DEF StoreInv, StoreTyped
<1>4. \A a \in view.bodies : Readable(a)'
  BY <1>1, <1>2, FileOpened DEF StoreInv, FilesFirst, Schema
<1>5. FilesFirst'
  BY <1>1, <1>2, <1>4 DEF StoreInv, FilesFirst
<1>6. Session' /\ NothingCommitted'
  BY <1>1 DEF StoreInv, Session, NothingCommitted, Rooted
<1> QED BY <1>3, <1>5, <1>6 DEF StoreInv

\* Its rows are added and it is connected: the utxo table becomes its ledger.
LEMMA StoredStep ==
  ASSUME StoreInv, NEW b \in Arriving, BlockStored(b)
  PROVE  StoreInv'
<1>1. /\ proc = "up" /\ proc' = "up" /\ UNCHANGED <<disk, repairs>> /\ best' = b
      /\ FileDone(b) /\ writing = b /\ writing' = NoFile /\ view' = Connected(view, b)
  BY DEF BlockStored, FileDone, Execute
<1>2. b \in Block /\ b # NoFile /\ b \in Given /\ repairs = {} /\ view \in Schema
  BY <1>1, StoreAssumption DEF Given, StoreInv, FilesFirst, StoreTyped
<1>3. /\ b \notin view.headers /\ Parent[b] = best /\ StatefulOK(b, view.utxo)
      /\ best \in view.headers /\ Rooted /\ Genesis \in view.headers
      /\ Anc[best] \ {Genesis} \subseteq view.bodies
      /\ ValidBranch(best) /\ view.utxo = UtxoOf(best)
      /\ view.bodies \subseteq Given /\ view.bodies \subseteq view.headers
  BY <1>1, <1>2 DEF StoreInv, StoreTyped, Session, FilesFirst
<1>4. b \in NonGenesis
  BY <1>2, <1>3 DEF NonGenesis
<1>5. Outs(b) \cap Created(Anc[best]) = {}
  <2>1. SUFFICES ASSUME NEW a \in Anc[best] \ {Genesis} PROVE Outs(b) \cap Outs(a) = {}
    BY DEF Created
  <2>2. a \in view.bodies /\ a # b /\ a \in Given /\ a \in Block
    BY <1>2, <1>3 DEF Schema
  <2>3. BlockTxs(b) \cap BlockTxs(a) = {}
    BY <1>2, <2>2, StoreAssumption DEF Given
  <2> QED BY <1>2, <2>2, <2>3, OutsDisjoint
<1>6. (view.utxo \ Ins(b)) \cup Outs(b) = UtxoOf(b) /\ ValidBranch(b)
  BY <1>3, <1>4, <1>5, LedgerExtends
<1>7. Outs(b) \subseteq Outpoint
  BY <1>2, BlockData
<1>8. /\ view' \in Schema /\ view'.headers = view.headers \cup {b}
      /\ view'.bodies = view.bodies \cup {b} /\ view'.utxo = (view.utxo \ Ins(b)) \cup Outs(b)
  BY <1>1, <1>2, <1>7 DEF Schema, Connected, WithBody
<1>9. StoreTyped'
  BY <1>1, <1>2, <1>3, <1>8, FileCompleted DEF StoreInv, StoreTyped
<1>10. \A a \in view'.bodies : Readable(a)'
  BY <1>1, <1>2, <1>8, FileCompleted DEF StoreInv, FilesFirst, Schema
<1>11. FilesFirst'
  BY <1>1, <1>2, <1>3, <1>8, <1>10 DEF FilesFirst
<1>12. Rooted'
  BY <1>3, <1>8 DEF Rooted
<1>13. Anc[b] \ {Genesis} \subseteq view'.bodies
  BY <1>3, <1>4, <1>8, BranchStep
<1>14. Session' /\ NothingCommitted'
  BY <1>1, <1>3, <1>6, <1>8, <1>12, <1>13 DEF StoreInv, Session, NothingCommitted
<1> QED BY <1>9, <1>11, <1>14 DEF StoreInv

\* Steps of the mempool and of the shutdown.
LEMMA QuietStep ==
  ASSUME StoreInv, UNCHANGED <<view, disk, inTx, raw, writing, repairs, best>>,
         \/ proc' = proc
         \/ writing = NoFile /\ repairs = {} /\ proc' \in {"copy", "tmp", "close"}
  PROVE  StoreInv'
<1>1. StoreTyped'
  BY DEF StoreInv, StoreTyped, Readable
<1>2. FilesFirst'
  BY DEF StoreInv, FilesFirst, Readable
<1>3. NothingCommitted'
  BY DEF StoreInv, NothingCommitted
<1>4. Session'
  BY DEF StoreInv, Session, Rooted
<1> QED BY <1>1, <1>2, <1>3, <1>4 DEF StoreInv

\* No step of a start-up, of service, of a stop or a crash breaks it.
LEMMA StoreStep ==
  ASSUME StoreInv, [StoreNext]_storeVars
  PROVE  StoreInv'
<1>1. proc \notin {"genesis", "checks", "up"} => writing = NoFile
  BY DEF StoreInv, FilesFirst
<1>2. proc # "checks" => repairs = {}
  BY DEF StoreInv, FilesFirst
<1>3. CASE OpenDatabase \/ LoadIndex \/ ImportAnchor \/ ImportGenesis \/ GenesisWritten \/ RestoreMempool
  BY <1>3, OpenStep, LoadStep, GenesisStep, RestoreStep
<1>4. CASE Refuse \/ Disconnect \/ Die
  BY <1>1, <1>2, <1>4, SessionEnded DEF Refuse, Disconnect, Die
<1>5. CASE \E b \in Block : LeaveRaw(b) \/ Rewrite(b) \/ Repaired(b)
  BY <1>5, RepairStep
<1>6. CASE \E b \in Arriving : ReceiveBlock(b) \/ BlockStored(b)
  BY <1>6, ReceiveStep, StoredStep
<1>7. CASE \E t \in PoolTx : ReceiveTx(t)
  BY <1>7, QuietStep DEF ReceiveTx, tables
<1>8. CASE BackUp \/ WriteTmp \/ ReplaceMain \/ SaveFails
  BY <1>1, <1>2, <1>8, QuietStep
     DEF BackUp, WriteTmp, ReplaceMain, SaveFails, tables, FlushFrame
<1>9. CASE UNCHANGED storeVars
  BY <1>9, QuietStep DEF storeVars, tables
<1> QED BY <1>3, <1>4, <1>5, <1>6, <1>7, <1>8, <1>9 DEF StoreNext, StartNext, ServeNext, StopNext

\* It holds before the first start.
LEMMA StoreInitially == StoreInit => StoreInv
<1> SUFFICES ASSUME StoreInit PROVE StoreInv
  OBVIOUS
<1>1. proc = "down" /\ view = Empty /\ disk = Empty /\ writing = NoFile /\ repairs = {}
      /\ raw = [b \in Block |-> NoFile]
  BY DEF StoreInit
<1>2. \A b \in Block : ~Readable(b)
  BY <1>1, StoreAssumption DEF Readable
<1> QED BY <1>1, <1>2, EmptyTables DEF StoreInv, StoreTyped, NothingCommitted, FilesFirst, Session

\* In every reachable state each block the tables name can be read back from
\* its file, and a session that serves has its tip on an index whose blocks
\* have parents and bodies, over exactly the ledger of that tip: through
\* crashes between any two steps, repairs and restarts (BlocksStore.write_block,
\* run_startup_consistency, on_block).
THEOREM StoreKept == StoreSpec => []StoreSound
<1>1. StoreInv => StoreSound
  <2> SUFFICES ASSUME StoreInv PROVE StoreSound
    OBVIOUS
  <2>1. RowsReadable
    BY EmptyTables DEF StoreInv, NothingCommitted, FilesFirst, RowsReadable
  <2>2. ServesConsistentIndex
    BY DEF StoreInv, FilesFirst, Session, Rooted, ServesConsistentIndex, IndexOK
  <2> QED BY <2>1, <2>2 DEF StoreSound
<1> QED BY <1>1, StoreInitially, StoreStep, PTL DEF StoreSpec

\* No session commits anything: the record of the migration opens a
\* transaction that Database.transaction takes for its caller's, so whatever a
\* session stores, the next one starts from empty tables (Database.execute,
\* Database.transaction).
THEOREM NothingReachesDisk == StoreSpec => [](disk = Empty)
<1>1. StoreInv => disk = Empty
  BY DEF StoreInv, NothingCommitted
<1> QED BY <1>1, StoreInitially, StoreStep, PTL DEF StoreSpec
-----------------------------------------------------------------------------
(* The mempool and its snapshot                                            *)

\* The lists that admission makes: each entry is funded by the table and the
\* entries before it.
FundedLists(utxo) ==
    {p \in Seq(PoolTx) : \A i \in 1..Len(p) : Funded(utxo, SubSeq(p, 1, i - 1), p[i])}

\* mempool.dat is what the last save wrote, or absent before the first one.
PoolInv ==
    /\ held \in Seq(PoolTx)
    /\ mainSnap = saved /\ saved \in Seq(PoolTx) \cup {NoFile}
    /\ bakSnap \in Seq(PoolTx) \cup {NoFile, Torn}
    /\ proc = "up" => held \in FundedLists(view.utxo)

\* Offering one more keeps a list funded.
LEMMA OfferedFunded ==
  ASSUME NEW utxo, NEW p \in FundedLists(utxo), NEW t \in PoolTx
  PROVE  Offered(utxo, p, t) \in FundedLists(utxo)
<1>1. p \in Seq(PoolTx) /\ \A i \in 1..Len(p) : Funded(utxo, SubSeq(p, 1, i - 1), p[i])
  BY DEF FundedLists
<1>2. CASE Offered(utxo, p, t) = p
  BY <1>2
<1>3. CASE Offered(utxo, p, t) # p
  <2> DEFINE q == Append(p, t)
  <2>1. Offered(utxo, p, t) = q /\ Funded(utxo, p, t)
    BY <1>3 DEF Offered
  <2>2. q \in Seq(PoolTx) /\ Len(q) = Len(p) + 1 /\ q[Len(p) + 1] = t
        /\ \A i \in 1..Len(p) : q[i] = p[i]
    BY <1>1
  <2>3. \A i \in 1..Len(p) + 1 : SubSeq(q, 1, i - 1) = SubSeq(p, 1, i - 1)
    BY <1>1, <2>2
  <2>4. SubSeq(p, 1, Len(p)) = p
    BY <1>1
  <2> HIDE DEF q
  <2>5. ASSUME NEW i \in 1..Len(q) PROVE Funded(utxo, SubSeq(q, 1, i - 1), q[i])
    <3>1. CASE i \in 1..Len(p)
      BY <1>1, <2>2, <2>3, <3>1
    <3>2. CASE i = Len(p) + 1
      <4>1. Len(p) \in Nat /\ i \in 1..Len(p) + 1 /\ i - 1 = Len(p)
        BY <1>1, <3>2
      <4>2. SubSeq(q, 1, i - 1) = p
        BY <2>3, <2>4, <4>1
      <4> QED BY <2>1, <2>2, <3>2, <4>2
    <3> QED BY <1>1, <2>2, <3>1, <3>2
  <2> QED BY <2>1, <2>2, <2>5 DEF FundedLists
<1> QED BY <1>2, <1>3

\* So does admitting a whole list.
LEMMA AdmittedFunded ==
  ASSUME NEW utxo, NEW gone, NEW txs \in Seq(PoolTx)
  PROVE  Admitted(utxo, gone, txs) \in FundedLists(utxo)
<1> DEFINE A == FundedLists(utxo)
           n == Len(txs)
           D == DOMAIN txs
           Op(a, t) == IF t \in gone THEN a ELSE Offered(utxo, a, t)
           Works(f) == f = [s \in SUBSET D |->
                              IF s = {} THEN <<>> ELSE Op(f[s \ {Max(s)}], txs[Max(s)])]
           g == [p \in A \X PoolTx |-> Op(p[1], p[2])]
<1>1. n \in Nat /\ D = 1..n /\ txs \in [1..n -> PoolTx]
  BY LenProperties
<1>2. <<>> \in A
  BY DEF FundedLists
<1>3. Admitted(utxo, gone, txs) = (CHOOSE f : Works(f))[D]
  BY DEF Admitted, FoldLeft, MapThenFoldSet
<1> HIDE DEF A, n, D
<1>4. \A a \in A, t \in PoolTx : Op(a, t) \in A
  BY OfferedFunded DEF A
<1> HIDE DEF Op
<1>5. g \in [A \X PoolTx -> A] /\ \A a \in A, t \in PoolTx : g[<<a, t>>] = Op(a, t)
  BY <1>4
<1> HIDE DEF g
<1>6. PICK f \in [SUBSET (1..n) -> A] :
         f = [s \in SUBSET (1..n) |->
                 IF s = {} THEN <<>> ELSE g[<<f[s \ {Max(s)}], txs[Max(s)]>>]]
  <2> DEFINE none == <<>>
  <2>1. none \in A /\ g \in [A \X PoolTx -> A]
    BY <1>2, <1>5
  <2>2. n \in Nat /\ txs \in [1..n -> PoolTx]
    BY <1>1
  <2> HIDE DEF none
  <2>3. \E f : WorksOff(f, n, txs, A, g, none)
    BY <2>1, <2>2, WorkOff
  <2> QED BY <2>3 DEF none, WorksOff
<1>7. \A s \in SUBSET D : s # {} => s \ {Max(s)} \in SUBSET D /\ txs[Max(s)] \in PoolTx
  BY <1>1, LastPlace
<1>8. Works(f)
  <2>1. \A s \in SUBSET D : s # {} => g[<<f[s \ {Max(s)}], txs[Max(s)]>>] = Op(f[s \ {Max(s)}], txs[Max(s)])
    BY <1>1, <1>5, <1>6, <1>7
  <2> QED BY <1>1, <1>6, <2>1
<1> DEFINE e == CHOOSE h : Works(h)
<1>9. Works(e)
  <2> HIDE DEF Works
  <2> QED BY <1>8
<1> HIDE DEF e
<1>10. e[{}] \in A
  BY <1>2, <1>9
<1>11. ASSUME NEW s \in SUBSET D, s # {}, e[s \ {Max(s)}] \in A
       PROVE  e[s] = g[<<e[s \ {Max(s)}], txs[Max(s)]>>]
  BY <1>5, <1>7, <1>9, <1>11
<1>12. e[D] \in A
  <2>1. Follows(e, n, txs, A, g)
    BY <1>1, <1>10, <1>11 DEF Follows
  <2>2. n \in Nat /\ txs \in [1..n -> PoolTx] /\ g \in [A \X PoolTx -> A]
    BY <1>1, <1>5
  <2>3. e[1..n] \in A
    BY <2>1, <2>2, EndsIn
  <2> QED BY <1>1, <2>3
<1> QED BY <1>3, <1>12 DEF e, A

\* Each step of the node, for the pool and the snapshot.
LEMMA PoolStep ==
  ASSUME PoolInv, [StoreNext]_storeVars
  PROVE  PoolInv'
<1>1. /\ held \in Seq(PoolTx) /\ mainSnap = saved /\ saved \in Seq(PoolTx) \cup {NoFile}
      /\ bakSnap \in Seq(PoolTx) \cup {NoFile, Torn}
      /\ proc = "up" => held \in FundedLists(view.utxo)
  BY DEF PoolInv
<1>2. ASSUME UNCHANGED <<mainSnap, bakSnap, saved>>, held' \in {<<>>, held}, proc' # "up" PROVE PoolInv'
  <2>1. held' \in Seq(PoolTx)
    <3>1. held' = <<>> \/ held' = held
      BY <1>2
    <3>2. <<>> \in Seq(PoolTx)
      OBVIOUS
    <3> QED BY <1>1, <3>1, <3>2
  <2> QED BY <1>1, <1>2, <2>1 DEF PoolInv
<1>3. CASE OpenDatabase \/ LoadIndex \/ ImportAnchor \/ ImportGenesis \/ GenesisWritten \/ Refuse
           \/ Disconnect \/ Die \/ SaveFails
  BY <1>2, <1>3 DEF OpenDatabase, LoadIndex, ImportAnchor, ImportGenesis, GenesisWritten, Refuse,
     Disconnect, Die, SaveFails, snapVars, FlushFrame
<1>4. CASE \E b \in Block : LeaveRaw(b) \/ Rewrite(b) \/ Repaired(b)
  BY <1>2, <1>4 DEF LeaveRaw, Rewrite, Repaired, snapVars
<1>5. ASSUME RestoreMempool PROVE PoolInv'
  <2>1. held' = Restored /\ UNCHANGED <<view, mainSnap, bakSnap, saved>>
    BY <1>5 DEF RestoreMempool, snapVars, tables
  <2>2. Whole(LoadSnapshot) => LoadSnapshot \in Seq(PoolTx)
    BY <1>1 DEF Whole, LoadSnapshot
  <2>3. <<>> \in FundedLists(view.utxo)
    BY DEF FundedLists
  <2>4. Restored \in FundedLists(view.utxo)
    BY <2>2, <2>3, AdmittedFunded DEF Restored
  <2>5. held' \in FundedLists(view'.utxo) /\ held' \in Seq(PoolTx)
    BY <2>1, <2>4 DEF FundedLists
  <2> QED BY <1>1, <2>1, <2>5 DEF PoolInv
<1>6. ASSUME NEW b \in Arriving, ReceiveBlock(b) PROVE PoolInv'
  BY <1>1, <1>6 DEF ReceiveBlock, OpenFile, tables, snapVars, PoolInv
<1>7. ASSUME NEW b \in Arriving, BlockStored(b) PROVE PoolInv'
  <2>1. held' = Admitted(view'.utxo, BlockTxs(b), held) /\ UNCHANGED <<mainSnap, bakSnap, saved>>
    BY <1>7 DEF BlockStored, snapVars
  <2>2. held' \in FundedLists(view'.utxo)
    BY <1>1, <2>1, AdmittedFunded
  <2>3. held' \in Seq(PoolTx)
    BY <2>2 DEF FundedLists
  <2> QED BY <1>1, <2>1, <2>2, <2>3 DEF PoolInv
<1>8. ASSUME NEW t \in PoolTx, ReceiveTx(t) PROVE PoolInv'
  <2>1. proc = "up" /\ held' = Offered(view.utxo, held, t) /\ UNCHANGED <<view, mainSnap, bakSnap, saved>>
    BY <1>8 DEF ReceiveTx, tables, snapVars
  <2>2. held' \in FundedLists(view'.utxo)
    BY <1>1, <2>1, OfferedFunded
  <2>3. held' \in Seq(PoolTx)
    BY <2>2 DEF FundedLists
  <2> QED BY <1>1, <2>1, <2>2, <2>3 DEF PoolInv
<1>9. CASE BackUp \/ WriteTmp
  BY <1>1, <1>9 DEF BackUp, WriteTmp, FlushFrame, PoolInv
<1>10. CASE ReplaceMain
  BY <1>1, <1>10 DEF ReplaceMain, FlushFrame, PoolInv
<1>11. CASE UNCHANGED storeVars
  BY <1>1, <1>11 DEF storeVars, tables, snapVars, PoolInv
<1> QED BY <1>3, <1>4, <1>5, <1>6, <1>7, <1>8, <1>9, <1>10, <1>11
        DEF StoreNext, StartNext, ServeNext, StopNext

\* Once a save has completed, every later start reads the newest complete
\* snapshot, wherever a later save is cut off, and in every session each entry
\* of the pool is funded by the session's chain and the entries before it, also
\* when the snapshot was taken on a chain that the restart lost
\* (_write_snapshot, load_snapshot, _restore_mempool_from_disk).
THEOREM PoolKept == StoreSpec => []MempoolSurvives
<1>1. StoreInit => PoolInv
  BY DEF StoreInit, PoolInv
<1>2. PoolInv => MempoolSurvives
  <2> SUFFICES ASSUME PoolInv PROVE MempoolSurvives
    OBVIOUS
  <2>1. SnapshotSurvives
    BY StoreAssumption DEF PoolInv, SnapshotSurvives, LoadSnapshot, Whole
  <2>2. PoolFunded
    BY DEF PoolInv, PoolFunded, FundedLists
  <2> QED BY <2>1, <2>2 DEF MempoolSurvives
<1> QED BY <1>1, <1>2, PoolStep, PTL DEF StoreSpec
-----------------------------------------------------------------------------
(* The miner                                                               *)

\* A mining task that a step of the loop can still carry on.
Alive(l) == l.pc # "ended" /\ ~l.cancelled

\* The task list as a sequence of records, each with a whole candidate.
LoopShape ==
    /\ loops \in Seq(Range(loops))
    /\ \A i \in DOMAIN loops :
          /\ loops[i] = [pc |-> loops[i].pc, cancelled |-> loops[i].cancelled,
                         cand |-> loops[i].cand]
          /\ loops[i].cand = [prev |-> loops[i].cand.prev, block |-> loops[i].cand.block,
                              order |-> loops[i].cand.order,
                              approved |-> loops[i].cand.approved]
          /\ loops[i].cancelled \in BOOLEAN

\* Only the task made last can be alive, and it is exactly while is_mining is
\* set; a candidate that is searched for or found was approved.
MinerInv ==
    /\ LoopShape
    /\ isMining \in BOOLEAN
    /\ \A i \in DOMAIN loops : Alive(loops[i]) <=> (isMining /\ i = Len(loops))
    /\ isMining => loops # <<>>
    /\ \A i \in DOMAIN loops : loops[i].pc \in {"search", "found"} => loops[i].cand.approved

\* It holds before the first task.
LEMMA MinerInitial == MinerInit => MinerInv
<1> SUFFICES ASSUME MinerInit PROVE MinerInv
  OBVIOUS
<1>1. loops = <<>> /\ isMining = FALSE
  BY DEF MinerInit
<1>2. loops \in Seq(Range(loops)) /\ DOMAIN loops = {}
  BY <1>1
<1> QED BY <1>1, <1>2 DEF MinerInv, LoopShape

\* One task changes, keeping its shape.
LEMMA OneTask ==
  ASSUME MinerInv, NEW i \in DOMAIN loops, NEW pc, NEW cancelled \in BOOLEAN,
         NEW prev, NEW block, NEW order, NEW approved, NEW flag \in BOOLEAN,
         loops' = [loops EXCEPT ![i] = [pc |-> pc, cancelled |-> cancelled,
             cand |-> [prev |-> prev, block |-> block, order |-> order, approved |-> approved]]],
         isMining' = flag,
         (pc # "ended" /\ ~cancelled) <=> (flag /\ i = Len(loops)),
         i # Len(loops) => flag = isMining,
         pc \in {"search", "found"} => approved
  PROVE  MinerInv'
<1> DEFINE new == [pc |-> pc, cancelled |-> cancelled,
             cand |-> [prev |-> prev, block |-> block, order |-> order, approved |-> approved]]
<1>1. /\ loops \in Seq(Range(loops)) /\ Len(loops) \in Nat /\ DOMAIN loops = 1..Len(loops)
  BY DEF MinerInv, LoopShape
<1>2. /\ DOMAIN loops' = DOMAIN loops
      /\ loops'[i] = new
      /\ \A j \in DOMAIN loops : j # i => loops'[j] = loops[j]
  BY DEF LoopShape
<1>3. loops' \in Seq(Range(loops')) /\ Len(loops') = Len(loops)
  <2>1. \A j \in 1..Len(loops) : loops'[j] \in Range(loops')
    BY <1>1, <1>2 DEF Range
  <2>2. loops' = [j \in 1..Len(loops) |-> loops'[j]]
    BY <1>1, <1>2
  <2>3. loops' \in [1..Len(loops) -> Range(loops')]
    BY <2>1, <2>2
  <2> HIDE DEF new
  <2>4. \A S : \A n \in Nat : [1..n -> S] \subseteq Seq(S)
    BY SeqDef
  <2>5. loops' \in Seq(Range(loops'))
    BY <1>1, <2>3, <2>4
  <2>6. Len(loops') \in Nat /\ DOMAIN loops' = 1..Len(loops')
    BY <2>5, LenProperties
  <2> QED BY <1>1, <1>2, <2>5, <2>6
<1>4. LoopShape'
  BY <1>1, <1>2, <1>3 DEF MinerInv, LoopShape
<1>5. \A j \in DOMAIN loops' : Alive(loops'[j]) <=> (isMining' /\ j = Len(loops'))
  BY <1>1, <1>2, <1>3 DEF MinerInv, LoopShape, Alive
<1>6. \A j \in DOMAIN loops' : loops'[j].pc \in {"search", "found"} => loops'[j].cand.approved
  BY <1>1, <1>2 DEF MinerInv
<1>7. loops' # <<>>
  BY <1>1, <1>2, <1>3
<1> QED BY <1>4, <1>5, <1>6, <1>7 DEF MinerInv

\* A step that leaves the tasks and the flag alone.
LEMMA TasksAlone ==
  ASSUME MinerInv, loops' = loops, isMining' = isMining
  PROVE  MinerInv'
BY DEF MinerInv, LoopShape, Alive

\* The candidate that is none, as a record.
LEMMA NoCandidateShape ==
  NoCandidate = [prev |-> NoCandidate.prev, block |-> NoCandidate.block,
                 order |-> NoCandidate.order, approved |-> NoCandidate.approved]
BY DEF NoCandidate

\* setgenerate true: a task is added to a list in which none is alive.
LEMMA StartStep ==
  ASSUME MinerInv, SetGenerateOn
  PROVE  MinerInv'
<1>1. CASE UNCHANGED <<isMining, loops>>
  BY <1>1, TasksAlone
<1>2. CASE ~UNCHANGED <<isMining, loops>>
  <2> DEFINE new == [pc |-> "top", cancelled |-> FALSE, cand |-> NoCandidate]
             n == Len(loops)
  <2>1. ~isMining /\ isMining' = TRUE /\ loops' = Append(loops, new)
    BY <1>2 DEF SetGenerateOn, Started
  <2>2. loops \in Seq(Range(loops)) /\ n \in Nat /\ DOMAIN loops = 1..n
    BY DEF MinerInv, LoopShape
  <2>3. loops \in Seq(Range(loops) \cup {new})
    BY <2>2
  <2>4. /\ loops' \in Seq(Range(loops) \cup {new})
        /\ Len(loops') = n + 1 /\ DOMAIN loops' = 1..(n + 1)
        /\ loops'[n + 1] = new /\ \A j \in 1..n : loops'[j] = loops[j]
    <3> HIDE DEF new
    <3> QED BY <2>1, <2>2, <2>3
  <2>5. loops' \in Seq(Range(loops'))
    <3>1. loops' \in [1..(n + 1) -> Range(loops')]
      BY <2>4 DEF Range
    <3>2. \A S : \A k \in Nat : [1..k -> S] \subseteq Seq(S)
      BY SeqDef
    <3> HIDE DEF n
    <3> QED BY <2>2, <3>1, <3>2
  <2>6. LoopShape'
    <3> SUFFICES ASSUME NEW j \in 1..(n + 1)
                 PROVE  (LoopShape!2!(j))'
      BY <2>4, <2>5 DEF LoopShape
    <3>1. CASE j = n + 1
      <4>1. loops'[j] = new
        BY <2>4, <3>1
      <4> HIDE DEF new
      <4>2. /\ new = [pc |-> new.pc, cancelled |-> new.cancelled, cand |-> new.cand]
            /\ new.cand = NoCandidate /\ new.cancelled \in BOOLEAN
        BY DEF new
      <4> QED BY <4>1, <4>2, NoCandidateShape, Zenon
    <3>2. CASE j \in 1..n
      BY <2>2, <2>4, <3>2 DEF MinerInv, LoopShape
    <3> QED BY <2>2, <3>1, <3>2
  <2>7. \A j \in DOMAIN loops' : Alive(loops'[j]) <=> (isMining' /\ j = Len(loops'))
    BY <2>1, <2>2, <2>4 DEF MinerInv, Alive
  <2>8. \A j \in DOMAIN loops' : loops'[j].pc \in {"search", "found"} => loops'[j].cand.approved
    BY <2>2, <2>4 DEF MinerInv
  <2>9. loops' # <<>>
    BY <2>2, <2>4
  <2> QED BY <2>1, <2>6, <2>7, <2>8, <2>9 DEF MinerInv
<1> QED BY <1>1, <1>2

\* A step of the loop takes task i to another place.
LEMMA TaskResumes ==
  ASSUME MinerInv, NEW i \in DOMAIN loops, NEW pc, NEW cand, NEW flag \in BOOLEAN,
         loops' = Resumed(i, pc, cand), isMining' = flag,
         cand = [prev |-> cand.prev, block |-> cand.block, order |-> cand.order,
                 approved |-> cand.approved],
         (pc # "ended" /\ ~loops[i].cancelled) <=> (flag /\ i = Len(loops)),
         i # Len(loops) => flag = isMining,
         pc \in {"search", "found"} => cand.approved
  PROVE  MinerInv'
<1>1. loops[i].cancelled \in BOOLEAN
  BY DEF MinerInv, LoopShape
<1>2. PICK prev, block, order, approved :
        /\ cand = [prev |-> prev, block |-> block, order |-> order, approved |-> approved]
        /\ approved = cand.approved
  OBVIOUS
<1>3. loops' = [loops EXCEPT ![i] = [pc |-> pc, cancelled |-> loops[i].cancelled,
         cand |-> [prev |-> prev, block |-> block, order |-> order, approved |-> approved]]]
  BY <1>2 DEF Resumed
<1> QED BY <1>1, <1>2, <1>3, OneTask

\* A step of a mining task.
LEMMA LoopPreserves ==
  ASSUME MinerInv, NEW i \in DOMAIN loops, LoopStep(i)
  PROVE  MinerInv'
<1>1. /\ isMining \in BOOLEAN /\ loops[i].cancelled \in BOOLEAN
      /\ (loops[i].pc # "ended" /\ ~loops[i].cancelled) <=> (isMining /\ i = Len(loops))
      /\ loops[i].pc \in {"search", "found"} => loops[i].cand.approved
      /\ loops[i].cand = [prev |-> loops[i].cand.prev, block |-> loops[i].cand.block,
                          order |-> loops[i].cand.order, approved |-> loops[i].cand.approved]
  BY DEF MinerInv, LoopShape, Alive
<1>2. CASE Cancelled(i)
  BY <1>1, <1>2, TaskResumes, NoCandidateShape DEF Cancelled, Ended
<1>3. CASE LoopTop(i)
  <2>1. CASE ~isMining
    <3>1. loops' = Ended(i) /\ isMining' = isMining
      BY <1>3, <2>1 DEF LoopTop
    <3> QED BY <1>1, <2>1, <3>1, TaskResumes, NoCandidateShape DEF Ended
  <2>2. CASE isMining /\ ~_guard_allows_current_address
    <3>1. loops' = Ended(i) /\ isMining' = FALSE /\ loops[i].pc = "top" /\ ~loops[i].cancelled
      BY <1>3, <2>2 DEF LoopTop, Ends
    <3> QED BY <1>1, <2>2, <3>1, TaskResumes, NoCandidateShape DEF Ended
  <2>3. CASE isMining /\ _guard_allows_current_address
    <3>1. /\ loops[i].pc = "top" /\ ~loops[i].cancelled /\ isMining' = isMining
          /\ \E cand \in _create_candidates("hex") : Search(i, cand)
      BY <1>3, <2>3 DEF LoopTop
    <3>2. PICK cand \in _create_candidates("hex") : Search(i, cand)
      BY <3>1
    <3>3. /\ cand = [prev |-> cand.prev, block |-> cand.block, order |-> cand.order,
                     approved |-> cand.approved]
          /\ cand.approved
      BY <2>3, <3>2 DEF _create_candidates
    <3>4. CASE Serialisable(cand)
      BY <1>1, <2>3, <3>1, <3>2, <3>3, <3>4, TaskResumes DEF Search
    <3>5. CASE ~Serialisable(cand)
      BY <1>1, <2>3, <3>1, <3>2, <3>5, TaskResumes, NoCandidateShape DEF Search
    <3> QED BY <3>4, <3>5
  <2> QED BY <1>1, <2>1, <2>2, <2>3
<1>4. CASE Exhausted(i)
  <2> DEFINE old == loops[i].cand
             cand == [prev |-> old.prev, order |-> old.order,
                      approved |-> _guard_allows_current_address,
                      block |-> [old.block EXCEPT !.to = miningAddress]]
  <2>1. loops[i].pc = "search" /\ ~loops[i].cancelled
    BY <1>4 DEF Exhausted
  <2>2. CASE ~_guard_allows_current_address
    <3>1. loops' = Ended(i) /\ isMining' = FALSE
      BY <1>4, <2>2 DEF Exhausted, Ends
    <3> QED BY <1>1, <2>1, <3>1, TaskResumes, NoCandidateShape DEF Ended
  <2>3. CASE _guard_allows_current_address /\ chain # old.prev
    <3>1. loops' = Resumed(i, "top", NoCandidate) /\ isMining' = isMining
      BY <1>4, <2>3 DEF Exhausted
    <3> QED BY <1>1, <2>1, <3>1, TaskResumes, NoCandidateShape
  <2>4. CASE _guard_allows_current_address /\ chain = old.prev
    <3>1. Search(i, cand) /\ isMining' = isMining
      BY <1>4, <2>4 DEF Exhausted
    <3>2. /\ cand = [prev |-> cand.prev, block |-> cand.block, order |-> cand.order,
                     approved |-> cand.approved]
          /\ cand.approved
      BY <2>4
    <3> HIDE DEF cand
    <3>4. CASE Serialisable(cand)
      BY <1>1, <2>1, <3>1, <3>2, <3>4, TaskResumes DEF Search
    <3>5. CASE ~Serialisable(cand)
      BY <1>1, <2>1, <3>1, <3>5, TaskResumes, NoCandidateShape DEF Search
    <3> QED BY <3>4, <3>5
  <2> QED BY <2>2, <2>3, <2>4
<1>5. CASE Found(i)
  BY <1>1, <1>5, TaskResumes DEF Found, Goto
<1>6. CASE _submit_block(i)
  <2>1. PICK pc \in {"sleep", "broadcast"} :
          /\ loops' = Goto(i, pc) /\ isMining' = isMining
          /\ loops[i].pc = "found" /\ ~loops[i].cancelled
    BY <1>6 DEF _submit_block
  <2> QED BY <1>1, <2>1, TaskResumes DEF Goto
<1>7. CASE Paced(i)
  <2>1. PICK pc \in {"sleep", "top"} :
          /\ loops' = Resumed(i, pc, NoCandidate) /\ isMining' = isMining
          /\ loops[i].pc \in {"sleep", "broadcast"} /\ ~loops[i].cancelled
    BY <1>7 DEF Paced
  <2> QED BY <1>1, <2>1, TaskResumes, NoCandidateShape
<1> QED BY <1>2, <1>3, <1>4, <1>5, <1>6, <1>7 DEF LoopStep

\* setgenerate false cancels the task made last.
LEMMA StopStep ==
  ASSUME MinerInv, SetGenerateOff
  PROVE  MinerInv'
<1> DEFINE n == Len(loops)
<1>1. n \in DOMAIN loops
  BY DEF MinerInv, LoopShape, SetGenerateOff
<1>2. /\ isMining /\ isMining' = FALSE
      /\ loops' = [loops EXCEPT ![n] = [pc |-> loops[n].pc, cancelled |-> TRUE,
                                        cand |-> loops[n].cand]]
  BY DEF SetGenerateOff
<1>3. /\ loops[n].pc \in {"search", "found"} => loops[n].cand.approved
      /\ loops[n].cand = [prev |-> loops[n].cand.prev, block |-> loops[n].cand.block,
                          order |-> loops[n].cand.order, approved |-> loops[n].cand.approved]
  BY <1>1 DEF MinerInv, LoopShape
<1> HIDE DEF n
<1>4. loops' = [loops EXCEPT ![n] = [pc |-> loops[n].pc, cancelled |-> TRUE,
                  cand |-> [prev |-> loops[n].cand.prev, block |-> loops[n].cand.block,
                            order |-> loops[n].cand.order, approved |-> loops[n].cand.approved]]]
  BY <1>2, <1>3
<1>5. PICK gone \in BOOLEAN, flag \in BOOLEAN : gone = TRUE /\ flag = FALSE
  OBVIOUS
<1>6. n = Len(loops)
  BY DEF n
<1>7. PICK pc, prev, block, order, approved :
        /\ loops' = [loops EXCEPT ![n] = [pc |-> pc, cancelled |-> gone,
             cand |-> [prev |-> prev, block |-> block, order |-> order, approved |-> approved]]]
        /\ pc \in {"search", "found"} => approved
  BY <1>3, <1>4, <1>5
<1>8. isMining' = flag
  BY <1>2, <1>5
<1> QED BY <1>1, <1>5, <1>6, <1>7, <1>8, OneTask

\* No step of the miner, of the RPC handlers or of peers breaks it.
LEMMA MinerPreserves == MinerInv /\ [MinerNext]_minerVars => MinerInv'
<1> SUFFICES ASSUME MinerInv, [MinerNext]_minerVars PROVE MinerInv'
  OBVIOUS
<1>1. CASE SetGenerateOn
  BY <1>1, StartStep
<1>2. CASE LoopNext
  BY <1>2, LoopPreserves DEF LoopNext
<1>3. CASE SetGenerateOff
  BY <1>3, StopStep
<1>4. CASE loops' = loops /\ isMining' = isMining
  BY <1>4, TasksAlone
<1>5. CASE ControlNext /\ ~SetGenerateOff
  <2>1. loops' = loops /\ isMining' = isMining
    BY <1>5 DEF ControlNext, GenerateFound, StopReturns, set_mining_address, Generate, ActivateWallet
  <2> QED BY <1>4, <2>1
<1>6. CASE WorkNext
  <2>1. loops' = loops /\ isMining' = isMining
    BY <1>6 DEF WorkNext, GetTemplate, submit_block, PeerReorg, Arrive, PeerBlock
  <2> QED BY <1>4, <2>1
<1>7. CASE UNCHANGED minerVars
  BY <1>4, <1>7 DEF minerVars
<1> QED BY <1>1, <1>2, <1>3, <1>5, <1>6, <1>7 DEF MinerNext

\* It says what a steered miner is.
LEMMA MinerInvSteered == MinerInv => MinerSteered
<1> SUFFICES ASSUME MinerInv PROVE MinerSteered
  OBVIOUS
<1>1. loops \in Seq(Range(loops)) /\ Len(loops) \in Nat /\ DOMAIN loops = 1..Len(loops)
  BY DEF MinerInv, LoopShape
<1>2. CASE isMining
  <2>1. Len(loops) \in DOMAIN loops
    BY <1>1, <1>2 DEF MinerInv
  <2>2. {j \in DOMAIN loops : loops[j].pc # "ended" /\ ~loops[j].cancelled} = {Len(loops)}
    BY <1>2, <2>1 DEF MinerInv, Alive
  <2> QED BY <1>2, <2>1, <2>2 DEF MinerInv, MinerSteered, OneLoop, RewardApproved
<1>3. CASE ~isMining
  BY <1>3 DEF MinerInv, MinerSteered, OneLoop, RewardApproved, Alive
<1> QED BY <1>2, <1>3

\* MinerSteered, however many calls start, stop and re-address the miner, however
\* many tasks there are, and whatever the chain, the pool and the guard do.
THEOREM MinerObeys == MinerSpec => []MinerSteered
<1>1. MinerSpec => []MinerInv
  BY MinerInitial, MinerPreserves, PTL DEF MinerSpec
<1> QED BY <1>1, MinerInvSteered, PTL

-----------------------------------------------------------------------------
(* Indexes                                                                   *)

\* The transactions of some blocks, the outputs that some transactions make and
\* those that they use.
TxsIn(S) == UNION {BlockTxs(b) : b \in S \ {Genesis}}
Made(X) == UNION {TxOut[t] : t \in X}
Used(X) == UNION {TxIn[t] : t \in X}

\* No output is used twice.
UsedOnce(X) == \A t, u \in X : t # u => TxIn[t] \cap TxIn[u] = {}

\* Blocks, transactions and outputs are what they should be.
LEMMA Contents ==
  /\ \A b \in Block : Anc[b] \subseteq Block /\ IsFiniteSet(Anc[b]) /\ BlockTxs(b) \subseteq Tx
  /\ \A S \in SUBSET Block : TxsIn(S) \subseteq Tx
  /\ \A X \in SUBSET Tx : Made(X) \subseteq Outpoint /\ Used(X) \subseteq Outpoint
  /\ \A t, u \in Tx : t # u => TxOut[t] \cap TxOut[u] = {}
  /\ \A t \in Tx : TxIn[t] \subseteq Outpoint /\ TxOut[t] \subseteq Outpoint
<1>1. ASSUME NEW b \in Block
      PROVE  Anc[b] \subseteq Block /\ IsFiniteSet(Anc[b]) /\ BlockTxs(b) \subseteq Tx
  <2>1. Anc[b] \in SUBSET Block /\ IsFiniteSet(Block)
    BY TreeAssumption, IndexAssumption DEF TreeAssumption, IndexAssumption
  <2> QED BY <2>1, FS_Subset, BlockData
<1>2. ASSUME NEW S \in SUBSET Block PROVE TxsIn(S) \subseteq Tx
  BY <1>1 DEF TxsIn
<1>3. /\ \A t, u \in Tx : t # u => TxOut[t] \cap TxOut[u] = {}
      /\ \A t \in Tx : TxIn[t] \subseteq Outpoint /\ TxOut[t] \subseteq Outpoint
  BY DataAssumption DEF DataAssumption
<1> QED BY <1>1, <1>2, <1>3 DEF Made, Used

\* An ancestor has a shorter branch.
LEMMA AncestorShorter ==
  ASSUME NEW y \in Block, NEW x \in Anc[y], x # y
  PROVE  /\ y \in NonGenesis /\ x \in Anc[Parent[y]] /\ Parent[y] \in Block
         /\ Cardinality(Anc[x]) < Cardinality(Anc[y])
         /\ Cardinality(Anc[x]) \in Nat /\ Cardinality(Anc[y]) \in Nat
<1>1. y \in NonGenesis
  BY TreeAssumption DEF TreeAssumption, NonGenesis
<1>2. x \in Anc[Parent[y]] /\ Parent[y] \in Block /\ y \notin Anc[Parent[y]] /\ y \in Anc[y]
  BY <1>1, BranchStep
<1>3. Anc[x] \subseteq Anc[Parent[y]] /\ Anc[x] \subseteq Anc[y]
  BY <1>2, TreeAssumption DEF TreeAssumption
<1>4. IsFiniteSet(Anc[y]) /\ Anc[x] # Anc[y]
  BY <1>2, <1>3, Contents
<1> QED BY <1>1, <1>2, <1>3, <1>4, FiniteParts

\* Of two blocks of a branch, one is an ancestor of the other.
LEMMA Linear ==
  \A b \in Block : \A x, y \in Anc[b] : x \in Anc[y] \/ y \in Anc[x]
<1> DEFINE B == {b \in Block : ~\A x, y \in Anc[b] : x \in Anc[y] \/ y \in Anc[x]}
           N == {Cardinality(Anc[b]) : b \in B}
<1> SUFFICES ASSUME B # {} PROVE FALSE
  OBVIOUS
<1>1. N \in SUBSET Nat /\ N # {}
  BY Contents, FS_CardinalityType
<1>2. PICK b \in B : \A c \in B : ~(Cardinality(Anc[c]) < Cardinality(Anc[b]))
  <2>1. PICK n \in N : \A m \in N : ~(m < n)
    BY <1>1, SmallestNumber
  <2> QED BY <2>1
<1>3. PICK x \in Anc[b], y \in Anc[b] : x \notin Anc[y] /\ y \notin Anc[x]
  BY <1>2
<1>4. b \in Block /\ x # b /\ y # b
  BY <1>2, <1>3
<1>5. x \in Anc[Parent[b]] /\ y \in Anc[Parent[b]] /\ Parent[b] \in Block /\ Parent[b] \in Anc[b]
      /\ Parent[b] # b
  BY <1>3, <1>4, AncestorShorter, BranchStep, OnOwnBranch
<1>6. Cardinality(Anc[Parent[b]]) < Cardinality(Anc[b])
  BY <1>4, <1>5, AncestorShorter
<1> QED BY <1>2, <1>3, <1>5, <1>6

\* Two blocks of a branch are at different heights.
LEMMA HeightsDiffer ==
  ASSUME NEW b \in Block, NEW x \in Anc[b], NEW y \in Anc[b],
         Cardinality(Anc[x]) = Cardinality(Anc[y])
  PROVE  x = y
<1>1. x \in Block /\ y \in Block /\ (x \in Anc[y] \/ y \in Anc[x])
  BY Linear, Contents
<1> QED BY <1>1, AncestorShorter

\* The ledger in terms of transactions.
LEMMA LedgerOf ==
  ASSUME NEW S
  PROVE  Created(S) = Made(TxsIn(S)) /\ Spent(S) = Used(TxsIn(S))
  BY DEF Created, Spent, Made, Used, TxsIn, Outs, Ins

\* What a transaction of a valid branch uses was made below its block, and was
\* not used below it.
LEMMA InputsBelow ==
  ASSUME NEW b \in Block, ValidBranch(b), NEW x \in Anc[b] \ {Genesis}, NEW t \in BlockTxs(x)
  PROVE  /\ TxIn[t] \subseteq Made(TxsIn(Anc[Parent[x]]))
         /\ TxIn[t] \cap Used(TxsIn(Anc[Parent[x]])) = {}
<1>1. TxIn[t] \subseteq UtxoOf(Parent[x])
  BY DEF ValidBranch, StatefulOK, Ins
<1> QED BY <1>1, LedgerOf DEF UtxoOf

\* So nothing is used twice on a valid branch, and all that is used was made.
LEMMA BranchSound ==
  ASSUME NEW b \in Block, ValidBranch(b)
  PROVE  UsedOnce(TxsIn(Anc[b])) /\ Used(TxsIn(Anc[b])) \subseteq Made(TxsIn(Anc[b]))
<1>1. ASSUME NEW x \in Anc[b] \ {Genesis}, NEW y \in Anc[b] \ {Genesis}, x # y, x \in Anc[y],
             NEW t \in BlockTxs(x), NEW u \in BlockTxs(y)
      PROVE  TxIn[t] \cap TxIn[u] = {}
  <2>1. x \in Anc[Parent[y]]
    BY <1>1, AncestorShorter, Contents
  <2>2. t \in TxsIn(Anc[Parent[y]])
    BY <2>1 DEF TxsIn
  <2> QED BY <2>2, InputsBelow DEF Used
<1>2. ASSUME NEW t \in TxsIn(Anc[b]), NEW u \in TxsIn(Anc[b]), t # u
      PROVE  TxIn[t] \cap TxIn[u] = {}
  <2>1. PICK x \in Anc[b] \ {Genesis}, y \in Anc[b] \ {Genesis} : t \in BlockTxs(x) /\ u \in BlockTxs(y)
    BY DEF TxsIn
  <2>2. CASE x = y
    <3>1. DupFree(x)
      BY <2>1 DEF ValidBranch, StatefulOK
    <3>2. PICK i \in 1..Len(TxSeq[x]), j \in 1..Len(TxSeq[x]) : t = TxSeq[x][i] /\ u = TxSeq[x][j]
      BY <2>1, <2>2 DEF BlockTxs
    <3> QED BY <1>2, <3>1, <3>2 DEF DupFree
  <2>3. CASE x # y
    <3>1. x \in Anc[y] \/ y \in Anc[x]
      BY <2>1, Linear
    <3>2. CASE x \in Anc[y]
      BY <1>1, <2>1, <2>3, <3>2
    <3>3. CASE y \in Anc[x]
      <4>1. TxIn[u] \cap TxIn[t] = {}
        BY <1>1, <2>1, <2>3, <3>3
      <4> QED BY <4>1
    <3> QED BY <3>1, <3>2, <3>3
  <2> QED BY <2>2, <2>3
<1>3. Used(TxsIn(Anc[b])) \subseteq Made(TxsIn(Anc[b]))
  BY SpentWasCreated, LedgerOf
<1> QED BY <1>2, <1>3 DEF UsedOnce

-----------------------------------------------------------------------------
\* A transaction is indexed, one after the other in a block.
IndexOne(T, t, b) == IndexInputs(IndexOutputs(IndexTransaction(T, t, b), t), t)

\* What a block or a transaction x of the block b does to the tables.
Work1(how, b, T, x) ==
    CASE how = "index tx" -> IndexOne(T, x, b)
      [] how = "deindex tx" -> DeindexTransaction(T, x)
      [] how = "index block" -> IndexBlock(T, x)
      [] how = "deindex block" -> DeindexBlock(T, x)

\* f is the function that FoldLeft applies to the places S of q.
Runs(f, S, how, b, base, q) ==
    f = [s \in SUBSET S |->
           IF s = {} THEN base ELSE Work1(how, b, f[s \ {Max(s)}], q[Max(s)])]

\* Two such functions agree where both are defined.
LEMMA RunsAgree ==
  ASSUME NEW U, IsFiniteSet(U), \A s \in SUBSET U : s # {} => Max(s) \in s,
         NEW how, NEW b, NEW base, NEW q, NEW S \in SUBSET U, NEW R \in SUBSET S, NEW e, NEW f,
         Runs(e, S, how, b, base, q), Runs(f, R, how, b, base, q)
  PROVE  e[R] = f[R]
<1> DEFINE B == {s \in SUBSET R : e[s] # f[s]}
<1> SUFFICES ASSUME B # {} PROVE FALSE
  OBVIOUS
<1>1. B \in SUBSET (SUBSET U) /\ IsFiniteSet(U)
  OBVIOUS
<1>2. PICK s \in B : \A r \in SUBSET U : Cardinality(r) < Cardinality(s) => r \notin B
  <2> HIDE DEF B
  <2> QED BY <1>1, SmallestSet
<1>3. s \in SUBSET R /\ s \in SUBSET S /\ s \in SUBSET U /\ e[s] # f[s]
  OBVIOUS
<1>4. /\ e[s] = IF s = {} THEN base ELSE Work1(how, b, e[s \ {Max(s)}], q[Max(s)])
      /\ f[s] = IF s = {} THEN base ELSE Work1(how, b, f[s \ {Max(s)}], q[Max(s)])
  BY <1>3 DEF Runs
<1>5. s # {}
  BY <1>3, <1>4
<1>6. Max(s) \in s
  BY <1>3, <1>5
<1>7. s \ {Max(s)} \in SUBSET R /\ s \ {Max(s)} \notin B
  BY <1>1, <1>2, <1>3, <1>6, FiniteParts
<1> QED BY <1>3, <1>4, <1>5, <1>7

\* There is one for every list.
LEMMA RunsExist ==
  ASSUME NEW n \in Nat, NEW how, NEW b, NEW base, NEW q
  PROVE  \E f : Runs(f, 1..n, how, b, base, q)
<1> DEFINE U == 1..n
           F(f, s) == Runs(f, s, how, b, base, q)
           B == {s \in SUBSET U : ~\E f : F(f, s)}
           Val(s) == (CHOOSE f : F(f, s))[s]
<1>0. IsFiniteSet(U) /\ \A s \in SUBSET U : s # {} => Max(s) \in s
  BY MaxPicks DEF Picks
<1> SUFFICES ASSUME B # {} PROVE FALSE
  OBVIOUS
<1>1. PICK s \in B : \A r \in SUBSET U : Cardinality(r) < Cardinality(s) => r \notin B
  <2>1. B \in SUBSET (SUBSET U)
    OBVIOUS
  <2> HIDE DEF B, U
  <2> QED BY <1>0, <2>1, SmallestSet
<1>2. s \in SUBSET U /\ ~\E f : F(f, s)
  OBVIOUS
<1>3. ASSUME NEW r \in SUBSET s, r # s
      PROVE  \E f : F(f, r) /\ Val(r) = f[r]
  <2>1. Cardinality(r) < Cardinality(s)
    BY <1>0, <1>2, <1>3, FiniteParts
  <2>2. \E f : F(f, r)
    BY <1>1, <1>2, <2>1
  <2> HIDE DEF F
  <2> QED BY <2>2
<1>4. ASSUME NEW r \in SUBSET s, r # s
      PROVE  Val(r) = IF r = {} THEN base ELSE Work1(how, b, Val(r \ {Max(r)}), q[Max(r)])
  <2>1. PICK f : F(f, r) /\ Val(r) = f[r]
    BY <1>3, <1>4
  <2>2. CASE r = {}
    BY <2>1, <2>2 DEF Runs
  <2>3. CASE r # {}
    <3> DEFINE p == r \ {Max(r)}
    <3>1. p \in SUBSET r /\ p \in SUBSET s /\ p # s /\ r \in SUBSET U
      BY <1>0, <1>2, <1>4, <2>3
    <3>2. PICK e : F(e, p) /\ Val(p) = e[p]
      BY <1>3, <3>1
    <3> HIDE DEF Val
    <3>3. f[p] = e[p]
      <4>1. Runs(f, r, how, b, base, q) /\ Runs(e, p, how, b, base, q)
        BY <2>1, <3>2
      <4>2. \A P \in SUBSET r : Runs(e, P, how, b, base, q) => f[P] = e[P]
        <5> HIDE DEF p, F, B, U
        <5> QED BY <1>0, <3>1, <4>1, RunsAgree
      <4> QED BY <3>1, <4>1, <4>2
    <3>4. f[r] = Work1(how, b, f[p], q[Max(r)])
      BY <2>1, <2>3 DEF Runs
    <3> QED BY <2>1, <2>3, <3>2, <3>3, <3>4
  <2> QED BY <2>2, <2>3
<1> HIDE DEF Val
<1> DEFINE h == [r \in SUBSET s |-> IF r = s /\ s # {}
                                    THEN Work1(how, b, Val(s \ {Max(s)}), q[Max(s)])
                                    ELSE IF r = {} THEN base ELSE Val(r)]
<1>6. F(h, s)
  <2>1. ASSUME NEW r \in SUBSET s
        PROVE  h[r] = IF r = {} THEN base ELSE Work1(how, b, h[r \ {Max(r)}], q[Max(r)])
    <3>1. CASE r = {}
      BY <3>1
    <3>2. CASE r # {}
      <4> DEFINE p == r \ {Max(r)}
      <4>1. Max(r) \in r /\ p \in SUBSET s /\ p # s
        BY <1>0, <1>2, <3>2
      <4>2. h[p] = Val(p)
        <5>1. CASE p = {}
          BY <1>4, <4>1, <5>1
        <5>2. CASE p # {}
          BY <4>1, <5>2
        <5> QED BY <5>1, <5>2
      <4>3. h[r] = Work1(how, b, Val(p), q[Max(r)])
        <5>1. CASE r = s
          BY <3>2, <5>1
        <5>2. CASE r # s
          BY <1>4, <3>2, <5>2
        <5> QED BY <5>1, <5>2
      <4> QED BY <3>2, <4>2, <4>3
    <3> QED BY <3>1, <3>2
  <2>2. h = [r \in SUBSET s |-> h[r]]
    OBVIOUS
  <2> HIDE DEF h
  <2> QED BY <2>1, <2>2 DEF Runs
<1> QED BY <1>2, <1>6

\* The tables after the first k places of the list q.
Stage(how, b, base, q, n, k) == (CHOOSE f : Runs(f, 1..n, how, b, base, q))[1..k]

\* Place by place.
LEMMA Stages ==
  ASSUME NEW n \in Nat, NEW how, NEW b, NEW base, NEW q
  PROVE  /\ Stage(how, b, base, q, n, 0) = base
         /\ \A k \in 1..n : Stage(how, b, base, q, n, k)
                            = Work1(how, b, Stage(how, b, base, q, n, k - 1), q[k])
<1>1. PICK f : f = CHOOSE g : Runs(g, 1..n, how, b, base, q)
  OBVIOUS
<1>2. Runs(f, 1..n, how, b, base, q)
  BY <1>1, RunsExist
<1>3. \A k \in 0..n : Stage(how, b, base, q, n, k) = f[1..k]
  BY <1>1 DEF Stage
<1>4. f[1..0] = base
  BY <1>2 DEF Runs
<1>5. ASSUME NEW k \in 1..n
      PROVE  f[1..k] = Work1(how, b, f[1..(k - 1)], q[k])
  <2>1. 1..k \in SUBSET (1..n) /\ 1..k # {} /\ k \in 1..k
    OBVIOUS
  <2>2. Max(1..k) = k
    BY <2>1 DEF Max
  <2>3. (1..k) \ {k} = 1..(k - 1)
    OBVIOUS
  <2> QED BY <1>2, <2>1, <2>2, <2>3 DEF Runs
<1> QED BY <1>3, <1>4, <1>5

\* The folds of the model.
LEMMA FoldsStaged ==
  ASSUME NEW T, NEW b \in Block
  PROVE  /\ IndexBlock(T, b) = Stage("index tx", b, T, TxSeq[b], Len(TxSeq[b]), Len(TxSeq[b]))
         /\ DeindexBlock(T, b) = Stage("deindex tx", b, T, TxSeq[b], Len(TxSeq[b]), Len(TxSeq[b]))
<1>1. DOMAIN TxSeq[b] = 1..Len(TxSeq[b])
  BY DataAssumption, LenProperties DEF DataAssumption
<1>2. IndexBlock(T, b) = (CHOOSE f : Runs(f, DOMAIN TxSeq[b], "index tx", b, T, TxSeq[b]))[DOMAIN TxSeq[b]]
  BY DEF IndexBlock, FoldLeft, MapThenFoldSet, Runs, Work1, IndexOne
<1>3. DeindexBlock(T, b) = (CHOOSE f : Runs(f, DOMAIN TxSeq[b], "deindex tx", b, T, TxSeq[b]))[DOMAIN TxSeq[b]]
  BY DEF DeindexBlock, FoldLeft, MapThenFoldSet, Runs, Work1
<1> QED BY <1>1, <1>2, <1>3 DEF Stage

\* The folds over the blocks of a branch.
LEMMA BlocksStaged ==
  ASSUME NEW T, NEW n \in Nat, NEW q, DOMAIN q = 1..n
  PROVE  /\ FoldLeft(IndexBlock, T, q) = Stage("index block", Genesis, T, q, n, n)
         /\ FoldLeft(DeindexBlock, T, q) = Stage("deindex block", Genesis, T, q, n, n)
<1>2. FoldLeft(IndexBlock, T, q) = (CHOOSE f : Runs(f, DOMAIN q, "index block", Genesis, T, q))[DOMAIN q]
  BY DEF FoldLeft, MapThenFoldSet, Runs, Work1
<1>3. FoldLeft(DeindexBlock, T, q) = (CHOOSE f : Runs(f, DOMAIN q, "deindex block", Genesis, T, q))[DOMAIN q]
  BY DEF FoldLeft, MapThenFoldSet, Runs, Work1
<1> QED BY <1>2, <1>3 DEF Stage

-----------------------------------------------------------------------------
\* What is left of a cache, of which E are the entries.
LEMMA Forgotten ==
  ASSUME NEW E, NEW cache \in Seq(E), NEW keys
  PROVE  Forget(cache, keys) \in Seq({e \in E : e.key \notin keys})
<1> DEFINE A == Seq({e \in E : e.key \notin keys})
           n == Len(cache)
           D == DOMAIN cache
           Op(a, e) == IF e.key \in keys THEN a ELSE Append(a, e)
           Works(f) == f = [s \in SUBSET D |->
                              IF s = {} THEN <<>> ELSE Op(f[s \ {Max(s)}], cache[Max(s)])]
           g == [p \in A \X E |-> Op(p[1], p[2])]
<1>1. n \in Nat /\ D = 1..n /\ cache \in [1..n -> E]
  BY LenProperties
<1>2. <<>> \in A
  BY EmptySeq
<1>3. Forget(cache, keys) = (CHOOSE f : Works(f))[D]
  BY DEF Forget, FoldLeft, MapThenFoldSet
<1> HIDE DEF n, D
<1>4. \A a \in A, e \in E : Op(a, e) \in A
  <2> SUFFICES ASSUME NEW a \in A, NEW e \in E, e.key \notin keys PROVE Append(a, e) \in A
    OBVIOUS
  <2>1. e \in {x \in E : x.key \notin keys}
    OBVIOUS
  <2> QED BY <2>1, AppendProperties
<1> HIDE DEF Op, A
<1>5. g \in [A \X E -> A] /\ \A a \in A, e \in E : g[<<a, e>>] = Op(a, e)
  BY <1>4
<1> HIDE DEF g
<1>6. PICK f \in [SUBSET (1..n) -> A] :
         f = [s \in SUBSET (1..n) |->
                 IF s = {} THEN <<>> ELSE g[<<f[s \ {Max(s)}], cache[Max(s)]>>]]
  <2> DEFINE none == <<>>
  <2>1. none \in A /\ g \in [A \X E -> A]
    BY <1>2, <1>5
  <2>2. n \in Nat /\ cache \in [1..n -> E]
    BY <1>1
  <2> HIDE DEF none
  <2>3. \E f : WorksOff(f, n, cache, A, g, none)
    BY <2>1, <2>2, WorkOff
  <2> QED BY <2>3 DEF none, WorksOff
<1>7. \A s \in SUBSET D : s # {} => s \ {Max(s)} \in SUBSET D /\ cache[Max(s)] \in E
  BY <1>1, LastPlace
<1>8. Works(f)
  <2>1. \A s \in SUBSET D : s # {} => g[<<f[s \ {Max(s)}], cache[Max(s)]>>] = Op(f[s \ {Max(s)}], cache[Max(s)])
    BY <1>1, <1>5, <1>6, <1>7
  <2> QED BY <1>1, <1>6, <2>1
<1> DEFINE e == CHOOSE h : Works(h)
<1>9. Works(e)
  <2> HIDE DEF Works
  <2> QED BY <1>8
<1> HIDE DEF e
<1>10. e[{}] \in A
  BY <1>2, <1>9
<1>11. ASSUME NEW s \in SUBSET D, s # {}, e[s \ {Max(s)}] \in A
       PROVE  e[s] = g[<<e[s \ {Max(s)}], cache[Max(s)]>>]
  BY <1>5, <1>7, <1>9, <1>11
<1>12. e[D] \in A
  <2>1. Follows(e, n, cache, A, g)
    BY <1>1, <1>10, <1>11 DEF Follows
  <2>2. n \in Nat /\ cache \in [1..n -> E] /\ g \in [A \X E -> A]
    BY <1>1, <1>5
  <2>3. e[1..n] \in A
    BY <2>1, <2>2, EndsIn
  <2> QED BY <1>1, <2>3
<1> QED BY <1>3, <1>12 DEF e, A

\* What a cache holds with a new answer.
LEMMA Remembered ==
  ASSUME NEW E, NEW cache \in Seq(E), NEW key, NEW answer
  PROVE  Remember(cache, key, answer)
         \in Seq({e \in E : e.key # key} \cup {[key |-> key, is |-> answer]})
<1> DEFINE F == {e \in E : e.key # key} \cup {[key |-> key, is |-> answer]}
           present == \E i \in 1..Len(cache) : cache[i].key = key
           over == [i \in 1..Len(cache) |->
                      IF cache[i].key = key THEN [key |-> key, is |-> answer] ELSE cache[i]]
           longer == IF present THEN over ELSE Append(cache, [key |-> key, is |-> answer])
<1>1. Len(cache) \in Nat /\ cache \in [1..Len(cache) -> E]
  BY LenProperties
<1>2. longer \in Seq(F) /\ longer # <<>>
  <2>1. CASE present
    <3>1. over \in [1..Len(cache) -> F]
      BY <1>1
    <3>2. over \in Seq(F)
      BY <1>1, <3>1, SeqDef
    <3>3. over # <<>>
      BY <1>1, <2>1, <3>2, LenProperties, EmptySeq
    <3> QED BY <2>1, <3>2, <3>3
  <2>2. CASE ~present
    <3>1. cache \in [1..Len(cache) -> F]
      BY <1>1, <2>2
    <3>2. cache \in Seq(F)
      BY <1>1, <3>1, SeqDef
    <3>3. [key |-> key, is |-> answer] \in F
      OBVIOUS
    <3> QED BY <2>2, <3>2, <3>3, AppendProperties
  <2> QED BY <2>1, <2>2
<1>3. Remember(cache, key, answer) = IF Len(longer) > CacheSize THEN Tail(longer) ELSE longer
  BY DEF Remember
<1> HIDE DEF longer, F
<1>4. Tail(longer) \in Seq(F)
  BY <1>2, HeadTailProperties
<1> QED BY <1>2, <1>3, <1>4 DEF F

-----------------------------------------------------------------------------
\* An amount is the total of the values.
LEMMA AmountTotal ==
  ASSUME NEW S \in SUBSET Outpoint
  PROVE  Amount(S) = Total(AmountOf, S) /\ Amount(S) \in Nat
<1>1. Amount(S) = Total(AmountOf, S)
  BY DEF Amount, Total
<1>2. AmountOf \in [Outpoint -> Nat] /\ IsFiniteSet(Outpoint)
  BY IndexAssumption DEF IndexAssumption
<1>3. PICK w \in [Outpoint -> Nat] : w = AmountOf
  BY <1>2
<1>4. Total(w, S) \in Nat
  BY <1>2, TotalStep
<1> QED BY <1>1, <1>3, <1>4

\* Amounts of parts.
LEMMA AmountParts ==
  ASSUME NEW S \in SUBSET Outpoint, NEW R \in SUBSET S
  PROVE  /\ Amount(S \ R) = Amount(S) - Amount(R)
         /\ Amount(R) <= Amount(S)
<1>1. AmountOf \in [Outpoint -> Nat] /\ IsFiniteSet(Outpoint)
  BY IndexAssumption DEF IndexAssumption
<1>2. S \ R \in SUBSET Outpoint /\ R \in SUBSET Outpoint
  OBVIOUS
<1>3. Total(AmountOf, S \ R) = Total(AmountOf, S) - Total(AmountOf, R)
      /\ Total(AmountOf, R) <= Total(AmountOf, S)
  BY <1>1, TotalRemove
<1> QED BY <1>2, <1>3, AmountTotal

\* Amounts of what has nothing in common.
LEMMA AmountUnion ==
  ASSUME NEW S \in SUBSET Outpoint, NEW R \in SUBSET Outpoint, S \cap R = {}
  PROVE  Amount(S \cup R) = Amount(S) + Amount(R)
<1>1. S \cup R \in SUBSET Outpoint /\ R \in SUBSET (S \cup R) /\ (S \cup R) \ R = S
  OBVIOUS
<1>2. Amount(S) = Amount(S \cup R) - Amount(R)
  BY <1>1, AmountParts
<1> QED BY <1>1, <1>2, AmountTotal

\* The rows that there can be, and the outpoints they are about.
Row == Holder \X Tx \X BOOLEAN \X Outpoint
PointsOf(R) == {r[4] : r \in R}

\* The total of rows about different outpoints is the amount of those.
LEMMA RowsAmount ==
  ASSUME NEW R \in SUBSET Row, IsFiniteSet(R), \A r, s \in R : r[4] = s[4] => r = s
  PROVE  MapThenSumSet(LAMBDA r : AmountOf[r[4]], R) = Amount(PointsOf(R))
<1> DEFINE w == [r \in R |-> AmountOf[r[4]]]
           Adds(f) == f = [s \in SUBSET R |->
                             IF s = {} THEN 0 ELSE AmountOf[Pick(s)[4]] + f[s \ {Pick(s)}]]
           sum == MapThenSumSet(LAMBDA r : AmountOf[r[4]], R)
<1>1. w \in [R -> Nat]
  <2>1. \A r \in R : r[4] \in Outpoint
    BY DEF Row
  <2> QED BY <2>1, IndexAssumption DEF IndexAssumption
<1>2. ASSUME NEW f PROVE Adds(f) <=> Sums(w, f, R)
  <2>1. \A s \in SUBSET R : s # {} => AmountOf[Pick(s)[4]] = w[Pick(s)]
    BY DEF Pick
  <2> HIDE DEF w
  <2>2. [s \in SUBSET R |-> IF s = {} THEN 0 ELSE AmountOf[Pick(s)[4]] + f[s \ {Pick(s)}]]
        = [s \in SUBSET R |-> IF s = {} THEN 0 ELSE w[Pick(s)] + f[s \ {Pick(s)}]]
    BY <2>1
  <2> QED BY <2>2 DEF Sums
<1>3. sum = (CHOOSE f : Adds(f))[R]
  BY DEF MapThenSumSet, MapThenFoldSet, Pick
<1> HIDE DEF sum
<1>4. PICK e : Sums(w, e, R)
  <2> HIDE DEF w
  <2> QED BY <1>1, SumsExist
<1>5. Adds(CHOOSE f : Adds(f))
  <2>1. Adds(e)
    BY <1>2, <1>4
  <2> HIDE DEF Adds
  <2> QED BY <2>1
<1>6. PICK f : Sums(w, f, R) /\ sum = f[R]
  <2>1. Sums(w, CHOOSE f : Adds(f), R)
    BY <1>2, <1>5
  <2> HIDE DEF w, Adds
  <2> QED BY <1>3, <2>1
<1> HIDE DEF w
<1>7. \A s \in SUBSET R : s # {} => f[s] = w[Pick(s)] + f[s \ {Pick(s)}]
  BY <1>6 DEF Sums
<1> DEFINE Good == {s \in SUBSET R : f[s] = Amount(PointsOf(s))}
           pick == [s \in SUBSET R |-> Pick(s)]
<1>8. {} \in Good
  <2>1. f[{}] = 0
    BY <1>6 DEF Sums
  <2>2. PointsOf({}) = {}
    BY DEF PointsOf
  <2>3. AmountOf \in [Outpoint -> Nat] /\ IsFiniteSet(Outpoint) /\ {} \in SUBSET Outpoint
    BY IndexAssumption DEF IndexAssumption
  <2>4. Amount({}) = 0
    BY <2>3, AmountTotal, TotalStep
  <2> QED BY <2>1, <2>2, <2>4
<1>9. ASSUME NEW s \in SUBSET R, s # {}, s \ {pick[s]} \in Good PROVE s \in Good
  <2>1. PICK r \in s : r = Pick(s)
    BY <1>9 DEF Pick
  <2>2. f[s] = w[r] + Amount(PointsOf(s \ {r})) /\ w[r] = AmountOf[r[4]]
    BY <1>7, <1>9, <2>1 DEF w
  <2>3. PointsOf(s) = PointsOf(s \ {r}) \cup {r[4]} /\ r[4] \notin PointsOf(s \ {r})
    BY <1>9, <2>1 DEF PointsOf
  <2>4. PointsOf(s \ {r}) \in SUBSET Outpoint /\ r[4] \in Outpoint \ PointsOf(s \ {r})
    BY <1>9, <2>1, <2>3 DEF PointsOf, Row
  <2>5. PICK P \in SUBSET Outpoint : P = PointsOf(s \ {r})
    BY <2>4
  <2>6. AmountOf \in [Outpoint -> Nat] /\ IsFiniteSet(Outpoint)
    BY IndexAssumption DEF IndexAssumption
  <2>7. Total(AmountOf, P \cup {r[4]}) = Total(AmountOf, P) + AmountOf[r[4]]
    <3>1. PICK o \in Outpoint \ P : o = r[4]
      BY <2>4, <2>5
    <3>2. Total(AmountOf, P \cup {o}) = Total(AmountOf, P) + AmountOf[o]
      BY <2>6, TotalAdd
    <3> QED BY <3>1, <3>2
  <2>8. PointsOf(s) \in SUBSET Outpoint
    BY <2>3, <2>4
  <2>9. Amount(PointsOf(s)) = Amount(P) + AmountOf[r[4]] /\ Amount(P) \in Nat /\ AmountOf[r[4]] \in Nat
    BY <2>3, <2>4, <2>5, <2>6, <2>7, <2>8, AmountTotal
  <2> QED BY <2>2, <2>5, <2>9
<1> HIDE DEF Good
<1>10. Picks(pick, R)
  BY PickPicks
<1> HIDE DEF pick
<1>11. R \in Good
  BY <1>8, <1>9, <1>10, PartsInduction
<1>12. sum = Amount(PointsOf(R))
  BY <1>6, <1>11 DEF Good
<1> QED BY <1>12 DEF sum

-----------------------------------------------------------------------------
\* The tables as a record.
IsTables(T) == T = [idx |-> T.idx, ins |-> T.ins, outs |-> T.outs, rows |-> T.rows,
                    bal |-> T.bal, txc |-> T.txc, adc |-> T.adc]

\* An output is marked exactly if it is used.
Marked(outs, X) ==
    /\ outs \in [Made(X) -> BOOLEAN]
    /\ \A o \in Made(X) : outs[o] <=> o \in Used(X)

\* The answers for transactions.
Places(idx, X) == {[key |-> t, is |-> idx[t]] : t \in X}

\* The transaction index and its cache say what the transactions X do, each of
\* which is in one of the blocks B.
TxTables(T, X, B) ==
    /\ T.idx \in [X -> B]
    /\ \A t \in X : t \in BlockTxs(T.idx[t])
    /\ T.ins = {r \in Tx \X Outpoint : r[1] \in X /\ r[2] \in TxIn[r[1]]}
    /\ Marked(T.outs, X)
    /\ T.txc \in Seq(Places(T.idx, X))

\* The rows that the transactions X have.
RowsFor(X) ==
    {r \in Row : /\ r[2] \in X /\ r[1] = HolderOf[r[4]]
                 /\ r[4] \in (IF r[3] THEN TxIn[r[2]] ELSE TxOut[r[2]])}

\* The answer for an address.
InfoFor(T, a) == [key |-> a, is |-> <<T.bal[a], Cardinality({r \in T.rows : r[1] = a})>>]

\* The address index and its cache say what they receive and pay.
AddressTables(T, X) ==
    /\ T.rows = RowsFor(X)
    /\ T.bal = [a \in Holder |-> Amount(Of(a, Made(X))) - Amount(Of(a, Used(X)))]
    /\ T.adc \in Seq({InfoFor(T, a) : a \in Holder})

\* What indexing a transaction leaves in each table.
Indexed(I, T, t, b, found) ==
    /\ IsTables(I)
    /\ I.idx = Put(T.idx, t, b)
    /\ I.ins = T.ins \cup {<<t, o>> : o \in TxIn[t]}
    /\ I.outs = PutAll(PutAll(T.outs, TxOut[t], FALSE), found, TRUE)
    /\ I.rows = (T.rows \cup {<<HolderOf[o], t, FALSE, o>> : o \in TxOut[t]})
                \cup {<<HolderOf[o], t, TRUE, o>> : o \in found}
    /\ I.bal = [a \in Holder |-> (T.bal[a] + Amount(Of(a, TxOut[t]))) - Amount(Of(a, found))]
    /\ I.txc = Remember(T.txc, t, b)
    /\ I.adc = Forget(Forget(T.adc, {HolderOf[o] : o \in TxOut[t]}), {HolderOf[o] : o \in found})

\* Rows, balances and caches after index_transaction and both address loops.
LEMMA IndexOneIs ==
  ASSUME NEW T, IsTables(T), NEW t, NEW b, NEW I, I = IndexOne(T, t, b),
         NEW found, found = TxIn[t] \cap (DOMAIN T.outs \cup TxOut[t])
  PROVE  Indexed(I, T, t, b, found)
<1>1. PICK T1 : T1 = IndexTransaction(T, t, b)
  OBVIOUS
<1>2. T1 = [idx |-> Put(T.idx, t, b), ins |-> T.ins \cup {<<t, o>> : o \in TxIn[t]},
            outs |-> PutAll(T.outs, TxOut[t], FALSE), rows |-> T.rows,
            bal |-> T.bal, txc |-> Remember(T.txc, t, b), adc |-> T.adc]
  BY <1>1 DEF IndexTransaction, IsTables
<1>3. PICK T2 : T2 = IndexOutputs(T1, t)
  OBVIOUS
<1>4. T2 = [idx |-> T1.idx, ins |-> T1.ins, outs |-> T1.outs,
            rows |-> T1.rows \cup {<<HolderOf[o], t, FALSE, o>> : o \in TxOut[t]},
            bal |-> [a \in Holder |-> T1.bal[a] + Amount(Of(a, TxOut[t]))],
            txc |-> T1.txc, adc |-> Forget(T1.adc, {HolderOf[o] : o \in TxOut[t]})]
  BY <1>2, <1>3 DEF IndexOutputs, IndexAddresses
<1>5. found = TxIn[t] \cap DOMAIN T2.outs
  BY <1>2, <1>4 DEF PutAll
<1>6. I = IndexInputs(T2, t)
  BY <1>1, <1>3 DEF IndexOne
<1>7. I = [idx |-> T2.idx, ins |-> T2.ins, outs |-> PutAll(T2.outs, found, TRUE),
           rows |-> T2.rows \cup {<<HolderOf[o], t, TRUE, o>> : o \in found},
           bal |-> [a \in Holder |-> T2.bal[a] - Amount(Of(a, found))],
           txc |-> T2.txc, adc |-> Forget(T2.adc, {HolderOf[o] : o \in found})]
  <2>1. PICK T3 : T3 = [T2 EXCEPT !.outs = PutAll(T2.outs, found, TRUE)]
    OBVIOUS
  <2>2. T3 = [idx |-> T2.idx, ins |-> T2.ins, outs |-> PutAll(T2.outs, found, TRUE),
              rows |-> T2.rows, bal |-> T2.bal, txc |-> T2.txc, adc |-> T2.adc]
    BY <1>4, <2>1
  <2>3. I = IndexAddresses(T3, t, found, TRUE)
    BY <1>5, <1>6, <2>1 DEF IndexInputs
  <2>4. I = [idx |-> T3.idx, ins |-> T3.ins, outs |-> T3.outs,
             rows |-> T3.rows \cup {<<HolderOf[o], t, TRUE, o>> : o \in found},
             bal |-> [a \in Holder |-> T3.bal[a] - Amount(Of(a, found))],
             txc |-> T3.txc, adc |-> Forget(T3.adc, {HolderOf[o] : o \in found})]
    <3>1. I = [T3 EXCEPT !.rows = T3.rows \cup {<<HolderOf[o], t, TRUE, o>> : o \in found},
                         !.bal = [a \in Holder |-> T3.bal[a] - Amount(Of(a, found))],
                         !.adc = Forget(T3.adc, {HolderOf[o] : o \in found})]
      BY <2>3 DEF IndexAddresses
    <3> QED BY <2>2, <3>1
  <2>5. /\ T3.idx = T2.idx /\ T3.ins = T2.ins /\ T3.outs = PutAll(T2.outs, found, TRUE)
        /\ T3.rows = T2.rows /\ T3.bal = T2.bal /\ T3.txc = T2.txc /\ T3.adc = T2.adc
    BY <2>2
  <2> QED BY <2>4, <2>5
<1>8. I.bal = [a \in Holder |-> (T.bal[a] + Amount(Of(a, TxOut[t]))) - Amount(Of(a, found))]
  <2>1. \A a \in Holder : T2.bal[a] = T.bal[a] + Amount(Of(a, TxOut[t]))
    BY <1>2, <1>4
  <2>2. I.bal = [a \in Holder |-> T2.bal[a] - Amount(Of(a, found))]
    BY <1>7
  <2> QED BY <2>1, <2>2
<1>9. /\ IsTables(I) /\ I.outs = PutAll(T2.outs, found, TRUE) /\ I.txc = T2.txc
      /\ I.idx = T2.idx /\ I.ins = T2.ins /\ I.adc = Forget(T2.adc, {HolderOf[o] : o \in found})
      /\ I.rows = T2.rows \cup {<<HolderOf[o], t, TRUE, o>> : o \in found}
  BY <1>7 DEF IsTables
<1>10. /\ T2.idx = Put(T.idx, t, b) /\ T2.ins = T.ins \cup {<<t, o>> : o \in TxIn[t]}
       /\ T2.outs = PutAll(T.outs, TxOut[t], FALSE) /\ T2.txc = Remember(T.txc, t, b)
       /\ T2.adc = Forget(T.adc, {HolderOf[o] : o \in TxOut[t]})
       /\ T2.rows = T.rows \cup {<<HolderOf[o], t, FALSE, o>> : o \in TxOut[t]}
  BY <1>2, <1>4
<1> QED BY <1>8, <1>9, <1>10 DEF Indexed

\* What taking a transaction out leaves in each table.
Deindexed(I, T, t) ==
    /\ IsTables(I)
    /\ I.idx = Restrict1(T.idx, Tx \ {t})
    /\ I.ins = {r \in T.ins : r[1] # t}
    /\ I.outs = Restrict1(Unspent(T.outs, {r[2] : r \in {x \in T.ins : x[1] = t}}),
                          Outpoint \ TxOut[t])
    /\ I.txc = Forget(T.txc, {t})

\* The tables after the three deletions of _deindex_disconnected_block.
LEMMA DeindexOneIs ==
  ASSUME NEW T, IsTables(T), NEW t, NEW I, I = DeindexTransaction(T, t)
  PROVE  Deindexed(I, T, t)
<1>2. I = [idx |-> Restrict1(T.idx, Tx \ {t}), ins |-> {r \in T.ins : r[1] # t},
           outs |-> Restrict1(Unspent(T.outs, {r[2] : r \in {x \in T.ins : x[1] = t}}),
                              Outpoint \ TxOut[t]),
           rows |-> T.rows, bal |-> T.bal, txc |-> Forget(T.txc, {t}), adc |-> T.adc]
  BY DEF DeindexTransaction, IsTables
<1> QED BY <1>2 DEF IsTables, Deindexed

\* A transaction comes in.
LEMMA TxComesIn ==
  ASSUME NEW T, IsTables(T), NEW X \in SUBSET Tx, NEW B, TxTables(T, X, B), NEW b \in B,
         NEW t \in Tx \ X, t \in BlockTxs(b), TxIn[t] \subseteq Made(X), Used(X) \subseteq Made(X)
  PROVE  IsTables(IndexOne(T, t, b)) /\ TxTables(IndexOne(T, t, b), X \cup {t}, B)
<1>1. PICK I : I = IndexOne(T, t, b)
  OBVIOUS
<1>2. TxIn[t] = TxIn[t] \cap (DOMAIN T.outs \cup TxOut[t])
  BY DEF TxTables, Marked
<1>3. /\ IsTables(I)
      /\ I.idx = Put(T.idx, t, b)
      /\ I.ins = T.ins \cup {<<t, o>> : o \in TxIn[t]}
      /\ I.outs = PutAll(PutAll(T.outs, TxOut[t], FALSE), TxIn[t], TRUE)
      /\ I.txc = Remember(T.txc, t, b)
  <2>1. Indexed(I, T, t, b, TxIn[t])
    BY <1>1, <1>2, IndexOneIs
  <2> QED BY <2>1 DEF Indexed
<1>4. /\ I.idx \in [X \cup {t} -> B] /\ \A u \in X : I.idx[u] = T.idx[u]
      /\ I.idx[t] = b /\ \A u \in X \cup {t} : u \in BlockTxs(I.idx[u])
  BY <1>3 DEF TxTables, Put
<1>5. I.ins = {r \in Tx \X Outpoint : r[1] \in X \cup {t} /\ r[2] \in TxIn[r[1]]}
  <2>1. {<<t, o>> : o \in TxIn[t]} = {r \in Tx \X Outpoint : r[1] = t /\ r[2] \in TxIn[r[1]]}
    BY Contents
  <2> QED BY <1>3, <2>1 DEF TxTables
<1>6. Marked(I.outs, X \cup {t})
  <2>1. Made(X \cup {t}) = Made(X) \cup TxOut[t] /\ Used(X \cup {t}) = Used(X) \cup TxIn[t]
    BY DEF Made, Used
  <2>2. Made(X) \cap TxOut[t] = {}
    BY Contents DEF Made
  <2>3. Marked(T.outs, X)
    BY DEF TxTables
  <2>4. DOMAIN T.outs = Made(X)
    BY <2>3 DEF Marked
  <2>5. I.outs = [o \in Made(X \cup {t}) |->
                     IF o \in TxIn[t] THEN TRUE
                     ELSE IF o \in TxOut[t] THEN FALSE ELSE T.outs[o]]
    BY <1>3, <2>1, <2>4 DEF PutAll
  <2>6. ASSUME NEW o \in Made(X \cup {t})
        PROVE  I.outs[o] \in BOOLEAN /\ (I.outs[o] <=> o \in Used(X \cup {t}))
    <3>1. CASE o \in TxIn[t]
      BY <2>1, <2>5, <3>1
    <3>2. CASE o \notin TxIn[t] /\ o \in TxOut[t]
      <4>1. I.outs[o] = FALSE
        BY <2>5, <3>2
      <4>2. o \notin Used(X \cup {t})
        BY <2>1, <2>2, <3>2
      <4> QED BY <4>1, <4>2
    <3>3. CASE o \notin TxIn[t] /\ o \notin TxOut[t]
      <4>1. I.outs[o] = T.outs[o] /\ o \in Made(X)
        BY <2>1, <2>5, <3>3
      <4>2. T.outs[o] \in BOOLEAN /\ (T.outs[o] <=> o \in Used(X))
        BY <2>3, <4>1 DEF Marked
      <4>3. o \in Used(X \cup {t}) <=> o \in Used(X)
        BY <2>1, <3>3
      <4> QED BY <4>1, <4>2, <4>3
    <3> QED BY <3>1, <3>2, <3>3
  <2>7. I.outs = [o \in Made(X \cup {t}) |-> I.outs[o]]
    BY <2>5
  <2> QED BY <2>6, <2>7 DEF Marked
<1>7. I.txc \in Seq(Places(I.idx, X \cup {t}))
  <2> DEFINE E == Places(T.idx, X)
             F == {e \in E : e.key # t} \cup {[key |-> t, is |-> b]}
             G == Places(I.idx, X \cup {t})
  <2>1. T.txc \in Seq(E)
    BY DEF TxTables
  <2>2. F \subseteq G
    BY <1>4 DEF Places
  <2> HIDE DEF E
  <2>3. I.txc \in Seq(F)
    BY <1>3, <2>1, Remembered
  <2> HIDE DEF F, G
  <2>4. I.txc \in Seq(G)
    BY <2>2, <2>3, SeqMonotonic
  <2> QED BY <2>4 DEF G
<1> QED BY <1>1, <1>3, <1>4, <1>5, <1>6, <1>7 DEF TxTables

\* A transaction goes out.
LEMMA TxGoesOut ==
  ASSUME NEW T, IsTables(T), NEW X \in SUBSET Tx, NEW B, TxTables(T, X, B),
         NEW t \in X, UsedOnce(X)
  PROVE  IsTables(DeindexTransaction(T, t)) /\ TxTables(DeindexTransaction(T, t), X \ {t}, B)
<1>1. PICK I : I = DeindexTransaction(T, t)
  OBVIOUS
<1>2. /\ IsTables(I)
      /\ I.idx = Restrict1(T.idx, Tx \ {t})
      /\ I.ins = {r \in T.ins : r[1] # t}
      /\ I.outs = Restrict1(Unspent(T.outs, {r[2] : r \in {x \in T.ins : x[1] = t}}),
                            Outpoint \ TxOut[t])
      /\ I.txc = Forget(T.txc, {t})
  <2>1. Deindexed(I, T, t)
    BY <1>1, DeindexOneIs
  <2> QED BY <2>1 DEF Deindexed
<1>3. /\ I.idx \in [X \ {t} -> B] /\ \A u \in X \ {t} : I.idx[u] = T.idx[u]
      /\ \A u \in X \ {t} : u \in BlockTxs(I.idx[u])
  <2>1. DOMAIN T.idx \cap (Tx \ {t}) = X \ {t} /\ T.idx \in [X -> B]
    BY DEF TxTables
  <2>2. I.idx = [u \in X \ {t} |-> T.idx[u]]
    BY <1>2, <2>1 DEF Restrict1
  <2> QED BY <2>1, <2>2 DEF TxTables
<1>4. I.ins = {r \in Tx \X Outpoint : r[1] \in X \ {t} /\ r[2] \in TxIn[r[1]]}
  BY <1>2 DEF TxTables
<1>5. {r[2] : r \in {x \in T.ins : x[1] = t}} = TxIn[t]
  <2>1. T.ins = {r \in Tx \X Outpoint : r[1] \in X /\ r[2] \in TxIn[r[1]]}
    BY DEF TxTables
  <2>2. \A o \in TxIn[t] : <<t, o>> \in T.ins
    BY <2>1, Contents
  <2>3. \A x \in T.ins : x[1] = t => x[2] \in TxIn[t]
    BY <2>1
  <2>4. \A o \in TxIn[t] : <<t, o>>[1] = t /\ <<t, o>>[2] = o
    OBVIOUS
  <2>5. \A o \in TxIn[t] : \E r \in {x \in T.ins : x[1] = t} : r[2] = o
    BY <2>2, <2>4
  <2> QED BY <2>3, <2>5
<1>6. Marked(I.outs, X \ {t})
  <2>1. Made(X) = Made(X \ {t}) \cup TxOut[t] /\ Made(X \ {t}) \cap TxOut[t] = {}
    BY Contents DEF Made
  <2>2. Used(X) = Used(X \ {t}) \cup TxIn[t] /\ Used(X \ {t}) \cap TxIn[t] = {}
    BY DEF Used, UsedOnce
  <2>3. Marked(T.outs, X) /\ Made(X) \subseteq Outpoint
    BY Contents DEF TxTables
  <2>4. DOMAIN T.outs = Made(X)
    BY <2>3 DEF Marked
  <2>5. Made(X) \cap (Outpoint \ TxOut[t]) = Made(X \ {t})
    BY <2>1, <2>3
  <2>6. I.outs = [o \in Made(X \ {t}) |-> IF o \in TxIn[t] THEN FALSE ELSE T.outs[o]]
    <3>1. Unspent(T.outs, TxIn[t]) = [o \in Made(X) |-> IF o \in TxIn[t] THEN FALSE ELSE T.outs[o]]
      BY <2>4 DEF Unspent
    <3>2. I.outs = Restrict1(Unspent(T.outs, TxIn[t]), Outpoint \ TxOut[t])
      BY <1>2, <1>5
    <3> QED BY <2>5, <3>1, <3>2 DEF Restrict1
  <2>7. ASSUME NEW o \in Made(X \ {t})
        PROVE  I.outs[o] \in BOOLEAN /\ (I.outs[o] <=> o \in Used(X \ {t}))
    <3>1. o \in Made(X)
      BY <2>1
    <3>2. CASE o \in TxIn[t]
      BY <2>2, <2>6, <3>2
    <3>3. CASE o \notin TxIn[t]
      <4>1. T.outs[o] \in BOOLEAN /\ (T.outs[o] <=> o \in Used(X))
        BY <2>3, <3>1 DEF Marked
      <4>2. o \in Used(X \ {t}) <=> o \in Used(X)
        BY <2>2, <3>3
      <4>3. I.outs[o] = T.outs[o]
        BY <2>6, <3>3
      <4> QED BY <4>1, <4>2, <4>3
    <3> QED BY <3>2, <3>3
  <2>8. I.outs = [o \in Made(X \ {t}) |-> I.outs[o]]
    BY <2>6
  <2> QED BY <2>7, <2>8 DEF Marked
<1>7. I.txc \in Seq(Places(I.idx, X \ {t}))
  <2> DEFINE E == Places(T.idx, X)
             F == {e \in E : e.key \notin {t}}
             G == Places(I.idx, X \ {t})
  <2>1. T.txc \in Seq(E)
    BY DEF TxTables
  <2>2. F \subseteq G
    BY <1>3 DEF Places
  <2> HIDE DEF E
  <2>3. I.txc \in Seq(F)
    BY <1>2, <2>1, Forgotten
  <2> HIDE DEF F, G
  <2>4. I.txc \in Seq(G)
    BY <2>2, <2>3, SeqMonotonic
  <2> QED BY <2>4 DEF G
<1> QED BY <1>1, <1>2, <1>3, <1>4, <1>6, <1>7 DEF TxTables

\* The rows of a further transaction.
LEMMA RowsJoin ==
  ASSUME NEW X \in SUBSET Tx, NEW t \in Tx
  PROVE  RowsFor(X \cup {t})
         = (RowsFor(X) \cup {<<HolderOf[o], t, FALSE, o>> : o \in TxOut[t]})
           \cup {<<HolderOf[o], t, TRUE, o>> : o \in TxIn[t]}
<1> DEFINE A == {<<HolderOf[o], t, FALSE, o>> : o \in TxOut[t]}
           B == {<<HolderOf[o], t, TRUE, o>> : o \in TxIn[t]}
<1>1. /\ \A o \in Outpoint : HolderOf[o] \in Holder
      /\ TxOut[t] \subseteq Outpoint /\ TxIn[t] \subseteq Outpoint
  BY Contents, IndexAssumption DEF IndexAssumption
<1>2. ASSUME NEW r \in A PROVE r \in RowsFor(X \cup {t})
  <2>1. PICK o \in TxOut[t] : r = <<HolderOf[o], t, FALSE, o>>
    OBVIOUS
  <2>2. r \in Row /\ r[1] = HolderOf[o] /\ r[2] = t /\ r[3] = FALSE /\ r[4] = o
    BY <1>1, <2>1 DEF Row
  <2> QED BY <2>2 DEF RowsFor
<1>3. ASSUME NEW r \in B PROVE r \in RowsFor(X \cup {t})
  <2>1. PICK o \in TxIn[t] : r = <<HolderOf[o], t, TRUE, o>>
    OBVIOUS
  <2>2. r \in Row /\ r[1] = HolderOf[o] /\ r[2] = t /\ r[3] = TRUE /\ r[4] = o
    BY <1>1, <2>1 DEF Row
  <2> QED BY <2>2 DEF RowsFor
<1>4. RowsFor(X) \subseteq RowsFor(X \cup {t})
  BY DEF RowsFor
<1>5. ASSUME NEW r \in RowsFor(X \cup {t}) PROVE r \in (RowsFor(X) \cup A) \cup B
  <2>1. r \in Row /\ r[1] = HolderOf[r[4]]
    BY DEF RowsFor
  <2>2. r = <<r[1], r[2], r[3], r[4]>> /\ r[3] \in BOOLEAN
    BY <2>1 DEF Row
  <2>3. CASE r[2] \in X
    BY <2>3 DEF RowsFor
  <2>4. CASE r[2] = t /\ r[3] = TRUE
    <3>1. r[4] \in TxIn[t]
      BY <2>4 DEF RowsFor
    <3>2. r = <<HolderOf[r[4]], t, TRUE, r[4]>>
      BY <2>1, <2>2, <2>4
    <3> QED BY <3>1, <3>2
  <2>5. CASE r[2] = t /\ r[3] = FALSE
    <3>1. r[4] \in TxOut[t]
      BY <2>5 DEF RowsFor
    <3>2. r = <<HolderOf[r[4]], t, FALSE, r[4]>>
      BY <2>1, <2>2, <2>5
    <3> QED BY <3>1, <3>2
  <2> QED BY <2>2, <2>3, <2>4, <2>5 DEF RowsFor
<1> HIDE DEF A, B
<1>6. RowsFor(X \cup {t}) = (RowsFor(X) \cup A) \cup B
  BY <1>2, <1>3, <1>4, <1>5
<1> QED BY <1>6 DEF A, B

\* Amounts per address.
LEMMA AmountOfJoin ==
  ASSUME NEW S \in SUBSET Outpoint, NEW R \in SUBSET Outpoint, S \cap R = {}, NEW a
  PROVE  /\ Amount(Of(a, S \cup R)) = Amount(Of(a, S)) + Amount(Of(a, R))
         /\ Amount(Of(a, S)) \in Nat /\ Amount(Of(a, R)) \in Nat
<1>1. /\ Of(a, S) \in SUBSET Outpoint /\ Of(a, R) \in SUBSET Outpoint /\ Of(a, S) \cap Of(a, R) = {}
      /\ Of(a, S \cup R) = Of(a, S) \cup Of(a, R)
  BY DEF Of
<1> QED BY <1>1, AmountUnion, AmountTotal

\* Nothing is worth nothing.
LEMMA NoAmount == Amount({}) = 0
<1>1. AmountOf \in [Outpoint -> Nat] /\ IsFiniteSet(Outpoint) /\ {} \in SUBSET Outpoint
  BY IndexAssumption DEF IndexAssumption
<1> QED BY <1>1, AmountTotal, TotalStep

\* A transaction comes in, for the address index.
LEMMA AddressComesIn ==
  ASSUME NEW T, IsTables(T), NEW X \in SUBSET Tx, NEW B, TxTables(T, X, B), NEW b,
         NEW t \in Tx \ X, TxIn[t] \subseteq Made(X), TxIn[t] \cap Used(X) = {},
         AddressTables(T, X)
  PROVE  AddressTables(IndexOne(T, t, b), X \cup {t})
<1>1. PICK I : I = IndexOne(T, t, b)
  OBVIOUS
<1>2. TxIn[t] = TxIn[t] \cap (DOMAIN T.outs \cup TxOut[t])
  BY DEF TxTables, Marked
<1>3. Indexed(I, T, t, b, TxIn[t])
  BY <1>1, <1>2, IndexOneIs
<1> DEFINE K1 == {HolderOf[o] : o \in TxOut[t]}
           K2 == {HolderOf[o] : o \in TxIn[t]}
<1>4. /\ I.rows = (T.rows \cup {<<HolderOf[o], t, FALSE, o>> : o \in TxOut[t]})
                  \cup {<<HolderOf[o], t, TRUE, o>> : o \in TxIn[t]}
      /\ I.bal = [a \in Holder |-> (T.bal[a] + Amount(Of(a, TxOut[t]))) - Amount(Of(a, TxIn[t]))]
      /\ I.adc = Forget(Forget(T.adc, K1), K2)
  BY <1>3 DEF Indexed
<1>5. I.rows = RowsFor(X \cup {t})
  BY <1>4, RowsJoin DEF AddressTables
<1>6. /\ Made(X) \in SUBSET Outpoint /\ Used(X) \in SUBSET Outpoint
      /\ TxOut[t] \in SUBSET Outpoint /\ TxIn[t] \in SUBSET Outpoint
      /\ Made(X \cup {t}) = Made(X) \cup TxOut[t] /\ Used(X \cup {t}) = Used(X) \cup TxIn[t]
      /\ Made(X) \cap TxOut[t] = {} /\ Used(X) \cap TxIn[t] = {}
  BY Contents DEF Made, Used
<1>7. ASSUME NEW a \in Holder
      PROVE  I.bal[a] = Amount(Of(a, Made(X \cup {t}))) - Amount(Of(a, Used(X \cup {t})))
  <2>1. I.bal[a] = (T.bal[a] + Amount(Of(a, TxOut[t]))) - Amount(Of(a, TxIn[t]))
    BY <1>4
  <2>2. T.bal[a] = Amount(Of(a, Made(X))) - Amount(Of(a, Used(X)))
    BY DEF AddressTables
  <2>3. /\ Amount(Of(a, Made(X) \cup TxOut[t])) = Amount(Of(a, Made(X))) + Amount(Of(a, TxOut[t]))
        /\ Amount(Of(a, Made(X))) \in Nat /\ Amount(Of(a, TxOut[t])) \in Nat
    BY <1>6, AmountOfJoin
  <2>4. /\ Amount(Of(a, Used(X) \cup TxIn[t])) = Amount(Of(a, Used(X))) + Amount(Of(a, TxIn[t]))
        /\ Amount(Of(a, Used(X))) \in Nat /\ Amount(Of(a, TxIn[t])) \in Nat
    BY <1>6, AmountOfJoin
  <2>5. PICK m \in Nat, u \in Nat, o \in Nat, i \in Nat :
           /\ m = Amount(Of(a, Made(X))) /\ u = Amount(Of(a, Used(X)))
           /\ o = Amount(Of(a, TxOut[t])) /\ i = Amount(Of(a, TxIn[t]))
    BY <2>3, <2>4
  <2>6. I.bal[a] = ((m - u) + o) - i
    BY <2>1, <2>2, <2>5
  <2>7. Amount(Of(a, Made(X \cup {t}))) = m + o /\ Amount(Of(a, Used(X \cup {t}))) = u + i
    BY <1>6, <2>3, <2>4, <2>5
  <2>8. ((m - u) + o) - i = (m + o) - (u + i)
    OBVIOUS
  <2> QED BY <2>6, <2>7, <2>8
<1>8. I.bal = [a \in Holder |-> Amount(Of(a, Made(X \cup {t}))) - Amount(Of(a, Used(X \cup {t})))]
  BY <1>4, <1>7
<1>9. ASSUME NEW a \in Holder, a \notin K1, a \notin K2
      PROVE  InfoFor(I, a) = InfoFor(T, a)
  <2>1. Of(a, TxOut[t]) = {} /\ Of(a, TxIn[t]) = {}
    BY <1>9 DEF Of
  <2>2. I.bal[a] = (T.bal[a] + 0) - 0
    BY <1>4, <2>1, NoAmount
  <2>3. T.bal[a] \in Int
    <3>1. Of(a, Made(X)) \in SUBSET Outpoint /\ Of(a, Used(X)) \in SUBSET Outpoint
      BY <1>6 DEF Of
    <3>2. T.bal[a] = Amount(Of(a, Made(X))) - Amount(Of(a, Used(X)))
      BY DEF AddressTables
    <3> QED BY <3>1, <3>2, AmountTotal
  <2>4. {r \in I.rows : r[1] = a} = {r \in T.rows : r[1] = a}
    <3>1. \A o \in TxOut[t] : <<HolderOf[o], t, FALSE, o>>[1] \in K1
      OBVIOUS
    <3>2. \A o \in TxIn[t] : <<HolderOf[o], t, TRUE, o>>[1] \in K2
      OBVIOUS
    <3>3. \A r \in I.rows : r \in T.rows \/ r[1] \in K1 \/ r[1] \in K2
      BY <1>4, <3>1, <3>2
    <3>4. T.rows \subseteq I.rows
      BY <1>4
    <3> QED BY <1>9, <3>3, <3>4
  <2>5. I.bal[a] = T.bal[a]
    BY <2>2, <2>3
  <2> QED BY <2>4, <2>5 DEF InfoFor
<1>10. I.adc \in Seq({InfoFor(I, a) : a \in Holder})
  <2> DEFINE E == {InfoFor(T, a) : a \in Holder}
             F == {e \in E : e.key \notin K1}
             G == {e \in F : e.key \notin K2}
             H == {InfoFor(I, a) : a \in Holder}
  <2>1. G \subseteq H
    <3> SUFFICES ASSUME NEW a \in Holder, InfoFor(T, a).key \notin K1, InfoFor(T, a).key \notin K2
                 PROVE  InfoFor(T, a) \in H
      OBVIOUS
    <3>1. InfoFor(T, a).key = a
      BY DEF InfoFor
    <3> HIDE DEF K1, K2
    <3> QED BY <1>9, <3>1
  <2>2. T.adc \in Seq(E)
    BY DEF AddressTables
  <2> HIDE DEF E, K1, K2
  <2>3. Forget(T.adc, K1) \in Seq(F)
    BY <2>2, Forgotten
  <2> HIDE DEF F
  <2>4. Forget(Forget(T.adc, K1), K2) \in Seq(G)
    BY <2>3, Forgotten
  <2>5. I.adc \in Seq(G)
    BY <1>4, <2>4
  <2> HIDE DEF G, H
  <2>6. I.adc \in Seq(H)
    BY <2>1, <2>5, SeqMonotonic
  <2> QED BY <2>6 DEF H
<1> QED BY <1>1, <1>5, <1>8, <1>10 DEF AddressTables

-----------------------------------------------------------------------------
\* From place to place.
LEMMA Onward ==
  ASSUME NEW n \in Nat, NEW Good, 0 \in Good, \A k \in 1..n : k - 1 \in Good => k \in Good
  PROVE  n \in Good
<1> DEFINE B == {k \in 0..n : k \notin Good}
<1> SUFFICES ASSUME B # {} PROVE FALSE
  OBVIOUS
<1>1. PICK k \in B : \A m \in B : ~(m < k)
  <2>1. B \in SUBSET Nat
    OBVIOUS
  <2> QED BY <2>1, SmallestNumber
<1>2. k \in 1..n /\ k - 1 \in 0..n /\ k - 1 < k
  BY <1>1
<1> QED BY <1>1, <1>2

\* The first k transactions of a block.
First(b, k) == {TxSeq[b][i] : i \in 1..k}

\* One at a time.
LEMMA FirstStep ==
  ASSUME NEW b \in Block, NEW n, n = Len(TxSeq[b])
  PROVE  /\ n \in Nat /\ First(b, 0) = {} /\ First(b, n) = BlockTxs(b)
         /\ \A k \in 1..n : /\ First(b, k) = First(b, k - 1) \cup {TxSeq[b][k]}
                            /\ TxSeq[b][k] \in BlockTxs(b) /\ First(b, k - 1) \subseteq BlockTxs(b)
                            /\ DupFree(b) => /\ TxSeq[b][k] \notin First(b, k - 1)
                                             /\ TxIn[TxSeq[b][k]] \cap Used(First(b, k - 1)) = {}
<1>1. n \in Nat
  BY DataAssumption, LenProperties DEF DataAssumption
<1>2. First(b, 0) = {} /\ First(b, n) = BlockTxs(b)
  BY DEF First, BlockTxs
<1>3. ASSUME NEW k \in 1..n
      PROVE  /\ First(b, k) = First(b, k - 1) \cup {TxSeq[b][k]}
             /\ TxSeq[b][k] \in BlockTxs(b) /\ First(b, k - 1) \subseteq BlockTxs(b)
             /\ DupFree(b) => /\ TxSeq[b][k] \notin First(b, k - 1)
                              /\ TxIn[TxSeq[b][k]] \cap Used(First(b, k - 1)) = {}
  <2>1. 1..k = 1..(k - 1) \cup {k} /\ 1..(k - 1) \subseteq 1..n /\ k \in 1..n
    BY <1>1
  <2>2. First(b, k) = First(b, k - 1) \cup {TxSeq[b][k]}
    BY <2>1 DEF First
  <2>3. TxSeq[b][k] \in BlockTxs(b) /\ First(b, k - 1) \subseteq BlockTxs(b)
    BY <2>1 DEF First, BlockTxs
  <2>4. ASSUME DupFree(b), NEW t \in First(b, k - 1)
        PROVE  t # TxSeq[b][k] /\ TxIn[TxSeq[b][k]] \cap TxIn[t] = {}
    <3>1. PICK i \in 1..(k - 1) : t = TxSeq[b][i]
      BY <2>4 DEF First
    <3>2. i \in 1..n /\ k \in 1..n /\ i # k
      BY <1>1, <2>1
    <3> QED BY <2>4, <3>1, <3>2 DEF DupFree
  <2> QED BY <2>2, <2>3, <2>4 DEF Used
<1> QED BY <1>1, <1>2, <1>3

\* A block comes in.
LEMMA BlockComesIn ==
  ASSUME NEW b \in NonGenesis, ValidBranch(b), NEW T, IsTables(T), NEW B, b \in B,
         TxTables(T, TxsIn(Anc[Parent[b]]), B)
  PROVE  /\ IsTables(IndexBlock(T, b)) /\ TxTables(IndexBlock(T, b), TxsIn(Anc[b]), B)
         /\ AddressTables(T, TxsIn(Anc[Parent[b]])) => AddressTables(IndexBlock(T, b), TxsIn(Anc[b]))
<1>1. PICK n : n = Len(TxSeq[b])
  OBVIOUS
<1>2. b \in Block /\ Parent[b] \in Block /\ Anc[b] = {b} \cup Anc[Parent[b]] /\ b \notin Anc[Parent[b]]
      /\ b # Genesis
  BY BranchStep
<1>3. DupFree(b) /\ ValidBranch(Parent[b])
  BY <1>2, OnOwnBranch, PrefixValid DEF ValidBranch, StatefulOK
<1>4. PICK X \in SUBSET Tx : X = TxsIn(Anc[Parent[b]])
  BY <1>2, Contents
<1>5. Used(X) \subseteq Made(X)
  BY <1>2, <1>3, <1>4, BranchSound
<1>6. \A t \in BlockTxs(b) : t \in Tx \ X /\ TxIn[t] \subseteq Made(X) /\ TxIn[t] \cap Used(X) = {}
  <2> SUFFICES ASSUME NEW t \in BlockTxs(b)
               PROVE  t \in Tx \ X /\ TxIn[t] \subseteq Made(X) /\ TxIn[t] \cap Used(X) = {}
    OBVIOUS
  <2>1. TxIn[t] \subseteq Made(X) /\ TxIn[t] \cap Used(X) = {}
    BY <1>2, <1>4, InputsBelow
  <2>2. t \notin X
    <3>1. \A x \in Anc[Parent[b]] \ {Genesis} : BlockTxs(x) \cap BlockTxs(b) = {}
      BY <1>2, IndexAssumption DEF IndexAssumption
    <3> QED BY <1>4, <3>1 DEF TxsIn
  <2> QED BY <1>2, <2>1, <2>2, Contents
<1>7. /\ n \in Nat /\ First(b, 0) = {} /\ First(b, n) = BlockTxs(b)
      /\ \A k \in 1..n : /\ First(b, k) = First(b, k - 1) \cup {TxSeq[b][k]}
                         /\ TxSeq[b][k] \in BlockTxs(b) /\ First(b, k - 1) \subseteq BlockTxs(b)
                         /\ TxSeq[b][k] \notin First(b, k - 1)
                         /\ TxIn[TxSeq[b][k]] \cap Used(First(b, k - 1)) = {}
  BY <1>1, <1>2, <1>3, FirstStep
<1> DEFINE S(k) == Stage("index tx", b, T, TxSeq[b], n, k)
           Good == {k \in 0..n : /\ IsTables(S(k)) /\ TxTables(S(k), X \cup First(b, k), B)
                                 /\ AddressTables(T, X) => AddressTables(S(k), X \cup First(b, k))}
<1>8. S(0) = T /\ \A k \in 1..n : S(k) = IndexOne(S(k - 1), TxSeq[b][k], b)
  <2>1. S(0) = T /\ \A k \in 1..n : S(k) = Work1("index tx", b, S(k - 1), TxSeq[b][k])
    <3>1. n \in Nat
      BY <1>7
    <3>2. PICK how : how = "index tx"
      OBVIOUS
    <3>3. PICK q : q = TxSeq[b]
      OBVIOUS
    <3>4. /\ Stage(how, b, T, q, n, 0) = T
          /\ \A k \in 1..n : Stage(how, b, T, q, n, k) = Work1(how, b, Stage(how, b, T, q, n, k - 1), q[k])
      BY <3>1, Stages
    <3> QED BY <3>2, <3>3, <3>4
  <2>2. \A V, x : Work1("index tx", b, V, x) = IndexOne(V, x, b)
    BY DEF Work1
  <2> HIDE DEF S
  <2> QED BY <2>1, <2>2
<1> HIDE DEF S
<1>9. 0 \in Good
  <2>1. X \cup First(b, 0) = X
    BY <1>7
  <2> QED BY <1>4, <1>7, <1>8, <2>1
<1>10. ASSUME NEW k \in 1..n, k - 1 \in Good PROVE k \in Good
  <2>1. PICK Y : Y = X \cup First(b, k - 1)
    OBVIOUS
  <2>2. PICK t : t = TxSeq[b][k]
    OBVIOUS
  <2>3. PICK U : U = S(k - 1)
    OBVIOUS
  <2>4. /\ IsTables(U) /\ TxTables(U, Y, B) /\ (AddressTables(T, X) => AddressTables(U, Y))
    BY <1>10, <2>1, <2>3
  <2>5. /\ First(b, k) = First(b, k - 1) \cup {t}
        /\ t \in BlockTxs(b) /\ First(b, k - 1) \subseteq BlockTxs(b)
        /\ t \notin First(b, k - 1)
        /\ TxIn[t] \cap Used(First(b, k - 1)) = {}
    BY <1>7, <2>2
  <2>6. Y \in SUBSET Tx /\ t \in Tx \ Y /\ X \cup First(b, k) = Y \cup {t}
    BY <1>6, <2>1, <2>5
  <2>7. Made(X) \subseteq Made(Y) /\ Used(Y) = Used(X) \cup Used(First(b, k - 1))
    BY <2>1 DEF Made, Used
  <2>8. Used(First(b, k - 1)) \subseteq Made(X)
    BY <1>6, <2>5 DEF Used
  <2>9. TxIn[t] \subseteq Made(Y) /\ Used(Y) \subseteq Made(Y) /\ TxIn[t] \cap Used(Y) = {}
    BY <1>5, <1>6, <2>5, <2>7, <2>8
  <2>10. IsTables(IndexOne(U, t, b)) /\ TxTables(IndexOne(U, t, b), Y \cup {t}, B)
    BY <2>4, <2>5, <2>6, <2>9, TxComesIn
  <2>11. AddressTables(T, X) => AddressTables(IndexOne(U, t, b), Y \cup {t})
    BY <2>4, <2>6, <2>9, AddressComesIn
  <2>12. S(k) = IndexOne(U, t, b)
    BY <1>8, <2>2, <2>3
  <2>13. k \in 0..n
    BY <1>7
  <2>14. PICK Z : Z = X \cup First(b, k)
    OBVIOUS
  <2>15. /\ IsTables(S(k)) /\ TxTables(S(k), Z, B)
         /\ AddressTables(T, X) => AddressTables(S(k), Z)
    BY <2>6, <2>10, <2>11, <2>12, <2>14
  <2> QED BY <2>13, <2>14, <2>15
<1>11. n \in Good
  <2> HIDE DEF Good
  <2> QED BY <1>7, <1>9, <1>10, Onward
<1>12. X \cup First(b, n) = TxsIn(Anc[b])
  BY <1>2, <1>4, <1>7 DEF TxsIn
<1>13. IndexBlock(T, b) = S(n)
  BY <1>1, <1>2, FoldsStaged DEF S
<1> QED BY <1>4, <1>11, <1>12, <1>13

\* A block of some blocks S of a valid branch goes out.
LEMMA BlockGoesOut ==
  ASSUME NEW c \in Block, ValidBranch(c), NEW S \in SUBSET Anc[c], NEW b \in S \ {Genesis},
         NEW T, IsTables(T), NEW B, TxTables(T, TxsIn(S), B)
  PROVE  IsTables(DeindexBlock(T, b)) /\ TxTables(DeindexBlock(T, b), TxsIn(S \ {b}), B)
<1>1. PICK n : n = Len(TxSeq[b])
  OBVIOUS
<1>2. b \in Block /\ DupFree(b)
  BY Contents DEF ValidBranch, StatefulOK
<1>3. PICK X : X = TxsIn(S)
  OBVIOUS
<1>4. X \subseteq TxsIn(Anc[c]) /\ X \in SUBSET Tx /\ BlockTxs(b) \subseteq X
  <2>1. X \subseteq TxsIn(Anc[c])
    BY <1>3 DEF TxsIn
  <2>2. TxsIn(Anc[c]) \subseteq Tx
    BY Contents
  <2> QED BY <1>3, <2>1, <2>2 DEF TxsIn
<1>5. \A Y \in SUBSET X : UsedOnce(Y)
  BY <1>4, BranchSound DEF UsedOnce
<1>6. TxsIn(S \ {b}) = X \ BlockTxs(b)
  <2>1. \A x \in S \ {Genesis, b} : BlockTxs(x) \cap BlockTxs(b) = {}
    BY IndexAssumption DEF IndexAssumption
  <2> QED BY <1>3, <2>1 DEF TxsIn
<1>7. /\ n \in Nat /\ First(b, 0) = {} /\ First(b, n) = BlockTxs(b)
      /\ \A k \in 1..n : /\ First(b, k) = First(b, k - 1) \cup {TxSeq[b][k]}
                         /\ TxSeq[b][k] \in BlockTxs(b)
                         /\ TxSeq[b][k] \notin First(b, k - 1)
  BY <1>1, <1>2, FirstStep
<1> DEFINE R(k) == Stage("deindex tx", b, T, TxSeq[b], n, k)
           Good == {k \in 0..n : IsTables(R(k)) /\ TxTables(R(k), X \ First(b, k), B)}
<1>8. R(0) = T /\ \A k \in 1..n : R(k) = DeindexTransaction(R(k - 1), TxSeq[b][k])
  <2>1. R(0) = T /\ \A k \in 1..n : R(k) = Work1("deindex tx", b, R(k - 1), TxSeq[b][k])
    <3>1. n \in Nat
      BY <1>7
    <3>2. PICK how : how = "deindex tx"
      OBVIOUS
    <3>3. PICK q : q = TxSeq[b]
      OBVIOUS
    <3>4. /\ Stage(how, b, T, q, n, 0) = T
          /\ \A k \in 1..n : Stage(how, b, T, q, n, k) = Work1(how, b, Stage(how, b, T, q, n, k - 1), q[k])
      BY <3>1, Stages
    <3> QED BY <3>2, <3>3, <3>4
  <2>2. \A V, x : Work1("deindex tx", b, V, x) = DeindexTransaction(V, x)
    BY DEF Work1
  <2> HIDE DEF R
  <2> QED BY <2>1, <2>2
<1> HIDE DEF R
<1>9. 0 \in Good
  <2>1. X \ First(b, 0) = X
    BY <1>7
  <2> QED BY <1>3, <1>7, <1>8, <2>1
<1>10. ASSUME NEW k \in 1..n, k - 1 \in Good PROVE k \in Good
  <2>1. PICK Y \in SUBSET X : Y = X \ First(b, k - 1)
    OBVIOUS
  <2>2. PICK t : t = TxSeq[b][k]
    OBVIOUS
  <2>3. PICK U : U = R(k - 1)
    OBVIOUS
  <2>4. IsTables(U) /\ TxTables(U, Y, B)
    BY <1>10, <2>1, <2>3
  <2>5. t \in Y /\ X \ First(b, k) = Y \ {t} /\ Y \in SUBSET Tx /\ UsedOnce(Y)
    BY <1>4, <1>5, <1>7, <2>1, <2>2
  <2>6. IsTables(DeindexTransaction(U, t)) /\ TxTables(DeindexTransaction(U, t), Y \ {t}, B)
    BY <2>4, <2>5, TxGoesOut
  <2>7. R(k) = DeindexTransaction(U, t)
    BY <1>8, <2>2, <2>3
  <2>8. k \in 0..n
    BY <1>7
  <2>9. PICK Z : Z = X \ First(b, k)
    OBVIOUS
  <2>10. IsTables(R(k)) /\ TxTables(R(k), Z, B)
    BY <2>5, <2>6, <2>7, <2>9
  <2> QED BY <2>8, <2>9, <2>10
<1>11. n \in Good
  <2> HIDE DEF Good
  <2> QED BY <1>7, <1>9, <1>10, Onward
<1>12. DeindexBlock(T, b) = R(n)
  BY <1>1, <1>2, FoldsStaged DEF R
<1> QED BY <1>6, <1>7, <1>11, <1>12

-----------------------------------------------------------------------------
\* Height in the chain, for what follows.
Tall(x) == Cardinality(Anc[x])

\* q lists blocks of S, the lower ones first.
Rising(q, n, S) == /\ q \in [1..n -> S]
                   /\ \A i, j \in 1..n : i < j => Tall(q[i]) < Tall(q[j])

\* On a branch some block is the highest of any.
LEMMA Highest ==
  ASSUME NEW b \in Block, NEW s \in SUBSET Anc[b], s # {}
  PROVE  \E x \in s : \A y \in s \ {x} : Tall(y) < Tall(x)
<1>1. \A x \in Anc[b] : Tall(x) \in Nat /\ Tall(x) <= Tall(b)
  <2> SUFFICES ASSUME NEW x \in Anc[b] PROVE Tall(x) \in Nat /\ Tall(x) <= Tall(b)
    OBVIOUS
  <2>1. Anc[x] \in SUBSET Anc[b] /\ IsFiniteSet(Anc[b])
    BY Contents, TreeAssumption DEF TreeAssumption
  <2> QED BY <2>1, FiniteParts DEF Tall
<1>2. b \in Anc[b]
  BY OnOwnBranch
<1> DEFINE N == {Tall(b) - Tall(x) : x \in s}
<1>3. N \in SUBSET Nat /\ N # {}
  BY <1>1, <1>2
<1>4. PICK x \in s : \A y \in s : ~(Tall(b) - Tall(y) < Tall(b) - Tall(x))
  <2>1. PICK n \in N : \A m \in N : ~(m < n)
    <3> HIDE DEF N
    <3> QED BY <1>3, SmallestNumber
  <2> QED BY <2>1
<1>5. ASSUME NEW y \in s \ {x} PROVE Tall(y) < Tall(x)
  <2>1. Tall(y) # Tall(x)
    BY HeightsDiffer DEF Tall
  <2>2. ~(Tall(b) - Tall(y) < Tall(b) - Tall(x))
    BY <1>4
  <2> QED BY <1>1, <1>2, <2>1, <2>2
<1> QED BY <1>5

\* Blocks of a branch can be listed from the lowest to the highest.
LEMMA CanBeListed ==
  ASSUME NEW b \in Block, NEW S \in SUBSET Anc[b]
  PROVE  \E q : Rising(q, Cardinality(S), S)
<1> DEFINE pick == [s \in SUBSET Anc[b] |-> CHOOSE x \in s : \A y \in s \ {x} : Tall(y) < Tall(x)]
           Good == {s \in SUBSET Anc[b] : \E q : Rising(q, Cardinality(s), s)}
<1>1. \A s \in SUBSET Anc[b] : s # {} => pick[s] \in s /\ \A y \in s \ {pick[s]} : Tall(y) < Tall(pick[s])
  BY Highest
<1> HIDE DEF pick
<1>2. Picks(pick, Anc[b]) /\ IsFiniteSet(Anc[b])
  BY <1>1, Contents DEF Picks
<1>3. {} \in Good
  <2>1. Cardinality({}) = 0
    BY FS_EmptySet
  <2>2. [i \in 1..0 |-> i] \in [1..0 -> {}]
    OBVIOUS
  <2>3. Rising([i \in 1..0 |-> i], 0, {})
    BY <2>2 DEF Rising
  <2> QED BY <2>1, <2>3
<1>4. ASSUME NEW s \in SUBSET Anc[b], s # {}, s \ {pick[s]} \in Good
      PROVE  s \in Good
  <2>1. PICK x \in s : x = pick[s] /\ \A y \in s \ {x} : Tall(y) < Tall(x)
    BY <1>1, <1>4
  <2>2. PICK m : m = Cardinality(s \ {x})
    OBVIOUS
  <2>3. PICK q : Rising(q, m, s \ {x})
    BY <1>4, <2>1, <2>2
  <2>4. m \in Nat /\ Cardinality(s) = m + 1
    <3>1. IsFiniteSet(s \ {x}) /\ x \notin s \ {x} /\ (s \ {x}) \cup {x} = s
      BY <1>2, FiniteParts
    <3>2. m \in Nat /\ Cardinality((s \ {x}) \cup {x}) = m + 1
      BY <2>2, <3>1, FS_AddElement, FS_CardinalityType
    <3> QED BY <3>1, <3>2
  <2> DEFINE r == [i \in 1..(m + 1) |-> IF i = m + 1 THEN x ELSE q[i]]
  <2>5. q \in [1..m -> s \ {x}] /\ \A i, j \in 1..m : i < j => Tall(q[i]) < Tall(q[j])
    BY <2>3 DEF Rising
  <2>6. r \in [1..(m + 1) -> s]
    BY <2>4, <2>5
  <2>7. ASSUME NEW i \in 1..(m + 1), NEW j \in 1..(m + 1), i < j
        PROVE  Tall(r[i]) < Tall(r[j])
    <3>1. i \in 1..m /\ r[i] = q[i] /\ q[i] \in s \ {x}
      BY <2>4, <2>5, <2>7
    <3>2. CASE j = m + 1
      BY <2>1, <3>1, <3>2
    <3>3. CASE j # m + 1
      BY <2>4, <2>5, <2>7, <3>1, <3>3
    <3> QED BY <3>2, <3>3
  <2> HIDE DEF r
  <2>8. Rising(r, Cardinality(s), s)
    BY <2>4, <2>6, <2>7 DEF Rising
  <2> QED BY <2>8
<1> HIDE DEF Good
<1>5. S \in Good
  BY <1>2, <1>3, <1>4, PartsInduction
<1> QED BY <1>5 DEF Good

\* q lists all the blocks S, each once.
Lists(q, n, S) == /\ n \in Nat /\ Rising(q, n, S)
                  /\ \A x \in S : \E i \in 1..n : x = q[i]
                  /\ \A i, j \in 1..n : q[i] = q[j] => i = j

\* Above lists the blocks it should.
LEMMA AboveIs ==
  ASSUME NEW b \in Block, NEW a \in Block
  PROVE  Lists(Above(b, a), Cardinality(Anc[b] \ Anc[a]), Anc[b] \ Anc[a])
<1> DEFINE p == Above(b, a)
           n == Cardinality(Anc[b] \ Anc[a])
<1> HIDE DEF p, n
<1>1. PICK S \in SUBSET Anc[b] : S = Anc[b] \ Anc[a]
  OBVIOUS
<1>2. IsFiniteSet(S) /\ n \in Nat
  BY <1>1, Contents, FiniteParts DEF n
<1>3. Rising(p, n, S)
  <2>1. PICK q : Rising(q, n, S)
    BY <1>1, CanBeListed DEF n
  <2>2. p = CHOOSE r \in [1..n -> S] : \A i, j \in 1..n : i < j => Tall(r[i]) < Tall(r[j])
    BY <1>1 DEF Above, Tall, p, n
  <2> QED BY <2>1, <2>2 DEF Rising
<1>4. \A x \in S : Tall(x) \in Nat
  <2>1. \A x \in S : x \in Block
    BY Contents
  <2> QED BY <2>1, Contents, FS_CardinalityType DEF Tall
<1>5. p \in [1..n -> S] /\ \A i, j \in 1..n : i < j => Tall(p[i]) < Tall(p[j])
  BY <1>3 DEF Rising
<1>6. ASSUME NEW i \in 1..n, NEW j \in 1..n, p[i] = p[j] PROVE i = j
  <2>1. PICK h \in Nat : h = Tall(p[i]) /\ h = Tall(p[j])
    BY <1>4, <1>5, <1>6
  <2>2. (i < j => h < h) /\ (j < i => h < h)
    BY <1>5, <2>1
  <2> QED BY <1>2, <2>2
<1>7. p \in Injection(1..n, S)
  BY <1>5, <1>6 DEF Injection, IsInjective
<1>8. Cardinality(1..n) = n
  BY <1>2, FS_Interval
<1>9. p \in Surjection(1..n, S)
  BY <1>1, <1>2, <1>7, <1>8, FS_Injection DEF n
<1>10. \A x \in S : \E i \in 1..n : x = p[i]
  BY <1>9 DEF Surjection
<1> QED BY <1>1, <1>2, <1>3, <1>6, <1>10 DEF p, n, Lists

\* The branch up to the k-th block of those.
Upto(C, p, k) == C \cup {p[i] : i \in 1..k}

\* p climbs from the branch C to b, block by block.
Climbs(p, n, C, b) ==
    /\ n \in Nat /\ p \in [1..n -> Anc[b]] /\ Upto(C, p, 0) = C /\ Upto(C, p, n) = Anc[b]
    /\ \A k \in 1..n : /\ p[k] \in NonGenesis /\ p[k] \in Anc[b]
                       /\ Anc[p[k]] = Upto(C, p, k)
                       /\ Anc[Parent[p[k]]] = Upto(C, p, k - 1)
                       /\ Upto(C, p, k) \ {p[k]} = Upto(C, p, k - 1)
                       /\ Upto(C, p, k) \subseteq Anc[b]

\* Above does, from the common part of two branches.
LEMMA BlockByBlock ==
  ASSUME NEW b \in Block, NEW a \in Block
  PROVE  Climbs(Above(b, a), Cardinality(Anc[b] \ Anc[a]), Anc[a] \cap Anc[b], b)
<1> DEFINE p == Above(b, a)
           n == Cardinality(Anc[b] \ Anc[a])
           C == Anc[a] \cap Anc[b]
<1> HIDE DEF p, n
<1>1. /\ n \in Nat /\ p \in [1..n -> Anc[b] \ Anc[a]]
      /\ \A i, j \in 1..n : i < j => Tall(p[i]) < Tall(p[j])
      /\ \A x \in Anc[b] \ Anc[a] : \E i \in 1..n : x = p[i]
      /\ \A i, j \in 1..n : p[i] = p[j] => i = j
  <2>1. PICK S : S = Anc[b] \ Anc[a]
    OBVIOUS
  <2>2. /\ n \in Nat /\ Rising(p, n, S)
        /\ \A x \in S : \E i \in 1..n : x = p[i]
        /\ \A i, j \in 1..n : p[i] = p[j] => i = j
    <3>1. Lists(p, n, Anc[b] \ Anc[a])
      BY AboveIs DEF p, n
    <3> QED BY <2>1, <3>1 DEF Lists
  <2> QED BY <2>1, <2>2 DEF Rising
<1>2. Upto(C, p, 0) = C
  BY DEF Upto
<1>3. Upto(C, p, n) = Anc[b]
  <2>1. \A i \in 1..n : p[i] \in Anc[b]
    BY <1>1
  <2>2. Upto(C, p, n) \subseteq Anc[b]
    BY <2>1 DEF Upto
  <2>3. ASSUME NEW x \in Anc[b] PROVE x \in Upto(C, p, n)
    <3>1. CASE x \in Anc[a]
      BY <3>1 DEF Upto
    <3>2. CASE x \notin Anc[a]
      <4>1. PICK i \in 1..n : x = p[i]
        BY <1>1, <3>2
      <4> QED BY <4>1 DEF Upto
    <3> QED BY <3>1, <3>2
  <2> QED BY <2>2, <2>3
<1>4. ASSUME NEW k \in 1..n
      PROVE  /\ p[k] \in NonGenesis /\ p[k] \in Anc[b]
             /\ Anc[p[k]] = Upto(C, p, k)
             /\ Anc[Parent[p[k]]] = Upto(C, p, k - 1)
             /\ Upto(C, p, k) \ {p[k]} = Upto(C, p, k - 1)
             /\ Upto(C, p, k) \subseteq Anc[b]
  <2>1. p[k] \in Anc[b] /\ p[k] \notin Anc[a]
    BY <1>1
  <2>2. p[k] \in NonGenesis /\ p[k] \in Block /\ Anc[p[k]] \subseteq Anc[b]
    BY <2>1, Contents, TreeAssumption DEF TreeAssumption, NonGenesis
  <2>3. \A x \in Anc[b] : Tall(x) \in Nat
    <3>1. \A x \in Anc[b] : x \in Block
      BY Contents
    <3> QED BY <3>1, Contents, FS_CardinalityType DEF Tall
  <2>4. ASSUME NEW y \in Anc[p[k]] PROVE y \in Upto(C, p, k)
    <3>1. CASE y \in Anc[a]
      BY <2>2, <3>1 DEF Upto
    <3>2. CASE y \notin Anc[a]
      <4>1. PICK i \in 1..n : y = p[i]
        BY <1>1, <2>2, <3>2
      <4>2. ~(k < i)
        <5> SUFFICES ASSUME k < i PROVE FALSE
          OBVIOUS
        <5>1. Tall(p[k]) < Tall(p[i])
          BY <1>1
        <5>2. y = p[k] \/ Tall(y) < Tall(p[k])
          BY <2>2, AncestorShorter DEF Tall
        <5>3. Tall(p[k]) \in Nat /\ Tall(p[i]) \in Nat
          BY <1>1, <2>3
        <5> QED BY <4>1, <5>1, <5>2, <5>3
      <4>3. i \in 1..k
        BY <1>1, <4>2
      <4> QED BY <4>1, <4>3 DEF Upto
    <3> QED BY <3>1, <3>2
  <2>5. ASSUME NEW i \in 1..k PROVE p[i] \in Anc[p[k]]
    <3>0. i \in 1..n
      BY <1>1
    <3>1. i \in 1..n /\ p[i] \in Anc[b]
      BY <1>1, <3>0
    <3>2. CASE i = k
      BY <2>2, <3>2, OnOwnBranch
    <3>3. CASE i # k
      <4>0. i < k
        BY <1>1, <3>3
      <4>1. Tall(p[i]) < Tall(p[k]) /\ p[i] # p[k]
        BY <1>1, <3>1, <3>3, <4>0
      <4>2. CASE p[k] \in Anc[p[i]]
        <5>1. Tall(p[k]) < Tall(p[i])
          BY <3>1, <4>1, <4>2, Contents, AncestorShorter DEF Tall
        <5> QED BY <2>1, <2>3, <3>1, <4>1, <5>1
      <4> QED BY <2>1, <3>1, <4>2, Linear
    <3> QED BY <3>2, <3>3
  <2>6. ASSUME NEW y \in C PROVE y \in Anc[p[k]]
    <3>1. p[k] \in Anc[y] => p[k] \in Anc[a]
      BY TreeAssumption DEF TreeAssumption
    <3> QED BY <2>1, <3>1, Linear
  <2>7. Anc[p[k]] = Upto(C, p, k)
    BY <2>4, <2>5, <2>6 DEF Upto
  <2>8. Upto(C, p, k) \ {p[k]} = Upto(C, p, k - 1)
    <3>1. 1..k = 1..(k - 1) \cup {k} /\ k \notin 1..(k - 1) /\ 1..(k - 1) \subseteq 1..n
      BY <1>1
    <3>2. \A i \in 1..(k - 1) : p[i] # p[k]
      BY <1>1, <3>1
    <3>3. p[k] \notin C
      BY <2>1
    <3> QED BY <3>1, <3>2, <3>3 DEF Upto
  <2>9. Anc[Parent[p[k]]] = Anc[p[k]] \ {p[k]}
    BY <2>2, BranchStep
  <2> QED BY <2>1, <2>2, <2>7, <2>8, <2>9
<1>5. p \in [1..n -> Anc[b]]
  BY <1>1
<1> HIDE DEF C
<1>6. Climbs(p, n, C, b)
  BY <1>1, <1>2, <1>3, <1>4, <1>5 DEF Climbs
<1> QED BY <1>6 DEF p, n, C

\* The blocks of a branch that another lacks come in.
LEMMA BlocksComeIn ==
  ASSUME NEW b \in Block, NEW a \in Block, ValidBranch(b), NEW T, IsTables(T),
         NEW B, Anc[b] \ {Genesis} \subseteq B, TxTables(T, TxsIn(Anc[a] \cap Anc[b]), B)
  PROVE  LET F == FoldLeft(IndexBlock, T, Above(b, a))
         IN  IsTables(F) /\ TxTables(F, TxsIn(Anc[b]), B)
<1>1. PICK p, n, C : p = Above(b, a) /\ n = Cardinality(Anc[b] \ Anc[a]) /\ C = Anc[a] \cap Anc[b]
  OBVIOUS
<1>2. Climbs(p, n, C, b)
  BY <1>1, BlockByBlock
<1>3. n \in Nat /\ DOMAIN p = 1..n /\ Upto(C, p, 0) = C /\ Upto(C, p, n) = Anc[b]
  BY <1>2 DEF Climbs
<1>4. PICK how : how = "index block"
  OBVIOUS
<1> DEFINE S(k) == Stage(how, Genesis, T, p, n, k)
           Good == {k \in 0..n : IsTables(S(k)) /\ TxTables(S(k), TxsIn(Upto(C, p, k)), B)}
<1>5. S(0) = T /\ \A k \in 1..n : S(k) = IndexBlock(S(k - 1), p[k])
  <2>1. S(0) = T /\ \A k \in 1..n : S(k) = Work1(how, Genesis, S(k - 1), p[k])
    <3>1. n \in Nat
      BY <1>3
    <3>2. PICK g : g = Genesis
      OBVIOUS
    <3>3. /\ Stage(how, g, T, p, n, 0) = T
          /\ \A k \in 1..n : Stage(how, g, T, p, n, k) = Work1(how, g, Stage(how, g, T, p, n, k - 1), p[k])
      BY <3>1, Stages
    <3> QED BY <3>2, <3>3
  <2>2. \A V, x : Work1(how, Genesis, V, x) = IndexBlock(V, x)
    BY <1>4 DEF Work1
  <2> HIDE DEF S
  <2> QED BY <2>1, <2>2
<1> HIDE DEF S
<1>6. 0 \in Good
  <2>1. IsTables(S(0)) /\ TxTables(S(0), TxsIn(Upto(C, p, 0)), B)
    BY <1>1, <1>3, <1>5
  <2> QED BY <1>3, <2>1
<1>7. ASSUME NEW k \in 1..n, k - 1 \in Good PROVE k \in Good
  <2>1. PICK x : x = p[k]
    OBVIOUS
  <2>2. PICK V : V = S(k - 1)
    OBVIOUS
  <2>3. /\ x \in NonGenesis /\ x \in Anc[b] /\ Anc[x] = Upto(C, p, k)
        /\ Anc[Parent[x]] = Upto(C, p, k - 1) /\ Upto(C, p, k) \subseteq Anc[b]
    BY <1>2, <2>1 DEF Climbs
  <2>4. IsTables(V) /\ TxTables(V, TxsIn(Anc[Parent[x]]), B)
    BY <1>7, <2>2, <2>3
  <2>5. ValidBranch(x)
    BY <2>3 DEF ValidBranch
  <2>6. x \in B
    BY <2>3 DEF NonGenesis
  <2>7. IsTables(IndexBlock(V, x)) /\ TxTables(IndexBlock(V, x), TxsIn(Anc[x]), B)
    BY <2>3, <2>4, <2>5, <2>6, BlockComesIn
  <2>8. S(k) = IndexBlock(V, x)
    BY <1>5, <2>1, <2>2
  <2>9. PICK Z : Z = Upto(C, p, k)
    OBVIOUS
  <2>10. IsTables(S(k)) /\ TxTables(S(k), TxsIn(Z), B)
    BY <2>3, <2>7, <2>8, <2>9
  <2>11. k \in 0..n
    BY <1>3
  <2> QED BY <2>9, <2>10, <2>11
<1>8. n \in Good
  <2> HIDE DEF Good
  <2> QED BY <1>3, <1>6, <1>7, Onward
<1>9. FoldLeft(IndexBlock, T, p) = S(n)
  BY <1>3, <1>4, BlocksStaged DEF S
<1> QED BY <1>1, <1>3, <1>8, <1>9

\* They go out, the highest first.
LEMMA BlocksGoOut ==
  ASSUME NEW b \in Block, NEW a \in Block, ValidBranch(b), NEW T, IsTables(T),
         NEW B, TxTables(T, TxsIn(Anc[b]), B)
  PROVE  LET F == FoldLeft(DeindexBlock, T, Reverse(Above(b, a)))
         IN  IsTables(F) /\ TxTables(F, TxsIn(Anc[a] \cap Anc[b]), B)
<1>1. PICK p, n, C : p = Above(b, a) /\ n = Cardinality(Anc[b] \ Anc[a]) /\ C = Anc[a] \cap Anc[b]
  OBVIOUS
<1>2. Climbs(p, n, C, b)
  BY <1>1, BlockByBlock
<1>3. n \in Nat /\ p \in [1..n -> Anc[b]] /\ Upto(C, p, 0) = C /\ Upto(C, p, n) = Anc[b]
  BY <1>2 DEF Climbs
<1>4. PICK q : q = Reverse(p)
  OBVIOUS
<1>5. DOMAIN q = 1..n /\ \A i \in 1..n : q[i] = p[(n - i) + 1]
  <2>1. p \in Seq(Anc[b])
    BY <1>3, SeqDef
  <2>2. Len(p) = n
    BY <1>3, <2>1, LenProperties
  <2> QED BY <1>4, <2>2 DEF Reverse
<1>6. PICK how : how = "deindex block"
  OBVIOUS
<1> DEFINE S(k) == Stage(how, Genesis, T, q, n, k)
           Good == {k \in 0..n : IsTables(S(k)) /\ TxTables(S(k), TxsIn(Upto(C, p, n - k)), B)}
<1>7. S(0) = T /\ \A k \in 1..n : S(k) = DeindexBlock(S(k - 1), q[k])
  <2>1. S(0) = T /\ \A k \in 1..n : S(k) = Work1(how, Genesis, S(k - 1), q[k])
    <3>1. n \in Nat
      BY <1>3
    <3>2. PICK g : g = Genesis
      OBVIOUS
    <3>3. /\ Stage(how, g, T, q, n, 0) = T
          /\ \A k \in 1..n : Stage(how, g, T, q, n, k) = Work1(how, g, Stage(how, g, T, q, n, k - 1), q[k])
      BY <3>1, Stages
    <3> QED BY <3>2, <3>3
  <2>2. \A V, x : Work1(how, Genesis, V, x) = DeindexBlock(V, x)
    BY <1>6 DEF Work1
  <2> HIDE DEF S
  <2> QED BY <2>1, <2>2
<1> HIDE DEF S
<1>8. 0 \in Good
  <2>1. n - 0 = n
    BY <1>3
  <2> QED BY <1>3, <1>7, <2>1
<1>9. ASSUME NEW k \in 1..n, k - 1 \in Good PROVE k \in Good
  <2>1. PICK i : i = (n - k) + 1
    OBVIOUS
  <2>2. i \in 1..n /\ i = n - (k - 1) /\ i - 1 = n - k /\ k \in 0..n
    BY <1>3, <2>1
  <2>3. PICK x : x = q[k]
    OBVIOUS
  <2>4. x = p[i]
    BY <1>5, <2>1, <2>3
  <2>5. PICK V : V = S(k - 1)
    OBVIOUS
  <2>6. PICK Z, Y : Z = Upto(C, p, i) /\ Y = Upto(C, p, n - k)
    OBVIOUS
  <2>7. /\ x \in Block /\ x # Genesis /\ x \in Z /\ Z \ {x} = Y /\ Z \in SUBSET Anc[b]
    <3>1. /\ x \in NonGenesis /\ Anc[x] = Z
          /\ Z \ {x} = Upto(C, p, i - 1) /\ Z \subseteq Anc[b]
      BY <1>2, <2>2, <2>4, <2>6 DEF Climbs
    <3> QED BY <2>2, <2>6, <3>1, OnOwnBranch DEF NonGenesis
  <2>8. IsTables(V) /\ TxTables(V, TxsIn(Z), B)
    BY <1>9, <2>2, <2>5, <2>6
  <2>9. IsTables(DeindexBlock(V, x)) /\ TxTables(DeindexBlock(V, x), TxsIn(Z \ {x}), B)
    BY <2>7, <2>8, BlockGoesOut
  <2>10. S(k) = DeindexBlock(V, x)
    BY <1>7, <2>3, <2>5
  <2>11. IsTables(S(k)) /\ TxTables(S(k), TxsIn(Y), B)
    BY <2>7, <2>9, <2>10
  <2> QED BY <2>2, <2>6, <2>11
<1>10. n \in Good
  <2> HIDE DEF Good
  <2> QED BY <1>3, <1>8, <1>9, Onward
<1>11. n - n = 0
  BY <1>3
<1>12. FoldLeft(DeindexBlock, T, q) = S(n)
  BY <1>3, <1>5, <1>6, BlocksStaged DEF S
<1> QED BY <1>1, <1>3, <1>4, <1>10, <1>11, <1>12

\* A transaction of a branch is in no other block of it.
LEMMA AtHome ==
  ASSUME NEW c \in Block, NEW S \in SUBSET Anc[c], NEW T, NEW D, S \ {Genesis} \subseteq D,
         TxTables(T, TxsIn(S), Anc[c] \ {Genesis})
  PROVE  TxTables(T, TxsIn(S), D)
<1>1. PICK X : X = TxsIn(S)
  OBVIOUS
<1>2. T.idx \in [X -> Anc[c] \ {Genesis}] /\ \A t \in X : t \in BlockTxs(T.idx[t])
  BY <1>1 DEF TxTables
<1>3. ASSUME NEW t \in X PROVE T.idx[t] \in D
  <2>1. PICK x \in S \ {Genesis} : t \in BlockTxs(x)
    BY <1>1 DEF TxsIn
  <2>2. T.idx[t] \in Anc[c] \ {Genesis} /\ t \in BlockTxs(T.idx[t])
    BY <1>2
  <2>3. T.idx[t] = x
    BY <2>1, <2>2, IndexAssumption DEF IndexAssumption
  <2> QED BY <2>1, <2>3
<1>4. T.idx \in [X -> D]
  BY <1>2, <1>3
<1> QED BY <1>1, <1>4 DEF TxTables

-----------------------------------------------------------------------------
\* The total of some rows, and the rows that an address has for the outputs and
\* for the inputs of transactions.
RowSum(R) == MapThenSumSet(LAMBDA r : AmountOf[r[4]], R)
Gains(a, X) == {r \in RowsFor(X) : r[1] = a /\ ~r[3]}
Pays(a, X) == {r \in RowsFor(X) : r[1] = a /\ r[3]}

\* Rows about different outpoints are finitely many.
LEMMA FewRows ==
  ASSUME NEW R \in SUBSET Row, \A r, s \in R : r[4] = s[4] => r = s
  PROVE  RowSum(R) = Amount(PointsOf(R))
<1> DEFINE f == [r \in R |-> r[4]]
<1>1. f \in [R -> Outpoint]
  BY DEF Row
<1>2. f \in Injection(R, Outpoint)
  BY <1>1 DEF Injection, IsInjective
<1>3. IsFiniteSet(R)
  <2> HIDE DEF f
  <2> QED BY <1>2, FS_Injection, IndexAssumption DEF IndexAssumption
<1> QED BY <1>3, RowsAmount DEF RowSum

\* What an address gains and pays by transactions.
LEMMA RowsWorth ==
  ASSUME NEW X \in SUBSET Tx, UsedOnce(X), NEW a \in Holder
  PROVE  /\ RowSum(Gains(a, X)) = Amount(Of(a, Made(X)))
         /\ RowSum(Pays(a, X)) = Amount(Of(a, Used(X)))
<1>1. \A r \in RowsFor(X) : /\ r \in Row /\ r[2] \in X /\ r[1] = HolderOf[r[4]] /\ r[3] \in BOOLEAN
                            /\ r = <<r[1], r[2], r[3], r[4]>>
  BY DEF RowsFor, Row
<1>2. \A r \in Gains(a, X) : r[3] = FALSE /\ r[1] = a /\ r[4] \in TxOut[r[2]] /\ r \in RowsFor(X)
  BY <1>1 DEF Gains, RowsFor
<1>3. \A r \in Pays(a, X) : r[3] = TRUE /\ r[1] = a /\ r[4] \in TxIn[r[2]] /\ r \in RowsFor(X)
  BY <1>1 DEF Pays, RowsFor
<1>4. RowSum(Gains(a, X)) = Amount(PointsOf(Gains(a, X)))
  <2>1. Gains(a, X) \in SUBSET Row
    BY <1>1, <1>2
  <2>2. ASSUME NEW r \in Gains(a, X), NEW s \in Gains(a, X), r[4] = s[4] PROVE r = s
    <3>1. r[2] = s[2]
      <4>1. r[2] \in Tx /\ s[2] \in Tx /\ r[4] \in TxOut[r[2]] /\ r[4] \in TxOut[s[2]]
        BY <1>1, <1>2, <2>2
      <4> QED BY <4>1, Contents
    <3> QED BY <1>1, <1>2, <2>2, <3>1
  <2> QED BY <2>1, <2>2, FewRows
<1>5. RowSum(Pays(a, X)) = Amount(PointsOf(Pays(a, X)))
  <2>1. Pays(a, X) \in SUBSET Row
    BY <1>1, <1>3
  <2>2. ASSUME NEW r \in Pays(a, X), NEW s \in Pays(a, X), r[4] = s[4] PROVE r = s
    <3>1. r[2] = s[2]
      <4>1. r[2] \in X /\ s[2] \in X /\ r[4] \in TxIn[r[2]] /\ r[4] \in TxIn[s[2]]
        BY <1>1, <1>3, <2>2
      <4> QED BY <4>1 DEF UsedOnce
    <3> QED BY <1>1, <1>3, <2>2, <3>1
  <2> QED BY <2>1, <2>2, FewRows
<1>6. PointsOf(Gains(a, X)) = Of(a, Made(X))
  <2>1. ASSUME NEW r \in Gains(a, X) PROVE r[4] \in Of(a, Made(X))
    BY <1>1, <1>2 DEF Of, Made
  <2>2. ASSUME NEW o \in Of(a, Made(X)) PROVE o \in PointsOf(Gains(a, X))
    <3>1. PICK t \in X : o \in TxOut[t]
      BY DEF Of, Made
    <3>2. PICK r : r = <<a, t, FALSE, o>>
      OBVIOUS
    <3>3. r \in Row /\ r[1] = a /\ r[2] = t /\ r[3] = FALSE /\ r[4] = o
      <4>1. t \in Tx /\ o \in Outpoint
        BY <3>1, Contents
      <4> QED BY <3>2, <4>1 DEF Row
    <3>4. HolderOf[o] = a
      BY DEF Of
    <3>5. r \in Gains(a, X)
      BY <3>1, <3>3, <3>4 DEF Gains, RowsFor
    <3> QED BY <3>3, <3>5 DEF PointsOf
  <2> QED BY <2>1, <2>2 DEF PointsOf
<1>7. PointsOf(Pays(a, X)) = Of(a, Used(X))
  <2>1. ASSUME NEW r \in Pays(a, X) PROVE r[4] \in Of(a, Used(X))
    BY <1>1, <1>3 DEF Of, Used
  <2>2. ASSUME NEW o \in Of(a, Used(X)) PROVE o \in PointsOf(Pays(a, X))
    <3>1. PICK t \in X : o \in TxIn[t]
      BY DEF Of, Used
    <3>2. PICK r : r = <<a, t, TRUE, o>>
      OBVIOUS
    <3>3. r \in Row /\ r[1] = a /\ r[2] = t /\ r[3] = TRUE /\ r[4] = o
      <4>1. t \in Tx /\ o \in Outpoint
        BY <3>1, Contents
      <4> QED BY <3>2, <4>1 DEF Row
    <3>4. HolderOf[o] = a
      BY DEF Of
    <3>5. r \in Pays(a, X)
      BY <3>1, <3>3, <3>4 DEF Pays, RowsFor
    <3> QED BY <3>3, <3>5 DEF PointsOf
  <2> QED BY <2>1, <2>2 DEF PointsOf
<1> QED BY <1>4, <1>5, <1>6, <1>7

\* A rebuilt address index has the rows of the indexed transactions.
LEMMA RowsRebuilt ==
  ASSUME NEW T, NEW X \in SUBSET Tx, NEW B, TxTables(T, X, B), Used(X) \subseteq Made(X)
  PROVE  RowsOf(T) = RowsFor(X)
<1>1. DOMAIN T.idx = X /\ DOMAIN T.outs = Made(X)
      /\ T.ins = {r \in Tx \X Outpoint : r[1] \in X /\ r[2] \in TxIn[r[1]]}
  BY DEF TxTables, Marked
<1> DEFINE by(o) == CHOOSE t \in X : o \in TxOut[t]
           O == {<<HolderOf[o], by(o), FALSE, o>> : o \in Made(X)}
           I == {<<HolderOf[r[2]], r[1], TRUE, r[2]>> : r \in T.ins}
<1>2. \A o \in Made(X) : \E t \in X : o \in TxOut[t]
  BY DEF Made
<1>3. {x \in T.ins : x[1] \in DOMAIN T.idx /\ x[2] \in DOMAIN T.outs} = T.ins
  <2>1. \A x \in T.ins : x[1] \in X /\ x[2] \in Used(X)
    BY <1>1 DEF Used
  <2> QED BY <1>1, <2>1
<1>4. {p \in DOMAIN T.outs : \E t \in DOMAIN T.idx : p \in TxOut[t]} = Made(X)
  BY <1>1, <1>2
<1>5. RowsOf(T) = O \cup I
  <2> DEFINE by1(o) == CHOOSE t \in DOMAIN T.idx : o \in TxOut[t]
             P == {p \in DOMAIN T.outs : \E t \in DOMAIN T.idx : p \in TxOut[t]}
             Q == {x \in T.ins : x[1] \in DOMAIN T.idx /\ x[2] \in DOMAIN T.outs}
  <2>1. RowsOf(T) = {<<HolderOf[o], by1(o), FALSE, o>> : o \in P}
                    \cup {<<HolderOf[r[2]], r[1], TRUE, r[2]>> : r \in Q}
    BY DEF RowsOf
  <2>2. P = Made(X) /\ Q = T.ins
    BY <1>3, <1>4
  <2>3. \A o : by1(o) = by(o)
    BY <1>1
  <2> HIDE DEF by1, by, P, Q
  <2> QED BY <2>1, <2>2, <2>3
<1>6. \A o \in Made(X) : by(o) \in X /\ o \in TxOut[by(o)]
  BY <1>2
<1> HIDE DEF by
<1>7. \A o \in Outpoint : HolderOf[o] \in Holder
  BY IndexAssumption DEF IndexAssumption
<1>8. ASSUME NEW r \in O PROVE r \in RowsFor(X)
  <2>1. PICK o \in Made(X) : r = <<HolderOf[o], by(o), FALSE, o>>
    OBVIOUS
  <2>2. o \in Outpoint /\ by(o) \in X /\ o \in TxOut[by(o)]
    BY <1>6, Contents
  <2>3. r \in Row /\ r[1] = HolderOf[o] /\ r[2] = by(o) /\ r[3] = FALSE /\ r[4] = o
    BY <1>7, <2>1, <2>2 DEF Row
  <2> QED BY <2>2, <2>3 DEF RowsFor
<1>9. ASSUME NEW r \in I PROVE r \in RowsFor(X)
  <2>1. PICK x \in T.ins : r = <<HolderOf[x[2]], x[1], TRUE, x[2]>>
    OBVIOUS
  <2>2. x[2] \in Outpoint /\ x[1] \in X /\ x[2] \in TxIn[x[1]]
    BY <1>1
  <2>3. r \in Row /\ r[1] = HolderOf[x[2]] /\ r[2] = x[1] /\ r[3] = TRUE /\ r[4] = x[2]
    BY <1>7, <2>1, <2>2 DEF Row
  <2> QED BY <2>2, <2>3 DEF RowsFor
<1>10. ASSUME NEW r \in RowsFor(X) PROVE r \in O \cup I
  <2>1. /\ r \in Row /\ r[2] \in X /\ r[1] = HolderOf[r[4]] /\ r[3] \in BOOLEAN
        /\ r = <<r[1], r[2], r[3], r[4]>> /\ r[4] \in Outpoint
    BY DEF RowsFor, Row
  <2>2. CASE r[3] = TRUE
    <3>1. r[4] \in TxIn[r[2]]
      BY <2>2 DEF RowsFor
    <3>2. PICK x : x = <<r[2], r[4]>>
      OBVIOUS
    <3>3. x \in Tx \X Outpoint /\ x[1] = r[2] /\ x[2] = r[4]
      BY <2>1, <3>2
    <3>4. x \in T.ins
      BY <1>1, <2>1, <3>1, <3>3
    <3>5. r = <<HolderOf[x[2]], x[1], TRUE, x[2]>>
      BY <2>1, <2>2, <3>3
    <3> QED BY <3>4, <3>5
  <2>3. CASE r[3] = FALSE
    <3>1. r[4] \in TxOut[r[2]] /\ r[4] \in Made(X)
      BY <2>1, <2>3 DEF RowsFor, Made
    <3>2. by(r[4]) = r[2]
      <4>1. by(r[4]) \in Tx /\ r[4] \in TxOut[by(r[4])] /\ r[2] \in Tx
        BY <1>6, <2>1, <3>1
      <4> QED BY <3>1, <4>1, Contents
    <3>3. r = <<HolderOf[r[4]], by(r[4]), FALSE, r[4]>>
      BY <2>1, <2>3, <3>2
    <3> QED BY <3>1, <3>3
  <2> QED BY <2>1, <2>2, <2>3
<1> HIDE DEF O, I
<1> QED BY <1>5, <1>8, <1>9, <1>10

\* A rebuilt address index is right.
LEMMA Rebuilt ==
  ASSUME NEW T, IsTables(T), NEW X \in SUBSET Tx, NEW B, TxTables(T, X, B),
         Used(X) \subseteq Made(X), UsedOnce(X)
  PROVE  IsTables(Rebuild(T)) /\ TxTables(Rebuild(T), X, B) /\ AddressTables(Rebuild(T), X)
<1>1. PICK R : R = Rebuild(T)
  OBVIOUS
<1>2. RowsOf(T) = RowsFor(X)
  BY RowsRebuilt
<1> DEFINE bal == [a \in Holder |-> SumRows({r \in RowsFor(X) : r[1] = a})]
<1>3. R = [idx |-> T.idx, ins |-> T.ins, outs |-> T.outs, rows |-> RowsFor(X),
           bal |-> bal, txc |-> T.txc, adc |-> <<>>]
  BY <1>1, <1>2 DEF Rebuild, IsTables
<1>4. ASSUME NEW a \in Holder
      PROVE  SumRows({r \in RowsFor(X) : r[1] = a}) = Amount(Of(a, Made(X))) - Amount(Of(a, Used(X)))
  <2>1. PICK rows : rows = {r \in RowsFor(X) : r[1] = a}
    OBVIOUS
  <2>2. {r \in rows : ~r[3]} = Gains(a, X) /\ {r \in rows : r[3]} = Pays(a, X)
    BY <2>1 DEF Gains, Pays
  <2>3. SumRows(rows) = RowSum({r \in rows : ~r[3]}) - RowSum({r \in rows : r[3]})
    BY DEF SumRows, RowSum
  <2>4. /\ RowSum(Gains(a, X)) = Amount(Of(a, Made(X)))
        /\ RowSum(Pays(a, X)) = Amount(Of(a, Used(X)))
    BY RowsWorth
  <2> QED BY <2>1, <2>2, <2>3, <2>4
<1>5. bal = [a \in Holder |-> Amount(Of(a, Made(X))) - Amount(Of(a, Used(X)))]
  BY <1>4
<1> HIDE DEF bal
<1>6. /\ IsTables(R) /\ R.rows = RowsFor(X) /\ R.bal = bal /\ R.adc = <<>>
      /\ R.idx = T.idx /\ R.ins = T.ins /\ R.outs = T.outs /\ R.txc = T.txc
  BY <1>3 DEF IsTables
<1>7. R.adc \in Seq({InfoFor(R, a) : a \in Holder})
  BY <1>6, EmptySeq
<1>8. TxTables(R, X, B)
  BY <1>6 DEF TxTables
<1>9. AddressTables(R, X)
  BY <1>5, <1>6, <1>7 DEF AddressTables
<1> QED BY <1>1, <1>6, <1>8, <1>9

\* A reorganisation leaves both indexes right.
LEMMA Reconciled ==
  ASSUME NEW from \in Block, ValidBranch(from), NEW to \in Block, ValidBranch(to),
         NEW T, IsTables(T), TxTables(T, TxsIn(Anc[from]), Anc[from] \ {Genesis})
  PROVE  LET R == Reconcile(T, from, to)
         IN  /\ IsTables(R) /\ TxTables(R, TxsIn(Anc[to]), Anc[to] \ {Genesis})
             /\ AddressTables(R, TxsIn(Anc[to]))
<1>1. PICK F : F = FoldLeft(DeindexBlock, T, Reverse(Above(from, to)))
  OBVIOUS
<1>2. PICK G : G = FoldLeft(IndexBlock, F, Above(to, from))
  OBVIOUS
<1>3. PICK D, E : D = Anc[from] \ {Genesis} /\ E = Anc[to] \ {Genesis}
  OBVIOUS
<1>4. IsTables(F) /\ TxTables(F, TxsIn(Anc[to] \cap Anc[from]), D)
  BY <1>1, <1>3, BlocksGoOut
<1>5. Anc[to] \cap Anc[from] = Anc[from] \cap Anc[to]
  OBVIOUS
<1>6. PICK C \in SUBSET Anc[from] : C = Anc[from] \cap Anc[to]
  OBVIOUS
<1>7. TxTables(F, TxsIn(C), E)
  <2>1. TxTables(F, TxsIn(C), Anc[from] \ {Genesis})
    BY <1>3, <1>4, <1>5, <1>6
  <2>2. C \ {Genesis} \subseteq E
    BY <1>3, <1>6
  <2> QED BY <2>1, <2>2, AtHome
<1>8. IsTables(G) /\ TxTables(G, TxsIn(Anc[to]), E)
  <2>1. Anc[to] \ {Genesis} \subseteq E /\ TxTables(F, TxsIn(Anc[from] \cap Anc[to]), E)
    BY <1>3, <1>6, <1>7
  <2> QED BY <1>2, <1>4, <2>1, BlocksComeIn
<1>9. PICK X \in SUBSET Tx : X = TxsIn(Anc[to])
  BY Contents
<1>10. Used(X) \subseteq Made(X) /\ UsedOnce(X)
  BY <1>9, BranchSound
<1>11. IsTables(Rebuild(G)) /\ TxTables(Rebuild(G), X, E) /\ AddressTables(Rebuild(G), X)
  BY <1>8, <1>9, <1>10, Rebuilt
<1>12. Reconcile(T, from, to) = Rebuild(G)
  BY <1>1, <1>2 DEF Reconcile
<1> QED BY <1>3, <1>9, <1>11, <1>12

-----------------------------------------------------------------------------
\* Both indexes say what the transactions of the chain do.
IndexesInv ==
    /\ chainTip \in Block /\ ValidBranch(chainTip)
    /\ TxTables(Tables, TxsIn(Anc[chainTip]), Anc[chainTip] \ {Genesis})
    /\ AddressTables(Tables, TxsIn(Anc[chainTip]))

\* The fields of the tables.
LEMMA TablesAre ==
  /\ IsTables(Tables) /\ Tables.idx = txIndex /\ Tables.ins = txInputs /\ Tables.outs = txOutputs
  /\ Tables.rows = addressTxs /\ Tables.bal = balances /\ Tables.txc = txCache
  /\ Tables.adc = infoCache
  BY DEF Tables, IsTables

\* What the tables become.
LEMMA TablesBecome ==
  ASSUME NEW T, IsTables(T), Become(T)
  PROVE  Tables' = T
<1>1. Tables' = [idx |-> txIndex', ins |-> txInputs', outs |-> txOutputs',
                 rows |-> addressTxs', bal |-> balances', txc |-> txCache', adc |-> infoCache']
  BY DEF Tables
<1>2. Tables' = [idx |-> T.idx, ins |-> T.ins, outs |-> T.outs, rows |-> T.rows,
                 bal |-> T.bal, txc |-> T.txc, adc |-> T.adc]
  BY <1>1 DEF Become
<1> QED BY <1>2 DEF IsTables

\* Empty indexes are right for the genesis block, whose transactions are not
\* indexed.
LEMMA IndexesStart == IndexInit => IndexesInv
<1> SUFFICES ASSUME IndexInit PROVE IndexesInv
  OBVIOUS
<1>1. /\ chainTip = Genesis /\ txIndex = << >> /\ txInputs = {} /\ txOutputs = << >>
      /\ addressTxs = {} /\ balances = [a \in Holder |-> 0]
      /\ txCache = <<>> /\ infoCache = <<>>
  BY DEF IndexInit
<1>2. Genesis \in Block /\ Anc[Genesis] = {Genesis}
  BY TreeAssumption DEF TreeAssumption
<1>3. ValidBranch(chainTip) /\ TxsIn(Anc[chainTip]) = {} /\ Anc[chainTip] \ {Genesis} = {}
  BY <1>1, <1>2 DEF ValidBranch, TxsIn
<1>4. Made({}) = {} /\ Used({}) = {} /\ RowsFor({}) = {}
  BY DEF Made, Used, RowsFor
<1>5. \A S : << >> \in [{} -> S]
  <2> SUFFICES ASSUME NEW S PROVE << >> \in [{} -> S]
    OBVIOUS
  <2>1. << >> \in [1..0 -> S]
    BY EmptySeq, LenProperties
  <2> QED BY <2>1
<1>6. \A S : << >> \in Seq(S)
  BY EmptySeq
<1>7. TxTables(Tables, {}, {})
  <2>1. Marked(txOutputs, {})
    BY <1>1, <1>4, <1>5 DEF Marked
  <2>2. txIndex \in [{} -> {}] /\ txCache \in Seq(Places(txIndex, {}))
    BY <1>1, <1>5, <1>6
  <2> QED BY <1>1, <2>1, <2>2, TablesAre DEF TxTables
<1>8. AddressTables(Tables, {})
  <2>1. ASSUME NEW a \in Holder
        PROVE  Amount(Of(a, Made({}))) - Amount(Of(a, Used({}))) = 0
    <3>1. Of(a, {}) = {}
      BY DEF Of
    <3> QED BY <1>4, <3>1, NoAmount
  <2>2. balances = [a \in Holder |-> Amount(Of(a, Made({}))) - Amount(Of(a, Used({})))]
    BY <1>1, <2>1
  <2>3. infoCache \in Seq({InfoFor(Tables, a) : a \in Holder})
    BY <1>1, <1>6
  <2> QED BY <1>1, <1>4, <2>2, <2>3, TablesAre DEF AddressTables
<1> QED BY <1>1, <1>2, <1>3, <1>7, <1>8 DEF IndexesInv

\* Connecting a block.
LEMMA ExtendKeepsIndexes ==
  ASSUME IndexesInv, NEW b \in Delivered, ExtendChain(b)
  PROVE  IndexesInv'
<1>1. b \in NonGenesis
  BY IndexAssumption DEF IndexAssumption
<1>2. /\ Parent[b] = chainTip /\ StatefulOK(b, UtxoOf(chainTip))
      /\ chainTip' = b /\ Become(IndexBlock(Tables, b))
  BY DEF ExtendChain
<1>3. /\ chainTip \in Block /\ ValidBranch(chainTip)
      /\ TxTables(Tables, TxsIn(Anc[chainTip]), Anc[chainTip] \ {Genesis})
      /\ AddressTables(Tables, TxsIn(Anc[chainTip]))
  BY DEF IndexesInv
<1>4. b \in Block /\ Anc[b] = {b} \cup Anc[chainTip] /\ b # Genesis
  BY <1>1, <1>2, BranchStep
<1>5. ValidBranch(b)
  BY <1>2, <1>3, <1>4 DEF ValidBranch
<1>6. PICK B : B = Anc[b] \ {Genesis}
  OBVIOUS
<1>7. TxTables(Tables, TxsIn(Anc[chainTip]), B)
  <2>1. Anc[chainTip] \ {Genesis} \subseteq B
    BY <1>4, <1>6
  <2>2. PICK S \in SUBSET Anc[chainTip] : S = Anc[chainTip]
    OBVIOUS
  <2>3. TxTables(Tables, TxsIn(S), B)
    BY <1>3, <2>1, <2>2, AtHome
  <2> QED BY <2>2, <2>3
<1>8. PICK T : T = Tables
  OBVIOUS
<1>9. /\ IsTables(IndexBlock(T, b)) /\ TxTables(IndexBlock(T, b), TxsIn(Anc[b]), B)
      /\ AddressTables(T, TxsIn(Anc[Parent[b]])) => AddressTables(IndexBlock(T, b), TxsIn(Anc[b]))
  <2>1. b \in B /\ IsTables(T) /\ TxTables(T, TxsIn(Anc[Parent[b]]), B)
    BY <1>2, <1>4, <1>6, <1>7, <1>8, TablesAre
  <2> QED BY <1>1, <1>5, <2>1, BlockComesIn
<1>10. Tables' = IndexBlock(T, b)
  BY <1>2, <1>8, <1>9, TablesBecome
<1>11. AddressTables(IndexBlock(T, b), TxsIn(Anc[b]))
  BY <1>2, <1>3, <1>8, <1>9
<1>12. /\ chainTip' \in Block /\ ValidBranch(chainTip')
       /\ TxTables(Tables', TxsIn(Anc[chainTip']), Anc[chainTip'] \ {Genesis})
       /\ AddressTables(Tables', TxsIn(Anc[chainTip']))
  BY <1>2, <1>4, <1>5, <1>6, <1>9, <1>10, <1>11
<1> QED BY <1>12 DEF IndexesInv

\* A reorganisation.
LEMMA SwitchKeepsIndexes ==
  ASSUME IndexesInv, NEW b \in Delivered, SwitchBranch(b)
  PROVE  IndexesInv'
<1>1. b \in Block
  BY IndexAssumption DEF IndexAssumption, NonGenesis
<1>2. ValidBranch(b) /\ chainTip' = b /\ Become(Reconcile(Tables, chainTip, b))
  BY DEF SwitchBranch
<1>3. /\ chainTip \in Block /\ ValidBranch(chainTip)
      /\ TxTables(Tables, TxsIn(Anc[chainTip]), Anc[chainTip] \ {Genesis})
  BY DEF IndexesInv
<1>4. PICK R : R = Reconcile(Tables, chainTip, b)
  OBVIOUS
<1>5. /\ IsTables(R) /\ TxTables(R, TxsIn(Anc[b]), Anc[b] \ {Genesis})
      /\ AddressTables(R, TxsIn(Anc[b]))
  <2>1. PICK T, f : T = Tables /\ f = chainTip
    OBVIOUS
  <2>2. /\ f \in Block /\ ValidBranch(f) /\ IsTables(T)
        /\ TxTables(T, TxsIn(Anc[f]), Anc[f] \ {Genesis})
    BY <1>3, <2>1, TablesAre
  <2>3. R = Reconcile(T, f, b)
    BY <1>4, <2>1
  <2> QED BY <1>1, <1>2, <2>2, <2>3, Reconciled
<1>6. Tables' = R
  BY <1>2, <1>4, <1>5, TablesBecome
<1>7. /\ chainTip' \in Block /\ ValidBranch(chainTip')
      /\ TxTables(Tables', TxsIn(Anc[chainTip']), Anc[chainTip'] \ {Genesis})
      /\ AddressTables(Tables', TxsIn(Anc[chainTip']))
  BY <1>1, <1>2, <1>5, <1>6
<1> QED BY <1>7 DEF IndexesInv

\* A query fills the cache of the transaction index.
LEMMA QueryKeepsIndexes ==
  ASSUME IndexesInv, NEW t \in Tx, GetTransaction(t)
  PROVE  IndexesInv'
<1>1. PICK T, X, B : T = Tables /\ X = TxsIn(Anc[chainTip]) /\ B = Anc[chainTip] \ {Genesis}
  OBVIOUS
<1>2. chainTip \in Block /\ ValidBranch(chainTip) /\ TxTables(T, X, B) /\ AddressTables(T, X)
  BY <1>1 DEF IndexesInv
<1>3. /\ t \in DOMAIN txIndex /\ txCache' = Remember(txCache, t, txIndex[t])
      /\ chainTip' = chainTip /\ infoCache' = infoCache
      /\ txIndex' = txIndex /\ txInputs' = txInputs /\ txOutputs' = txOutputs
      /\ addressTxs' = addressTxs /\ balances' = balances
  BY DEF GetTransaction, indexTables
<1>4. PICK U : U = Tables'
  OBVIOUS
<1>5. /\ U.idx = T.idx /\ U.ins = T.ins /\ U.outs = T.outs /\ U.rows = T.rows /\ U.bal = T.bal
      /\ U.adc = T.adc /\ U.txc = Remember(T.txc, t, T.idx[t]) /\ t \in DOMAIN T.idx
  BY <1>1, <1>3, <1>4 DEF Tables
<1>6. U.txc \in Seq(Places(U.idx, X))
  <2> DEFINE E == Places(T.idx, X)
             F == {e \in E : e.key # t} \cup {[key |-> t, is |-> T.idx[t]]}
  <2>1. T.txc \in Seq(E) /\ t \in X
    BY <1>2, <1>5 DEF TxTables
  <2>2. F \subseteq E
    BY <2>1 DEF Places
  <2> HIDE DEF E
  <2>3. U.txc \in Seq(F)
    BY <1>5, <2>1, Remembered
  <2> HIDE DEF F
  <2>4. U.txc \in Seq(E)
    BY <2>2, <2>3, SeqMonotonic
  <2> QED BY <1>5, <2>4 DEF E
<1>7. TxTables(U, X, B)
  BY <1>2, <1>5, <1>6 DEF TxTables
<1>8. AddressTables(U, X)
  <2>1. \A a \in Holder : InfoFor(U, a) = InfoFor(T, a)
    BY <1>5 DEF InfoFor
  <2>2. {InfoFor(U, a) : a \in Holder} = {InfoFor(T, a) : a \in Holder}
    BY <2>1
  <2> QED BY <1>2, <1>5, <2>2 DEF AddressTables
<1>9. /\ chainTip' \in Block /\ ValidBranch(chainTip')
      /\ TxTables(Tables', TxsIn(Anc[chainTip']), Anc[chainTip'] \ {Genesis})
      /\ AddressTables(Tables', TxsIn(Anc[chainTip']))
  BY <1>1, <1>2, <1>3, <1>4, <1>7, <1>8
<1> QED BY <1>9 DEF IndexesInv

\* A query fills the cache of the address index.
LEMMA InfoKeepsIndexes ==
  ASSUME IndexesInv, NEW a \in Holder, GetAddressInfo(a)
  PROVE  IndexesInv'
<1>1. PICK T, X, B : T = Tables /\ X = TxsIn(Anc[chainTip]) /\ B = Anc[chainTip] \ {Genesis}
  OBVIOUS
<1>2. chainTip \in Block /\ ValidBranch(chainTip) /\ TxTables(T, X, B) /\ AddressTables(T, X)
  BY <1>1 DEF IndexesInv
<1> DEFINE answer == <<T.bal[a], Cardinality({r \in T.rows : r[1] = a})>>
<1>3. /\ infoCache' = Remember(infoCache, a,
                          <<balances[a], Cardinality({r \in addressTxs : r[1] = a})>>)
      /\ chainTip' = chainTip /\ txCache' = txCache
      /\ txIndex' = txIndex /\ txInputs' = txInputs /\ txOutputs' = txOutputs
      /\ addressTxs' = addressTxs /\ balances' = balances
  BY DEF GetAddressInfo, indexTables
<1>4. PICK U : U = Tables'
  OBVIOUS
<1>5. /\ U.idx = T.idx /\ U.ins = T.ins /\ U.outs = T.outs /\ U.rows = T.rows /\ U.bal = T.bal
      /\ U.txc = T.txc /\ U.adc = infoCache' /\ T.adc = infoCache
      /\ T.bal = balances /\ T.rows = addressTxs
  BY <1>1, <1>3, <1>4 DEF Tables
<1>6. U.adc = Remember(T.adc, a, answer)
  BY <1>3, <1>5
<1>7. \A c \in Holder : InfoFor(U, c) = InfoFor(T, c)
  BY <1>5 DEF InfoFor
<1>8. {InfoFor(U, c) : c \in Holder} = {InfoFor(T, c) : c \in Holder}
  BY <1>7
<1>9. U.adc \in Seq({InfoFor(T, c) : c \in Holder})
  <2> DEFINE E == {InfoFor(T, c) : c \in Holder}
             F == {e \in E : e.key # a} \cup {[key |-> a, is |-> answer]}
  <2>1. T.adc \in Seq(E)
    BY <1>2 DEF AddressTables
  <2>2. F \subseteq E
    BY DEF InfoFor
  <2> HIDE DEF E, answer
  <2>3. U.adc \in Seq(F)
    BY <1>6, <2>1, Remembered
  <2> HIDE DEF F
  <2>4. U.adc \in Seq(E)
    BY <2>2, <2>3, SeqMonotonic
  <2> QED BY <2>4 DEF E
<1>10. TxTables(U, X, B)
  BY <1>2, <1>5 DEF TxTables
<1>11. AddressTables(U, X)
  BY <1>2, <1>5, <1>8, <1>9 DEF AddressTables
<1>12. /\ chainTip' \in Block /\ ValidBranch(chainTip')
       /\ TxTables(Tables', TxsIn(Anc[chainTip']), Anc[chainTip'] \ {Genesis})
       /\ AddressTables(Tables', TxsIn(Anc[chainTip']))
  BY <1>1, <1>2, <1>3, <1>4, <1>10, <1>11
<1> QED BY <1>12 DEF IndexesInv

-----------------------------------------------------------------------------
\* What an address can spend.
LEMMA CoinsAre ==
  ASSUME IndexesInv, NEW X, X = TxsIn(Anc[chainTip]), NEW a \in Holder
  PROVE  /\ Coins(a) = Of(a, Made(X) \ Used(X))
         /\ Of(a, Made(X)) \in SUBSET Outpoint /\ Of(a, Used(X)) \in SUBSET Of(a, Made(X))
         /\ Coins(a) = Of(a, Made(X)) \ Of(a, Used(X))
<1>1. chainTip \in Block /\ ValidBranch(chainTip)
  BY DEF IndexesInv
<1>2. Used(X) \subseteq Made(X) /\ X \in SUBSET Tx
  BY <1>1, BranchSound, Contents
<1>3. Made(X) \subseteq Outpoint
  BY <1>2, Contents
<1>4. UtxoOf(chainTip) = Made(X) \ Used(X)
  BY LedgerOf DEF UtxoOf
<1> QED BY <1>2, <1>3, <1>4 DEF Coins, Of

\* Balances.
LEMMA BalancesRight == IndexesInv => BalancesExact
<1> SUFFICES ASSUME IndexesInv, NEW a \in Holder PROVE balances[a] = Amount(Coins(a))
  BY DEF BalancesExact
<1>1. PICK X : X = TxsIn(Anc[chainTip])
  OBVIOUS
<1>2. balances[a] = Amount(Of(a, Made(X))) - Amount(Of(a, Used(X)))
  <2>1. AddressTables(Tables, X)
    BY <1>1 DEF IndexesInv
  <2> QED BY <2>1, TablesAre DEF AddressTables
<1>3. PICK M \in SUBSET Outpoint : /\ M = Of(a, Made(X)) /\ Coins(a) = M \ Of(a, Used(X))
                                  /\ Of(a, Used(X)) \in SUBSET M
  BY <1>1, CoinsAre
<1>4. Amount(M \ Of(a, Used(X))) = Amount(M) - Amount(Of(a, Used(X)))
  BY <1>3, AmountParts
<1> QED BY <1>2, <1>3, <1>4

\* Unspent outputs.
LEMMA UnspentRight == IndexesInv => UnspentExact
<1> SUFFICES ASSUME IndexesInv, NEW a \in Holder PROVE UnspentOutputs(a) = Coins(a)
  BY DEF UnspentExact
<1>1. PICK X : X = TxsIn(Anc[chainTip])
  OBVIOUS
<1>2. X \in SUBSET Tx
  BY <1>1, Contents DEF IndexesInv
<1>3. /\ txInputs = {r \in Tx \X Outpoint : r[1] \in X /\ r[2] \in TxIn[r[1]]}
      /\ Marked(txOutputs, X)
  <2>1. TxTables(Tables, X, Anc[chainTip] \ {Genesis})
    BY <1>1 DEF IndexesInv
  <2> QED BY <2>1, TablesAre DEF TxTables
<1>4. DOMAIN txOutputs = Made(X) /\ \A o \in Made(X) : txOutputs[o] <=> o \in Used(X)
  BY <1>3 DEF Marked
<1>5. \A r \in txInputs : r[2] \in Used(X)
  BY <1>3 DEF Used
<1>6. UnspentOutputs(a) = Of(a, Made(X) \ Used(X))
  BY <1>4, <1>5 DEF UnspentOutputs, Of
<1> QED BY <1>1, <1>6, CoinsAre

\* The caches.
LEMMA CachesRight == IndexesInv => CachedTxOnChain /\ CachedInfoFresh
<1> SUFFICES ASSUME IndexesInv PROVE CachedTxOnChain /\ CachedInfoFresh
  OBVIOUS
<1>1. PICK X : X = TxsIn(Anc[chainTip])
  OBVIOUS
<1>2. txIndex \in [X -> Anc[chainTip] \ {Genesis}] /\ txCache \in Seq(Places(txIndex, X))
  <2>1. TxTables(Tables, X, Anc[chainTip] \ {Genesis})
    BY <1>1 DEF IndexesInv
  <2> QED BY <2>1, TablesAre DEF TxTables
<1>3. infoCache \in Seq({InfoFor(Tables, a) : a \in Holder})
  <2>1. AddressTables(Tables, X)
    BY <1>1 DEF IndexesInv
  <2> QED BY <2>1, TablesAre DEF AddressTables
<1>4. CachedTxOnChain
  <2> SUFFICES ASSUME NEW i \in 1..Len(txCache)
               PROVE  /\ txCache[i].key \in DOMAIN txIndex
                      /\ txCache[i].is = txIndex[txCache[i].key]
                      /\ txCache[i].is \in Anc[chainTip]
    BY DEF CachedTxOnChain
  <2> DEFINE E == Places(txIndex, X)
  <2> HIDE DEF E
  <2>1. txCache[i] \in E
    <3>1. txCache \in Seq(E)
      BY <1>2 DEF E
    <3> QED BY <3>1, ElementOfSeq
  <2>2. PICK t \in X : txCache[i] = [key |-> t, is |-> txIndex[t]]
    BY <2>1 DEF E, Places
  <2> QED BY <1>2, <2>2
<1>5. CachedInfoFresh
  <2> SUFFICES ASSUME NEW i \in 1..Len(infoCache), NEW a, a = infoCache[i].key
               PROVE  infoCache[i].is = <<balances[a], Cardinality({r \in addressTxs : r[1] = a})>>
    BY DEF CachedInfoFresh
  <2> DEFINE E == {InfoFor(Tables, c) : c \in Holder}
  <2> HIDE DEF E
  <2>1. infoCache[i] \in E
    <3>1. infoCache \in Seq(E)
      BY <1>3 DEF E
    <3> QED BY <3>1, ElementOfSeq
  <2>2. PICK c \in Holder : infoCache[i] = InfoFor(Tables, c)
    BY <2>1 DEF E
  <2>3. infoCache[i] = [key |-> c, is |-> <<balances[c], Cardinality({r \in addressTxs : r[1] = c})>>]
    BY <2>2, TablesAre DEF InfoFor
  <2> QED BY <2>3
<1> QED BY <1>4, <1>5

\* What is spent by transactions up to t was made before t.
LEMMA MadeBefore ==
  ASSUME IndexesInv, NEW X, X = TxsIn(Anc[chainTip]), NEW t \in X,
         NEW s \in X, s = t \/ Before(s, t)
  PROVE  TxIn[s] \subseteq Made({u \in X : Before(u, t)})
<1>1. chainTip \in Block /\ ValidBranch(chainTip)
  BY DEF IndexesInv
<1>2. /\ txIndex \in [X -> Anc[chainTip] \ {Genesis}]
      /\ \A u \in X : u \in BlockTxs(txIndex[u])
  <2>1. TxTables(Tables, X, Anc[chainTip] \ {Genesis})
    BY DEF IndexesInv
  <2> QED BY <2>1, TablesAre DEF TxTables
<1>3. \A u \in X : RankOf(u)[1] = Tall(txIndex[u]) /\ Tall(txIndex[u]) \in Nat
  <2> SUFFICES ASSUME NEW u \in X PROVE RankOf(u)[1] = Tall(txIndex[u]) /\ Tall(txIndex[u]) \in Nat
    OBVIOUS
  <2>1. RankOf(u)[1] = Tall(txIndex[u])
    BY DEF RankOf, Tall
  <2>2. txIndex[u] \in Block
    BY <1>1, <1>2, Contents
  <2>3. IsFiniteSet(Anc[txIndex[u]])
    BY <2>2, Contents
  <2> QED BY <2>1, <2>3, FS_CardinalityType DEF Tall
<1>4. Tall(txIndex[s]) <= Tall(txIndex[t])
  BY <1>3 DEF Before
<1> SUFFICES ASSUME NEW o \in TxIn[s] PROVE \E u \in X : Before(u, t) /\ o \in TxOut[u]
  BY DEF Made
<1>5. PICK x : x = txIndex[s]
  OBVIOUS
<1>6. x \in Anc[chainTip] \ {Genesis} /\ s \in BlockTxs(x)
  BY <1>2, <1>5
<1>7. o \in Made(TxsIn(Anc[Parent[x]]))
  BY <1>1, <1>6, InputsBelow
<1>8. PICK y \in Anc[Parent[x]] \ {Genesis} : \E v \in BlockTxs(y) : o \in TxOut[v]
  BY <1>7 DEF Made, TxsIn
<1>8a. PICK u \in BlockTxs(y) : o \in TxOut[u]
  BY <1>8
<1>9. x \in NonGenesis /\ y \in Anc[chainTip]
  BY <1>1, <1>6, <1>8, BranchClosed
<1>10. Anc[x] = {x} \cup Anc[Parent[x]] /\ x \notin Anc[Parent[x]] /\ x \in Block
  BY <1>9, BranchStep
<1>11. y \in Anc[x] /\ y # x
  BY <1>8, <1>10
<1>12. Tall(y) < Tall(x)
  BY <1>10, <1>11, AncestorShorter DEF Tall
<1>13. u \in X
  BY <1>8a, <1>9 DEF TxsIn
<1>14. txIndex[u] = y
  <2>1. txIndex[u] \in Anc[chainTip] \ {Genesis} /\ u \in BlockTxs(txIndex[u])
    BY <1>2, <1>13
  <2> QED BY <1>1, <1>8a, <1>9, <2>1, IndexAssumption DEF IndexAssumption
<1>15. RankOf(u)[1] < RankOf(t)[1]
  <2>1. PICK h \in Nat, k \in Nat, m \in Nat :
           h = Tall(txIndex[u]) /\ k = Tall(txIndex[s]) /\ m = Tall(txIndex[t])
    BY <1>3, <1>13
  <2>2. h < k /\ k <= m
    BY <1>4, <1>5, <1>12, <1>14, <2>1
  <2>3. RankOf(u)[1] = h /\ RankOf(t)[1] = m
    BY <1>3, <1>13, <2>1
  <2> QED BY <2>2, <2>3
<1> QED BY <1>8a, <1>13, <1>15 DEF Before

\* The history.
LEMMA HistoryRight == IndexesInv => HistorySolvent
<1> SUFFICES ASSUME IndexesInv, NEW a \in Holder, NEW row \in addressTxs
             PROVE  LowestDuring(a, row[2]) >= 0
  BY DEF HistorySolvent
<1>1. PICK X : X = TxsIn(Anc[chainTip])
  OBVIOUS
<1>2. /\ addressTxs = RowsFor(X) /\ X \in SUBSET Tx /\ UsedOnce(X)
      /\ \A u \in X : u \in BlockTxs(txIndex[u])
  <2>1. AddressTables(Tables, X) /\ TxTables(Tables, X, Anc[chainTip] \ {Genesis})
    BY <1>1 DEF IndexesInv
  <2>2. chainTip \in Block /\ ValidBranch(chainTip)
    BY DEF IndexesInv
  <2> QED BY <1>1, <2>1, <2>2, TablesAre, BranchSound, Contents DEF AddressTables, TxTables
<1>3. PICK t \in X : t = row[2]
  BY <1>2 DEF RowsFor
<1> DEFINE Y == {u \in X : Before(u, t)}
           early == {r \in addressTxs : r[1] = a /\ Before(r[2], t)}
           now == {r \in addressTxs : r[1] = a /\ r[2] = t /\ r[3]}
<1>4. t \notin Y
  <2>1. \E i \in 1..Len(TxSeq[txIndex[t]]) : TxSeq[txIndex[t]][i] = t
    BY <1>2 DEF BlockTxs
  <2> DEFINE i == CHOOSE i \in 1..Len(TxSeq[txIndex[t]]) : TxSeq[txIndex[t]][i] = t
  <2>2. i \in 1..Len(TxSeq[txIndex[t]])
    BY <2>1
  <2>3. RankOf(t) = <<Tall(txIndex[t]), i>>
    BY DEF RankOf, Tall
  <2>4. Tall(txIndex[t]) \in Nat
    <3>1. txIndex[t] \in Anc[chainTip] /\ chainTip \in Block
      <4>1. TxTables(Tables, X, Anc[chainTip] \ {Genesis})
        BY <1>1 DEF IndexesInv
      <4>2. txIndex \in [X -> Anc[chainTip] \ {Genesis}]
        BY <4>1, TablesAre DEF TxTables
      <4> QED BY <4>2 DEF IndexesInv
    <3>2. txIndex[t] \in Block
      BY <3>1, Contents
    <3>3. IsFiniteSet(Anc[txIndex[t]])
      BY <3>2, Contents
    <3> QED BY <3>3, FS_CardinalityType DEF Tall
  <2> HIDE DEF i
  <2>5. RankOf(t)[1] \in Nat /\ RankOf(t)[2] \in Int
    BY <2>2, <2>3, <2>4
  <2>6. PICK h \in Nat, k \in Int : h = RankOf(t)[1] /\ k = RankOf(t)[2]
    BY <2>5
  <2>7. ~(h < h) /\ ~(k < k)
    OBVIOUS
  <2>8. ~Before(t, t)
    BY <2>6, <2>7 DEF Before
  <2> QED BY <2>8
<1>5. Used(Y) \subseteq Made(Y) /\ TxIn[t] \subseteq Made(Y)
  <2>1. \A s \in Y : TxIn[s] \subseteq Made(Y)
    BY <1>1, MadeBefore
  <2>2. TxIn[t] \subseteq Made(Y)
    BY <1>1, MadeBefore
  <2> QED BY <2>1, <2>2 DEF Used
<1>6. Used(Y) \cap TxIn[t] = {}
  BY <1>2, <1>4 DEF Used, UsedOnce
<1>7. {r \in early : ~r[3]} = Gains(a, Y) /\ {r \in early : r[3]} = Pays(a, Y)
  BY <1>2 DEF Gains, Pays, RowsFor
<1>8. {r \in now : ~r[3]} = Gains(a, {}) /\ {r \in now : r[3]} = Pays(a, {t})
  <2>1. {r \in now : ~r[3]} = {} /\ Gains(a, {}) = {}
    BY DEF Gains, RowsFor
  <2>2. {r \in now : r[3]} = Pays(a, {t})
    BY <1>2 DEF Pays, RowsFor
  <2> QED BY <2>1, <2>2
<1>9. \A rows : SumRows(rows) = RowSum({r \in rows : ~r[3]}) - RowSum({r \in rows : r[3]})
  BY DEF SumRows, RowSum
<1>10. LowestDuring(a, t) = (RowSum(Gains(a, Y)) - RowSum(Pays(a, Y)))
                            + (RowSum(Gains(a, {})) - RowSum(Pays(a, {t})))
  <2>1. LowestDuring(a, t) = SumRows(early) + SumRows(now)
    BY DEF LowestDuring
  <2> HIDE DEF early, now
  <2> QED BY <1>7, <1>8, <1>9, <2>1
<1>11. Y \in SUBSET Tx /\ {t} \in SUBSET Tx /\ {} \in SUBSET Tx
       /\ UsedOnce(Y) /\ UsedOnce({t}) /\ UsedOnce({})
  BY <1>2 DEF UsedOnce
<1> HIDE DEF Y
<1>12. /\ RowSum(Gains(a, Y)) = Amount(Of(a, Made(Y))) /\ RowSum(Pays(a, Y)) = Amount(Of(a, Used(Y)))
       /\ RowSum(Gains(a, {})) = Amount(Of(a, Made({}))) /\ RowSum(Pays(a, {t})) = Amount(Of(a, Used({t})))
  BY <1>11, RowsWorth
<1>13. Used({t}) = TxIn[t] /\ Of(a, Made({})) = {}
  BY DEF Used, Made, Of
<1>14. Made(Y) \in SUBSET Outpoint /\ Used(Y) \in SUBSET Outpoint /\ TxIn[t] \in SUBSET Outpoint
  BY <1>2, <1>11, Contents
<1>15. /\ Amount(Of(a, Used(Y) \cup TxIn[t])) = Amount(Of(a, Used(Y))) + Amount(Of(a, TxIn[t]))
       /\ Amount(Of(a, Used(Y))) \in Nat /\ Amount(Of(a, TxIn[t])) \in Nat
  BY <1>6, <1>14, AmountOfJoin
<1>16. /\ Amount(Of(a, Used(Y) \cup TxIn[t])) <= Amount(Of(a, Made(Y)))
       /\ Amount(Of(a, Made(Y))) \in Nat
  <2>1. PICK M \in SUBSET Outpoint : M = Of(a, Made(Y))
    BY <1>14 DEF Of
  <2>2. PICK U \in SUBSET M : U = Of(a, Used(Y) \cup TxIn[t])
    BY <1>5, <2>1 DEF Of
  <2>3. Amount(U) <= Amount(M)
    BY AmountParts
  <2> QED BY <2>1, <2>2, <2>3, AmountTotal
<1>17. PICK m \in Nat, u \in Nat, i \in Nat :
          m = Amount(Of(a, Made(Y))) /\ u = Amount(Of(a, Used(Y))) /\ i = Amount(Of(a, TxIn[t]))
  BY <1>15, <1>16
<1>18. LowestDuring(a, t) = (m - u) + (0 - i)
  BY <1>10, <1>12, <1>13, <1>17, NoAmount
<1>19. u + i <= m
  BY <1>15, <1>16, <1>17
<1>20. (m - u) + (0 - i) >= 0
  BY <1>19
<1> QED BY <1>3, <1>18, <1>20

\* Whatever blocks connect and whichever branch wins, what the transaction and
\* the address index answer, from their tables or from their caches, is what the
\* current chain says.
THEOREM IndexesAlwaysExact == IndexSpec => []IndexesExact
<1>1. IndexInit => IndexesInv
  BY IndexesStart
<1>2. IndexesInv /\ [IndexNext]_indexVars => IndexesInv'
  <2> SUFFICES ASSUME IndexesInv, [IndexNext]_indexVars PROVE IndexesInv'
    OBVIOUS
  <2>1. CASE \E b \in Delivered : ExtendChain(b)
    BY <2>1, ExtendKeepsIndexes
  <2>2. CASE \E b \in Delivered : SwitchBranch(b)
    BY <2>2, SwitchKeepsIndexes
  <2>3. CASE \E t \in Tx : GetTransaction(t)
    BY <2>3, QueryKeepsIndexes
  <2>4. CASE \E a \in Holder : GetAddressInfo(a)
    BY <2>4, InfoKeepsIndexes
  <2>5. CASE UNCHANGED indexVars
    <3>1. chainTip' = chainTip /\ Tables' = Tables
      BY <2>5 DEF indexVars, indexTables, Tables
    <3>2. /\ chainTip' \in Block /\ ValidBranch(chainTip')
          /\ TxTables(Tables', TxsIn(Anc[chainTip']), Anc[chainTip'] \ {Genesis})
          /\ AddressTables(Tables', TxsIn(Anc[chainTip']))
      BY <3>1 DEF IndexesInv
    <3> QED BY <3>2 DEF IndexesInv
  <2> QED BY <2>1, <2>2, <2>3, <2>4, <2>5 DEF IndexNext
<1>3. IndexesInv => IndexesExact
  BY BalancesRight, UnspentRight, CachesRight, HistoryRight DEF IndexesExact
<1> QED BY <1>1, <1>2, <1>3, PTL DEF IndexSpec
=============================================================================
