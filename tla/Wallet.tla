------------------------------- MODULE Wallet -------------------------------
(* SimpleWalletManager and the wallet RPC handlers: wallets in memory and in *)
(* encrypted files, the key that is unlocked for a while, and the payments   *)
(* built from the outputs of the active address.  A key is <<seed, index>>;  *)
(* it stands for its public key and address too.                             *)
EXTENDS Integers, Sequences, FiniteSets, FiniteSetsExt

CONSTANTS Seed, XPub, RawKey,  \* mnemonics, xpubs, keys of no mnemonic
          Pass,                \* passphrases
          MaxIndex,            \* bound on external_index
          UnlockTime,          \* wallet_default_unlock_timeout
          MaxClock,
          FirstCoins,          \* the outputs of the chain at the start
          PayAmount,              \* amounts asked to be sent
          CoinbaseMaturity, DustThreshold, RelayFee,
          MaxTip               \* bound on the height of the chain

\* An xpub is neither a mnemonic nor a private key, and no passphrase opens a
\* file that is missing or cut short.  Amounts are whole satoshis.
ASSUME WalletAssumption ==
    /\ MaxIndex \in Nat /\ XPub \cap (Seed \cup RawKey) = {}
    /\ {"missing", "torn"} \cap Pass = {}
    /\ IsFiniteSet(FirstCoins) /\ \A c \in FirstCoins : c.value \in Nat
    /\ PayAmount \subseteq Nat /\ RelayFee \in Nat /\ DustThreshold \in Nat

VARIABLES files,      \* wallet id -> the record on disk, or what is wrong with it
          pass,       \* _wallet_passphrase
          active,     \* active_wallet
          unlocked,   \* active_private_key
          until,      \* _unlocked_until
          clock, made,    \* the time; the seeds wallets were created from
          coins, tip,     \* the outputs of the chain and its height
          built, psbt     \* the last payment built, the last PSBT
keyVars == <<files, pass, active, unlocked, until, made>>
payVars == <<coins, built, psbt>>
walletVars == <<keyVars, payVars, clock, tip>>

NoKey == <<"no", 0>>
NoWallet == [kind |-> "none", key |-> NoKey, id |-> NoKey, tracked |-> {}]
Key == (Seed \X (0..MaxIndex)) \cup (RawKey \X {0})
Id == Key \cup (XPub \X (0..MaxIndex))
Missing == [pass |-> "missing", wallet |-> NoWallet]
TornWallet == [pass |-> "torn", wallet |-> NoWallet]
NoTx == [ins |-> {}, pay |-> 0, change |-> 0, to |-> NoKey, signer |-> NoKey, complete |-> FALSE]
-----------------------------------------------------------------------------
from_mnemonic(s, i) == [kind |-> "deterministic", key |-> <<s, i>>, id |-> <<s, i>>, tracked |-> {<<s, i>>}]
from_private_key(k) == [kind |-> "imported", key |-> k, id |-> k, tracked |-> {k}]
from_xpub(x, i) == [kind |-> "watch_only_xpub", key |-> <<x, i>>, id |-> <<x, 0>>, tracked |-> {<<x, i>>}]
Encrypted(w) == [pass |-> pass, wallet |-> w]
_save_wallet(w) == files' = [files EXCEPT ![w.id] = Encrypted(w)]

_unlock_for(t, k) == unlocked' = k /\ until' = clock + t
lock_wallet == unlocked' = NoKey /\ until' = 0
get_active_private_key == IF clock >= until THEN NoKey ELSE unlocked   \* _auto_lock_if_needed
-----------------------------------------------------------------------------
WalletInit ==
    /\ files = [i \in Id |-> Missing] /\ pass \in Pass
    /\ active = NoWallet /\ unlocked = NoKey /\ until = 0
    /\ clock = 0 /\ made = {} /\ coins = FirstCoins /\ tip = 1 /\ built = NoTx /\ psbt = NoTx

(* createwallet, and getnewaddress when no wallet is active *)
create_wallet(s) ==
    /\ s \notin made
    /\ LET w == from_mnemonic(s, 0)
       IN  _save_wallet(w) /\ active' = w /\ _unlock_for(UnlockTime, w.key)
    /\ made' = made \cup {s}
    /\ UNCHANGED <<pass, payVars, clock, tip>>

(* activatewallet, loadwallet: a file the passphrase opens that holds this   *)
(* key, else a new imported wallet, written over whatever has its id         *)
_load_wallet_by_private_key(k) ==
    {files[i].wallet : i \in {j \in Id : files[j].pass = pass /\ files[j].wallet.key = k}}
activate_wallet(k) ==
    /\ \/ /\ active' \in _load_wallet_by_private_key(k)
          /\ UNCHANGED files
       \/ /\ _load_wallet_by_private_key(k) = {}
          /\ active' = from_private_key(k)
          /\ _save_wallet(active')
    /\ _unlock_for(UnlockTime, k)
    /\ UNCHANGED <<pass, made, payVars, clock, tip>>

(* getnewaddress: the next child, under the identity of the wallet; an       *)
(* imported wallet keeps its address                                         *)
Child(w) == [w EXCEPT !.key = <<@[1], @[2] + 1>>, !.tracked = @ \cup {w.key, <<w.key[1], w.key[2] + 1>>}]
Derivable == active.kind \in {"deterministic", "watch_only_xpub"} /\ active.key[2] < MaxIndex
derive_new_address ==
    /\ Derivable
    /\ active' = Child(active)
    /\ IF active.kind = "deterministic" THEN _unlock_for(UnlockTime, active'.key) ELSE lock_wallet
    /\ _save_wallet(active')
    /\ UNCHANGED <<pass, made, payVars, clock, tip>>

Fault_import_xpub_watch_only(x) ==
    /\ active' = from_xpub(x, 0) /\ _save_wallet(active')
    /\ UNCHANGED <<pass, made, unlocked, until, payVars, clock, tip>>

import_xpub_watch_only(x) ==
    /\ active' = from_xpub(x, 0) /\ _save_wallet(active') /\ lock_wallet
    /\ UNCHANGED <<pass, made, payVars, clock, tip>>

wallet_lock == lock_wallet /\ UNCHANGED <<files, pass, active, made, payVars, clock, tip>>

(* walletpassphrase: what the file holds becomes the active wallet, and its  *)
(* passphrase the one later files are written under                          *)
wallet_passphrase(p, t) ==
    /\ active # NoWallet
    /\ files[active.id].pass = p /\ files[active.id].wallet.key = active.key
    /\ active' = files[active.id].wallet /\ pass' = p
    /\ IF active.kind = "watch_only_xpub" THEN lock_wallet ELSE _unlock_for(t, active'.key)
    /\ UNCHANGED <<files, made, payVars, clock, tip>>

Tick == clock < MaxClock /\ clock' = clock + 1 /\ UNCHANGED <<keyVars, payVars, tip>>

(* the node restarts, perhaps with another configured passphrase; or it dies *)
(* while _save_wallet rewrites a file in place                               *)
WalletRestart(p) ==
    /\ pass' = p /\ active' = NoWallet /\ lock_wallet
    /\ built' = NoTx /\ UNCHANGED <<files, made, coins, psbt, clock, tip>>
CrashInSave ==
    /\ Derivable
    /\ files' = [files EXCEPT ![active.id] = TornWallet]
    /\ active' = NoWallet /\ lock_wallet
    /\ built' = NoTx /\ UNCHANGED <<pass, made, coins, psbt, clock, tip>>
-----------------------------------------------------------------------------
(* Sizes in bytes of the scale of RelayFee: an estimate of one input and one *)
(* output, and the size of the signed transaction                            *)
SizeOf(ins, outs) == 2 * ins + outs
_estimate_fee_sats == SizeOf(1, 1)
ValueOfCoins(S) == MapThenSumSet(LAMBDA c : c.value, S)
FeeOf(tx) == ValueOfCoins(tx.ins) - tx.pay - tx.change
Outputs(tx) == IF tx.change > 0 THEN 2 ELSE 1
RequiredFee(tx) == RelayFee * SizeOf(Cardinality(tx.ins), Outputs(tx))

(* _select_spendable_inputs: one output that covers the target with the      *)
(* least left over, else the largest ones until they do                      *)
_select_spendable_inputs(S, target) ==
    LET singles == {c \in S : c.value >= target}
    IN  IF singles # {}
        THEN {{c} : c \in {d \in singles : \A e \in singles : d.value <= e.value}}
        ELSE {P \in SUBSET S :
                 /\ \A c \in P, d \in S \ P : c.value >= d.value
                 /\ ValueOfCoins(P) >= target \/ P = S
                 /\ \A c \in P : (\A d \in P : c.value <= d.value) => ValueOfCoins(P \ {c}) < target}

(* create_transaction: what is left over goes back to the active address *)
create_transaction(ins, amount, fee, signer) ==
    [ins |-> ins, pay |-> amount, to |-> active.key, signer |-> signer, complete |-> signer # NoKey,
     change |-> IF ValueOfCoins(ins) - amount - fee > 0 THEN ValueOfCoins(ins) - amount - fee ELSE 0]

Mature(c) == c.coinbase => tip - c.height + 1 >= CoinbaseMaturity
Owned(S) == {c \in S : c.to = active.key}    \* of this address only, not of all tracked ones
TargetFee == IF RelayFee > _estimate_fee_sats THEN RelayFee ELSE _estimate_fee_sats
Folded(ins, amount) ==
    LET left == ValueOfCoins(ins) - amount - TargetFee
    IN  IF 0 < left /\ left < DustThreshold THEN TargetFee + left ELSE TargetFee

(* the signed transaction, built again when its size asks for a higher fee   *)
Fault_Payment(ins, amount) == create_transaction(ins, amount, Folded(ins, amount), get_active_private_key)

Payment(ins, amount) ==
    LET tx == create_transaction(ins, amount, Folded(ins, amount), get_active_private_key)
    IN  IF RequiredFee(tx) > FeeOf(tx)
        THEN create_transaction(ins, amount, RequiredFee(tx), get_active_private_key) ELSE tx

(* What on_transaction makes of it: the script needs the key of the output,  *)
(* policy refuses dust; the chain takes it up at once                        *)
Accepted(tx) == /\ tx.complete /\ \A c \in tx.ins : c \in coins /\ c.to = tx.signer
                /\ tx.change = 0 \/ tx.change >= DustThreshold
CoinsLeft(tx) == (coins \ tx.ins)
             \cup IF tx.change = 0 THEN {}
                  ELSE {[to |-> tx.to, value |-> tx.change, height |-> tip, coinbase |-> FALSE]}
send_to_address(amount) ==
    /\ active.kind \in {"deterministic", "imported"}
    /\ \E ins \in _select_spendable_inputs({c \in Owned(coins) : Mature(c)}, amount + TargetFee) :
          LET tx == Payment(ins, amount)
          IN  /\ ValueOfCoins(ins) >= amount + TargetFee
              /\ get_active_private_key # NoKey
              /\ FeeOf(tx) >= 0 /\ ValueOfCoins(ins) >= amount + RequiredFee(tx)
              /\ built' = tx
              /\ coins' = IF Accepted(tx) THEN CoinsLeft(tx) ELSE coins
    /\ UNCHANGED <<keyVars, psbt, clock, tip>>

(* wallet_create_funded_psbt asks neither maturity nor key; walletprocesspsbt *)
(* signs with whatever key is unlocked then                                   *)
wallet_create_funded_psbt(amount) ==
    /\ active # NoWallet
    /\ \E ins \in _select_spendable_inputs(Owned(coins), amount + TargetFee) :
          /\ ValueOfCoins(ins) >= amount + TargetFee
          /\ psbt' = create_transaction(ins, amount, TargetFee, NoKey)
    /\ UNCHANGED <<keyVars, coins, built, clock, tip>>
wallet_process_psbt ==
    /\ psbt # NoTx /\ active.kind \in {"deterministic", "imported"}
    /\ get_active_private_key # NoKey
    /\ psbt' = [psbt EXCEPT !.signer = get_active_private_key, !.complete = TRUE]
    /\ UNCHANGED <<keyVars, coins, built, clock, tip>>
SendRawPsbt ==    \* finalizepsbt and sendrawtransaction
    /\ psbt.complete
    /\ coins' = IF Accepted(psbt) THEN CoinsLeft(psbt) ELSE coins
    /\ psbt' = NoTx
    /\ UNCHANGED <<keyVars, built, clock, tip>>
NewTip == tip < MaxTip /\ tip' = tip + 1 /\ UNCHANGED <<keyVars, payVars, clock>>

KeyNext == \/ \E s \in Seed : create_wallet(s)
           \/ \E k \in Key : activate_wallet(k)
           \/ \E x \in XPub : import_xpub_watch_only(x)
           \/ \E p \in Pass : wallet_passphrase(p, 1) \/ WalletRestart(p)
           \/ derive_new_address \/ wallet_lock \/ Tick
PayNext == \/ \E a \in PayAmount : send_to_address(a) \/ wallet_create_funded_psbt(a)
           \/ wallet_process_psbt \/ SendRawPsbt \/ NewTip

WalletSpec == WalletInit /\ [][KeyNext \/ CrashInSave \/ PayNext]_walletVars
-----------------------------------------------------------------------------
(* The key that signs is the key of the wallet whose address is shown and    *)
(* whose outputs are spent, after every sequence of creating, loading,       *)
(* deriving, importing, locking and restarting.                              *)
KeyFitsWallet == unlocked # NoKey => unlocked = active.key /\ active.kind # "watch_only_xpub"

(* The file of the active wallet holds the wallet as it is in memory, so     *)
(* walletpassphrase opens it again and a restart finds every tracked address.*)
ActiveOnDisk == active # NoWallet => files[active.id].wallet = active

(* A payment the wallet signs pays the relay fee of the size it really has   *)
(* and loses nothing: inputs are amount, change and fee.                     *)
BuiltPaysFee == built # NoTx => /\ FeeOf(built) >= RequiredFee(built)
                                /\ built.change >= 0

(* The active wallet, its key in memory and its file belong together.        *)
ActiveWalletSound == KeyFitsWallet /\ ActiveOnDisk
=============================================================================
