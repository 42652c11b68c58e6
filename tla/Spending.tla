------------------------------ MODULE Spending ------------------------------
(* verify_input_script and the signature checks: what a key has signed, and  *)
(* which spends of one output are accepted on the strength of it.  A hash or *)
(* a digest is the record of what goes into it; keys, scripts and            *)
(* transactions are small records.  The scripts themselves run in ScriptVM:  *)
(* here a redeem script or a leaf asks for the signatures of its keys.       *)
EXTENDS Integers, Sequences, SequencesExt, FiniteSetsExt

CONSTANTS Key,            \* [id, compressed]
          SpentOutputs,   \* outputs that may be spent, with the kind of script
          Transactions,   \* [ins, outs, lock] that may be signed or submitted
          SighashTypes,   \* [base, acp], base "ALL", "NONE", "SINGLE", "DEFAULT"
          SigForms,       \* encodings of a signature: "der", "lax", "high"
          Annexes,        \* last witness items starting with 0x50, or NoAnnex
          NoAnnex, NoCode,
          RedeemScripts, Leaves, ControlBlocks,   \* what a spend may reveal
          MaxPath,        \* bound on the path of a control block
          MaxSigned       \* bound on the signatures made

\* Transactions list their inputs, and none spends an output twice: validation
\* and the mempool refuse such a transaction before its scripts are run.
ASSUME TransactionAssumption ==
    \A tx \in Transactions :
        /\ Len(tx.ins) \in Nat /\ DOMAIN tx.ins = 1..Len(tx.ins)
        /\ \A j \in 1..Len(tx.ins) : {"prev", "seq"} \subseteq DOMAIN tx.ins[j]
        /\ \A j, k \in 1..Len(tx.ins) : tx.ins[j].prev = tx.ins[k].prev => j = k

\* The kinds of output and of redeem script, the types of signature, and the
\* paths of the model.
ASSUME SpendAssumption ==
    /\ \A o \in SpentOutputs :
          \/ o.kind \in {"p2pkh", "p2wpkh", "p2tr"}
          \/ o.kind = "p2sh" /\ o.hash.hash160.kind \in {"p2wpkh", "p2tr", "checksig"}
    /\ SighashTypes \subseteq [base : {"ALL", "NONE", "SINGLE", "DEFAULT"}, acp : BOOLEAN]
    /\ MaxPath \in Nat
    /\ \A c \in ControlBlocks : Len(c.path) \in 0..MaxPath

VARIABLES output,    \* the output that is spent
          signed,    \* signatures made so far
          accepted   \* the last spend that verify_input_script accepted, or {}

spendVars == <<output, signed, accepted>>

\* STANDARD_VERIFY_FLAGS enable DERSIG, LOW_S, STRICTENC and P2SH.
Amount == 7
Hash160(x) == [hash160 |-> x]

-----------------------------------------------------------------------------
(* Digests                                                                   *)

\* A SINGLE signature without its output signs a constant.
One == [const |-> 1]
Zero == [const |-> 0]

Outputs(tx, at, base) ==
    CASE base \in {"ALL", "DEFAULT"} -> tx.outs
      [] base = "SINGLE"             -> <<tx.outs[at]>>
      [] base = "NONE"               -> <<>>

\* calculate_legacy_sighash.  With ANYONECANPAY the input becomes the first and
\* SINGLE keeps the first output, whatever its index was.
LegacyDigest(tx, i, type, code) ==
    LET at  == IF type.acp THEN 1 ELSE i
        ins == IF type.acp THEN <<tx.ins[i]>> ELSE tx.ins
    IN  IF type.base = "SINGLE" /\ at > Len(tx.outs) THEN One
        ELSE [scheme |-> "legacy", at |-> at, code |-> code, type |-> type, lock |-> tx.lock,
              ins  |-> [j \in 1..Len(ins) |->
                          IF j = at \/ type.base = "ALL" THEN ins[j] ELSE [ins[j] EXCEPT !.seq = 0]],
              outs |-> Outputs(tx, at, type.base)]

\* calculate_segwit_v0_sighash
SegwitDigest(tx, i, type, code) ==
    IF type.base = "SINGLE" /\ i > Len(tx.outs) THEN One
    ELSE [scheme |-> "segwit", type |-> type, lock |-> tx.lock, code |-> code, amount |-> Amount,
          prevs |-> IF type.acp THEN <<>> ELSE [j \in 1..Len(tx.ins) |-> tx.ins[j].prev],
          seqs  |-> IF type.acp \/ type.base # "ALL" THEN <<>>
                    ELSE [j \in 1..Len(tx.ins) |-> tx.ins[j].seq],
          this  |-> tx.ins[i],
          outs  |-> Outputs(tx, i, type.base)]

\* calculate_taproot_keypath_sighash.  The amounts and scripts of the other
\* inputs are hashed as nothing.
KeyPathDigest(tx, i, type, spk, annex) ==
    IF type.base = "SINGLE" /\ i > Len(tx.outs) THEN Zero
    ELSE [scheme |-> "taproot", type |-> type, lock |-> tx.lock, annex |-> annex,
          spk   |-> spk, amount |-> Amount,
          prevs |-> IF type.acp THEN <<>> ELSE [j \in 1..Len(tx.ins) |-> tx.ins[j].prev],
          seqs  |-> IF type.acp \/ type.base \notin {"ALL", "DEFAULT"} THEN <<>>
                    ELSE [j \in 1..Len(tx.ins) |-> tx.ins[j].seq],
          outs  |-> Outputs(tx, i, type.base),
          this  |-> IF type.acp THEN tx.ins[i] ELSE [at |-> i]]

TapLeaf(script) == [leaf |-> script]

\* calculate_taproot_scriptpath_sighash
ScriptPathDigest(tx, i, type, spk, annex, leaf) ==
    LET base == KeyPathDigest(tx, i, type, spk, annex)
    IN  IF base = Zero THEN Zero ELSE [base |-> base, tapleaf |-> leaf]

-----------------------------------------------------------------------------
(* SignatureChecker                                                          *)

\* _parse_der_signature and _is_low_s, by the form of the encoding.
ParseDer(sig) == sig.form # "lax"
IsLowS(sig) == ParseDer(sig) /\ sig.form # "high"

\* check_signature under the standard flags.
CheckSignature(sig, key, digest) ==
    /\ sig.type.base # "DEFAULT"
    /\ ParseDer(sig) /\ IsLowS(sig)
    /\ key.compressed
    /\ sig.key = key /\ sig.digest = digest

\* check_schnorr_signature; ANYONECANPAY has no DEFAULT form.
CheckSchnorr(sig, key, digest) ==
    /\ ~(sig.type.base = "DEFAULT" /\ sig.type.acp)
    /\ sig.key = key /\ sig.digest = digest

-----------------------------------------------------------------------------
(* Taproot commitments                                                       *)

\* The two branches are hashed in order, so a pair is a set.
TapBranch(a, b) == [branch |-> {a, b}]
MerkleRoot(leaf, path) ==
    LET node[j \in 0..Len(path)] == IF j = 0 THEN leaf ELSE TapBranch(node[j - 1], path[j])
    IN  node[Len(path)]

\* taproot_tweak_pubkey: the output key of an internal key and a tree.
Tweak(internal, root) == [internal |-> internal, root |-> root]

\* verify_taproot_scriptpath_commitment
Commits(spk, script, control) ==
    /\ Tweak(control.internal, MerkleRoot(TapLeaf(script), control.path)) = spk.key
    /\ control.parity = spk.parity

-----------------------------------------------------------------------------
(* verify_input_script                                                       *)

\* A spend: the transaction and input, the items of the scriptSig and of the
\* witness, a witness item being a signature, a key, a script or a control
\* block, and an annex.
P2wpkh(spk, s) ==
    /\ s.scriptSig = <<>> /\ Len(s.witness) = 2
    /\ Hash160(s.witness[2]) = spk.hash
    /\ CheckSignature(s.witness[1], s.witness[2],
                      SegwitDigest(s.tx, s.i, s.witness[1].type, spk.hash))

P2trKey(spk, s) ==
    /\ s.scriptSig = <<>> /\ Len(s.witness) = 1
    /\ CheckSchnorr(s.witness[1], spk.key,
                    KeyPathDigest(s.tx, s.i, s.witness[1].type, spk, s.annex))

\* The script path: the leaf asks for one signature, the last stack item.
P2trScript(spk, s) ==
    LET n == Len(s.witness)
    IN  /\ s.scriptSig = <<>> /\ n >= 3
        /\ Commits(spk, s.witness[n - 1], s.witness[n])
        /\ s.witness[n].version = 192
        /\ CheckSchnorr(s.witness[n - 2], s.witness[n - 1].key,
               ScriptPathDigest(s.tx, s.i, s.witness[n - 2].type, spk, s.annex,
                                TapLeaf(s.witness[n - 1])))

\* A redeem script that runs in the engine: its signature digests carry no
\* script code.
Redeems(script, s) ==
    /\ Len(s.scriptSig) = 2
    /\ CheckSignature(s.scriptSig[1], script.key,
                      LegacyDigest(s.tx, s.i, s.scriptSig[1].type, NoCode))

\* Nested witness programs are checked with an empty scriptSig.
Nested(redeem, s) ==
    LET inner == [s EXCEPT !.scriptSig = <<>>]
    IN  CASE redeem.kind = "p2wpkh" -> P2wpkh(redeem, inner)
          [] redeem.kind = "p2tr"   -> P2trKey(redeem, inner) \/ P2trScript(redeem, inner)
          [] OTHER                  -> Redeems(redeem, s)

FaultP2sh(spk, s) == s.scriptSig # <<>> /\ Nested(Last(s.scriptSig), s)

P2sh(spk, s) ==
    /\ s.scriptSig # <<>>
    /\ Hash160(Last(s.scriptSig)) = spk.hash
    /\ Nested(Last(s.scriptSig), s)

P2pkh(spk, s) ==
    /\ Len(s.scriptSig) = 2
    /\ Hash160(s.scriptSig[2]) = spk.hash
    /\ CheckSignature(s.scriptSig[1], s.scriptSig[2],
                      LegacyDigest(s.tx, s.i, s.scriptSig[1].type, spk.hash))

VerifyInputScript(spk, s) ==
    CASE spk.kind = "p2wpkh" -> P2wpkh(spk, s)
      [] spk.kind = "p2tr"   -> P2trKey(spk, s) \/ P2trScript(spk, s)
      [] spk.kind = "p2sh"   -> P2sh(spk, s)
      [] spk.kind = "p2pkh"  -> P2pkh(spk, s)

-----------------------------------------------------------------------------
(* Signing and spending                                                      *)

SpendInit == output \in SpentOutputs /\ signed = {} /\ accepted = {}

\* The program whose digest a signer of the output computes.
Program(spk) == IF spk.kind = "p2sh" THEN spk.hash.hash160 ELSE spk

Digest(spk, tx, i, type, annex, leaf) ==
    CASE spk.kind = "p2pkh"  -> LegacyDigest(tx, i, type, spk.hash)
      [] spk.kind = "p2wpkh" -> SegwitDigest(tx, i, type, spk.hash)
      [] spk.kind = "p2tr"   -> IF leaf = {} THEN KeyPathDigest(tx, i, type, spk, annex)
                                ELSE ScriptPathDigest(tx, i, type, spk, annex,
                                                      TapLeaf(CHOOSE l \in leaf : TRUE))
      [] OTHER               -> LegacyDigest(tx, i, type, NoCode)

\* A wallet signs input i of a transaction with one of the keys it may have.
SignInput(k, tx, i, type, form, annex, leaf) ==
    /\ Cardinality(signed) < MaxSigned
    /\ signed' = signed \cup
          {[key |-> k, type |-> type, form |-> form, tx |-> tx, i |-> i,
            digest |-> Digest(Program(output), tx, i, type, annex, leaf)]}
    /\ UNCHANGED <<output, accepted>>

\* A transaction reveals items for the output and is accepted.
SpendOutput(s) ==
    /\ VerifyInputScript(output, s)
    /\ accepted' = {s}
    /\ UNCHANGED <<output, signed>>

ScriptSigs(sig) ==
    {<<>>} \cup {<<sig, k>> : k \in Key} \cup {<<r>> : r \in RedeemScripts}
    \cup {<<sig, r>> : r \in RedeemScripts}
Witnesses(sig) ==
    {<<>>, <<sig>>} \cup {<<sig, k>> : k \in Key}
    \cup {<<sig, l, c>> : l \in Leaves, c \in ControlBlocks}

\* Only item lists of the shape that the kind of output looks at are tried;
\* the others are refused at the first test.
Shapes(sig) ==
    CASE output.kind = "p2pkh"  -> ScriptSigs(sig) \X {<<>>}
      [] output.kind = "p2sh"   -> {<<sig, r>> : r \in RedeemScripts} \X {<<>>}
                                   \cup {<<r>> : r \in RedeemScripts} \X Witnesses(sig)
      [] OTHER                  -> {<<>>} \X Witnesses(sig)

\* Only a taproot program looks at the annex, and only it has leaves.
Taproot == Program(output).kind = "p2tr"
AnnexChoices == IF Taproot THEN Annexes ELSE {NoAnnex}
LeafChoices == IF Taproot THEN {{}} \cup {{l} : l \in Leaves} ELSE {{}}
Signers == IF Taproot THEN Key \cup {Program(output).key} ELSE Key

SpendNext ==
    \/ \E k \in Signers, tx \in Transactions, type \in SighashTypes, form \in SigForms,
          annex \in AnnexChoices, leaf \in LeafChoices :
          \E i \in 1..Len(tx.ins) : SignInput(k, tx, i, type, form, annex, leaf)
    \/ \E sig \in signed, tx \in Transactions, annex \in AnnexChoices :
          \E i \in 1..Len(tx.ins), w \in Shapes(sig) :
            SpendOutput([tx |-> tx, i |-> i, annex |-> annex, sig |-> sig,
                         scriptSig |-> w[1], witness |-> w[2]])

SpendSpec == SpendInit /\ [][SpendNext]_spendVars

-----------------------------------------------------------------------------
(* Properties                                                                *)

\* The keys that an output commits to, through a hash, a redeem script or the
\* leaves of its tree.
Inside(hash) == IF "branch" \in DOMAIN hash THEN hash.branch ELSE {}
LeavesOf(root) ==
    LET level[d \in 0..MaxPath] ==
            IF d = 0 THEN {root} ELSE UNION {Inside(h) : h \in level[d - 1]}
    IN  {h.leaf : h \in {x \in UNION {level[d] : d \in 0..MaxPath} : "leaf" \in DOMAIN x}}
Owners(spk) ==
    CASE spk.kind = "p2tr" -> {spk.key} \cup {l.key : l \in LeavesOf(spk.key.root)}
      [] spk.kind \in {"p2pkh", "p2wpkh"} -> {spk.hash.hash160}
      [] OTHER -> {spk.key}

\* A spend is accepted only with the signature of a key that the output
\* commits to, whatever program, script or control block is revealed.
OwnersOnly == \A s \in accepted : s.sig.key \in Owners(Program(output))

\* An accepted spend is the one its owner signed in everything that the type of
\* the signature covers: the input spent, all inputs unless ANYONECANPAY, all
\* outputs for ALL, the output of the same index for SINGLE.  Set aside are a
\* SINGLE without an output of its own, which signs a constant, and a legacy
\* SINGLE with ANYONECANPAY, which signs the first output.
AcceptedAsSigned ==
    \A s \in accepted :
        LET sig == s.sig  type == sig.type  alike == sig.tx
            whole  == sig.digest \notin {One, Zero}
            legacyKind == Program(output).kind \notin {"p2wpkh", "p2tr"}
        IN  whole =>
            /\ s.tx.lock = alike.lock
            /\ s.tx.ins[s.i].prev = alike.ins[sig.i].prev
            /\ ~type.acp => /\ s.i = sig.i /\ Len(s.tx.ins) = Len(alike.ins)
                            /\ \A j \in 1..Len(alike.ins) : s.tx.ins[j].prev = alike.ins[j].prev
            /\ type.base \in {"ALL", "DEFAULT"} => s.tx.outs = alike.outs
            /\ type.base = "SINGLE" /\ ~(legacyKind /\ type.acp) =>
                    s.tx.outs[s.i] = alike.outs[sig.i]

\* An output is spent by its owner, the way the owner signed.
SpendsAuthorised == OwnersOnly /\ AcceptedAsSigned
=============================================================================
